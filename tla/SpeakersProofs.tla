--------------------------- MODULE SpeakersProofs ----------------------------
(***************************************************************************)
(* Theorems about the live speaker registry (LiveSpeakers, LiveVoices) and *)
(* about the final labels, names and turns (FinalSpeakers).                *)
(***************************************************************************)
EXTENDS LiveVoices, FinalSpeakers, FiniteSetTheorems, TLAPS

\* The loops that both passes run.
JoinLoop == INSTANCE Folding WITH Op <- LAMBDA all, more, c : all \o more
SearchLoop == INSTANCE Folding WITH Op <- LAMBDA s, k, m : Search(s, m)
ShiftLoop == INSTANCE Folding WITH Op <- LAMBDA s, k, c : Shift(s)
RowLoop == INSTANCE Folding WITH Op <- PlaceRow
GapLoop == INSTANCE Folding WITH Op <- LAMBDA st, k, provider : LinkNearest(provider, st)
LinkLoop == INSTANCE Folding WITH Op <- Link
WaitLoop == INSTANCE Folding WITH Op <- Wait
PromoteLoop == INSTANCE Folding WITH Op <- Promote
AddLoop == INSTANCE Folding WITH Op <- AddWord
TotalLoop == INSTANCE Folding WITH Op <- LAMBDA sum, s, c : sum + s[2] - s[1]
EachLoop == INSTANCE Folding WITH Op <- LAMBDA sum, r, l : sum + Overlap(l, r)
BothLoop == INSTANCE Folding WITH Op <- LAMBDA sum, l, rs : sum + SharedWith(l, rs)

-----------------------------------------------------------------------------
(* Lists and orders.                                                        *)

\* A sequence over a set, over a larger one; and two put end to end.
LEMMA Widened ==
    ASSUME NEW S, NEW R, S \subseteq R, NEW a \in Seq(S)
    PROVE  a \in Seq(R)
OBVIOUS

LEMMA Joined ==
    ASSUME NEW S, NEW a \in Seq(S), NEW b \in Seq(S)
    PROVE  /\ a \o b \in Seq(S) /\ Len(a \o b) = Len(a) + Len(b)
           /\ \A i \in DOMAIN a : i \in DOMAIN (a \o b) /\ (a \o b)[i] = a[i]
OBVIOUS

IsAmong(x, list) == \E k \in DOMAIN list : list[k] = x

LEMMA JoinedAfter ==
    ASSUME NEW S, NEW a \in Seq(S), NEW b \in Seq(S), NEW j \in DOMAIN b
    PROVE  IsAmong(b[j], a \o b)
<1> DEFINE k == Len(a) + j
           all == a \o b
<1>1. k \in DOMAIN all /\ all[k] = b[j]
  OBVIOUS
<1> HIDE DEF k, all
<1>2. IsAmong(b[j], all)
  BY <1>1 DEF IsAmong
<1> QED
  BY <1>2 DEF all

\* Flattening goes through the lists one after the other.
LEMMA FlattenSteps ==
    ASSUME NEW S, NEW lists \in Seq(Seq(S)), Len(lists) # 0
    PROVE  \E f : /\ FlattenSeq(lists) = f[Len(lists)]
                  /\ \A k \in 1 .. Len(lists) :
                        f[k] = IF k = 1 THEN lists[k] ELSE f[k - 1] \o lists[k]
<1> DEFINE n == Len(lists)
           Body(g) == [i \in 1 .. n |-> IF i = 1 THEN lists[i] ELSE g[i - 1] \o lists[i]]
           f == CHOOSE g : g = Body(g)
<1>1. /\ n \in Nat \ {0} /\ DOMAIN lists = 1 .. n
      /\ \A i \in 1 .. n : lists[i] \in Seq(S)
  OBVIOUS
<1>2. FlattenSeq(lists) = f[n]
  BY DEF FlattenSeq
<1>3. PICK run : JoinLoop!IsRun(run, 0, <<>>, lists)
  <2>1. JoinLoop!IsList(lists)
    BY <1>1 DEF JoinLoop!IsList
  <2> QED
    BY <2>1, JoinLoop!FoldRuns
<1>4. run[0] = <<>> /\ \A i \in 1 .. n : run[i] = run[i - 1] \o lists[i]
  BY <1>3 DEF JoinLoop!IsRun
<1>5. run[1] = lists[1]
  <2>1. 1 \in 1 .. n /\ 1 - 1 = 0
    BY <1>1
  <2>2. run[1] = <<>> \o lists[1] /\ lists[1] \in Seq(S)
    BY <1>1, <1>4, <2>1
  <2> QED
    BY <2>2
<1> DEFINE h == [i \in 1 .. n |-> run[i]]
<1>6. \A i \in 1 .. n : h[i] = IF i = 1 THEN lists[i] ELSE h[i - 1] \o lists[i]
  <2> SUFFICES ASSUME NEW i \in 1 .. n
               PROVE  h[i] = IF i = 1 THEN lists[i] ELSE h[i - 1] \o lists[i]
    OBVIOUS
  <2>1. CASE i = 1
    BY <1>5, <2>1
  <2>2. CASE i # 1
    <3>1. i - 1 \in 1 .. n
      BY <1>1, <2>2
    <3> QED
      BY <1>4, <2>2, <3>1
  <2> QED
    BY <2>1, <2>2
<1>7. h = Body(h)
  <2>1. h = [i \in 1 .. n |-> h[i]]
    OBVIOUS
  <2> HIDE DEF h, n
  <2> QED
    BY <1>6, <2>1
<1>8. f = Body(f)
  <2> HIDE DEF h, n
  <2> QED
    BY <1>7
<1> HIDE DEF f, h
<1>9. \A k \in 1 .. n : f[k] = IF k = 1 THEN lists[k] ELSE f[k - 1] \o lists[k]
  BY <1>8
<1> QED
  BY <1>2, <1>9

\* A list comprehension makes a list of what its parts hold.
LEMMA Flattened ==
    ASSUME NEW S, NEW lists \in Seq(Seq(S))
    PROVE  FlattenSeq(lists) \in Seq(S)
<1> DEFINE n == Len(lists)
<1>1. /\ n \in Nat /\ DOMAIN lists = 1 .. n
      /\ \A i \in 1 .. n : lists[i] \in Seq(S)
  OBVIOUS
<1>2. CASE n = 0
  BY <1>2 DEF FlattenSeq
<1>3. CASE n # 0
  <2>1. PICK f : /\ FlattenSeq(lists) = f[n]
                 /\ \A k \in 1 .. n : f[k] = IF k = 1 THEN lists[k] ELSE f[k - 1] \o lists[k]
    BY <1>3, FlattenSteps
  <2> DEFINE T == {k \in 0 .. n : k = 0 \/ f[k] \in Seq(S)}
  <2>2. 0 \in T
    BY <1>1
  <2>3. ASSUME NEW k \in 1 .. n, k - 1 \in T PROVE k \in T
    <3>1. lists[k] \in Seq(S)
      BY <1>1
    <3>2. k = 1 => f[k] = lists[k]
      BY <2>1
    <3>3. k # 1 => f[k] = f[k - 1] \o lists[k]
      BY <2>1
    <3>4. k # 1 => f[k - 1] \in Seq(S)
      BY <2>3
    <3>5. f[k] \in Seq(S)
      <4> HIDE DEF T
      <4>1. CASE k = 1
        BY <3>1, <3>2, <4>1
      <4>2. CASE k # 1
        <5> DEFINE a == f[k - 1]
                   b == lists[k]
        <5>1. a \in Seq(S) /\ b \in Seq(S) /\ f[k] = a \o b
          BY <3>1, <3>3, <3>4, <4>2
        <5> HIDE DEF a, b
        <5>2. a \o b \in Seq(S)
          BY <5>1
        <5> QED
          BY <5>1, <5>2
      <4> QED
        BY <4>1, <4>2
    <3> QED
      BY <3>5
  <2>4. n \in T
    <3> HIDE DEF T, n
    <3> QED
      BY <1>1, <2>2, <2>3, JoinLoop!Induct
  <2> QED
    BY <1>1, <1>3, <2>1, <2>4
<1> QED
  BY <1>2, <1>3

\* The length of what is joined, where each element gives one at most.
LEMMA Counted ==
    ASSUME NEW S, NEW lists \in Seq(Seq(S)), \A i \in DOMAIN lists : Len(lists[i]) <= 1
    PROVE  Len(FlattenSeq(lists)) = Cardinality({i \in DOMAIN lists : lists[i] # <<>>})
<1> DEFINE n == Len(lists)
           Full(k) == {i \in 1 .. k : lists[i] # <<>>}
<1>1. /\ n \in Nat /\ DOMAIN lists = 1 .. n
      /\ \A i \in 1 .. n : lists[i] \in Seq(S) /\ Len(lists[i]) <= 1
  OBVIOUS
<1>2. CASE n = 0
  <2> DEFINE full == {i \in DOMAIN lists : lists[i] # <<>>}
  <2>1. FlattenSeq(lists) = <<>> /\ full = {} /\ Len(<<>>) = 0
    BY <1>1, <1>2 DEF FlattenSeq
  <2> HIDE DEF full
  <2>2. Cardinality(full) = 0
    BY <2>1, FS_EmptySet
  <2> QED
    BY <2>1, <2>2 DEF full
<1>3. CASE n # 0
  <2>1. PICK f : /\ FlattenSeq(lists) = f[n]
                 /\ \A k \in 1 .. n : f[k] = IF k = 1 THEN lists[k] ELSE f[k - 1] \o lists[k]
    BY <1>3, FlattenSteps
  <2> DEFINE T == {k \in 0 .. n : /\ IsFiniteSet(Full(k)) /\ Cardinality(Full(k)) \in Nat
                                  /\ k = 0 => Cardinality(Full(k)) = 0
                                  /\ k # 0 => f[k] \in Seq(S) /\ Len(f[k]) = Cardinality(Full(k))}
  <2>2. 0 \in T
    <3>1. Full(0) = {}
      OBVIOUS
    <3> QED
      BY <1>1, <3>1, FS_EmptySet
  <2>3. ASSUME NEW k \in 1 .. n, k - 1 \in T PROVE k \in T
    <3> DEFINE before == IF k = 1 THEN <<>> ELSE f[k - 1]
               b == lists[k]
               C == Full(k - 1)
    <3>1. /\ IsFiniteSet(C) /\ Cardinality(C) \in Nat
          /\ before \in Seq(S) /\ Len(before) = Cardinality(C)
      <4>1. CASE k = 1
        <5>1. <<>> \in Seq(S) /\ Len(<<>>) = 0
          OBVIOUS
        <5>2. k - 1 = 0 /\ before = <<>>
          BY <4>1
        <5> HIDE DEF Full, before
        <5> QED
          BY <2>3, <5>1, <5>2
      <4>2. CASE k # 1
        <5>1. k - 1 # 0 /\ before = f[k - 1]
          BY <4>2
        <5> HIDE DEF Full, before
        <5> QED
          BY <2>3, <5>1
      <4> QED
        BY <4>1, <4>2
    <3>2. b \in Seq(S) /\ Len(b) <= 1
      BY <1>1
    <3>3. f[k] = before \o b
      <4>1. CASE k = 1
        <5>1. before = <<>> /\ f[k] = b
          BY <2>1, <4>1
        <5>2. <<>> \o b = b
          BY <3>2
        <5> QED
          BY <5>1, <5>2
      <4>2. CASE k # 1
        BY <2>1, <4>2
      <4> QED
        BY <4>1, <4>2
    <3> HIDE DEF before
    <3>4. f[k] \in Seq(S) /\ Len(f[k]) = Cardinality(C) + Len(b)
      <4> HIDE DEF b, C
      <4>1. before \o b \in Seq(S) /\ Len(before \o b) = Len(before) + Len(b)
        BY <3>1, <3>2
      <4> QED
        BY <3>1, <3>3, <4>1
    <3>5. k \notin C
      OBVIOUS
    <3>6. CASE b = <<>>
      <4>1. Full(k) = C
        BY <3>6
      <4>2. Len(b) = 0
        BY <3>6
      <4> HIDE DEF Full, C, b
      <4> QED
        BY <3>1, <3>4, <4>1, <4>2
    <3>7. CASE b # <<>>
      <4>1. Full(k) = C \cup {k}
        BY <3>7
      <4>2. Len(b) = 1
        <5> DEFINE m == Len(b)
        <5>1. m \in Nat /\ m # 0 /\ m <= 1
          BY <3>2, <3>7
        <5> HIDE DEF m
        <5>2. m = 1
          BY <5>1
        <5> QED
          BY <5>2 DEF m
      <4>3. IsFiniteSet(C \cup {k}) /\ Cardinality(C \cup {k}) = Cardinality(C) + 1
        <5> HIDE DEF C
        <5> QED
          BY <3>1, <3>5, FS_AddElement
      <4> HIDE DEF Full, C, b
      <4>4. IsFiniteSet(Full(k)) /\ Cardinality(Full(k)) = Cardinality(C) + 1
        BY <4>1, <4>3
      <4>5. k \in 0 .. n /\ k # 0
        OBVIOUS
      <4> QED
        BY <3>1, <3>4, <4>2, <4>4, <4>5
    <3> QED
      BY <3>6, <3>7
  <2>4. n \in T
    <3> HIDE DEF T, n
    <3> QED
      BY <1>1, <2>2, <2>3, JoinLoop!Induct
  <2> QED
    BY <1>1, <1>3, <2>1, <2>4
<1> QED
  BY <1>2, <1>3

\* The place of a in the order R of S.
Rank(a, S, R) == Cardinality({b \in S : <<b, a>> \in R})

Orders(R, S) ==
    /\ \A a \in S : <<a, a>> \in R
    /\ \A a, b \in S : <<a, b>> \in R \/ <<b, a>> \in R
    /\ \A a, b \in S : <<a, b>> \in R /\ <<b, a>> \in R => a = b
    /\ \A a, b, c \in S : <<a, b>> \in R /\ <<b, c>> \in R => <<a, c>> \in R

\* The places are 1 to the number of elements, one for each.
Places(S, R) ==
    /\ \A a \in S : Rank(a, S, R) \in 1 .. Cardinality(S)
    /\ \A a, b \in S : Rank(a, S, R) = Rank(b, S, R) => a = b
    /\ \A k \in 1 .. Cardinality(S) : \E a \in S : Rank(a, S, R) = k

LEMMA Ranks ==
    ASSUME NEW S, IsFiniteSet(S), NEW R, Orders(R, S)
    PROVE  Places(S, R)
<1> DEFINE Upto(a) == {b \in S : <<b, a>> \in R}
<1>1. ASSUME NEW a \in S
      PROVE  /\ IsFiniteSet(Upto(a)) /\ Cardinality(Upto(a)) \in Nat
             /\ Rank(a, S, R) = Cardinality(Upto(a))
             /\ Cardinality(Upto(a)) \in 1 .. Cardinality(S)
  <2>1. IsFiniteSet(Upto(a)) /\ Cardinality(Upto(a)) <= Cardinality(S)
    <3>1. Upto(a) \in SUBSET S
      OBVIOUS
    <3> HIDE DEF Upto
    <3> QED
      BY <3>1, FS_Subset
  <2>2. Cardinality(Upto(a)) \in Nat /\ Cardinality(S) \in Nat
    BY <2>1, FS_CardinalityType
  <2>3. a \in Upto(a)
    BY DEF Orders
  <2>4. Cardinality(Upto(a)) # 0
    <3> HIDE DEF Upto
    <3> QED
      BY <2>1, <2>3, FS_EmptySet
  <2> HIDE DEF Upto
  <2>5. Cardinality(Upto(a)) \in 1 .. Cardinality(S)
    BY <2>1, <2>2, <2>4
  <2> QED
    BY <2>1, <2>2, <2>5 DEF Rank, Upto
<1>2. ASSUME NEW a \in S, NEW b \in S, <<a, b>> \in R, Rank(a, S, R) = Rank(b, S, R)
      PROVE  a = b
  <2>1. Upto(a) \in SUBSET Upto(b)
    BY <1>2 DEF Orders
  <2>2. b \in Upto(b)
    BY DEF Orders
  <2>3. Upto(a) = Upto(b)
    <3>1. IsFiniteSet(Upto(b)) /\ Cardinality(Upto(a)) = Cardinality(Upto(b))
      BY <1>1, <1>2
    <3> HIDE DEF Upto
    <3> QED
      BY <2>1, <3>1, FS_Subset
  <2>4. <<b, a>> \in R
    BY <2>2, <2>3
  <2> QED
    BY <1>2, <2>4 DEF Orders
<1>3. ASSUME NEW a \in S, NEW b \in S, Rank(a, S, R) = Rank(b, S, R)
      PROVE  a = b
  <2>1. <<a, b>> \in R \/ <<b, a>> \in R
    BY DEF Orders
  <2> QED
    BY <1>2, <1>3, <2>1
<1> DEFINE f == [a \in S |-> Rank(a, S, R)]
           n == Cardinality(S)
<1>4. f \in Injection(S, 1 .. n)
  BY <1>1, <1>3 DEF Injection, IsInjective
<1>5. IsFiniteSet(1 .. n) /\ Cardinality(1 .. n) = n
  <2>1. n \in Nat
    BY FS_CardinalityType
  <2> HIDE DEF n
  <2>2. IsFiniteSet(1 .. n) /\ Cardinality(1 .. n) = IF 1 > n THEN 0 ELSE n - 1 + 1
    BY <2>1, FS_Interval
  <2> QED
    BY <2>1, <2>2
<1>6. f \in Surjection(S, 1 .. n)
  <2>1. n = Cardinality(1 .. n)
    BY <1>5
  <2> HIDE DEF f
  <2> QED
    BY <1>4, <1>5, <2>1, FS_Injection
<1>7. \A k \in 1 .. n : \E a \in S : Rank(a, S, R) = k
  BY <1>6 DEF Surjection
<1> QED
  BY <1>1, <1>3, <1>7 DEF Places

\* The list of a set in order has each element at one place.
LEMMA Ordered ==
    ASSUME NEW S \in SUBSET Int, IsFiniteSet(S)
    PROVE  /\ Cardinality(S) \in Nat /\ InOrder(S) \in [1 .. Cardinality(S) -> S]
           /\ \A j, k \in 1 .. Cardinality(S) : InOrder(S)[j] = InOrder(S)[k] => j = k
           /\ \A x \in S : \E k \in 1 .. Cardinality(S) : InOrder(S)[k] = x
<1> DEFINE R == {ab \in Int \X Int : ab[1] <= ab[2]}
           n == Cardinality(S)
           At(k) == CHOOSE x \in S : Cardinality({y \in S : y <= x}) = k
<1>1. \A x, y \in Int : <<y, x>> \in R <=> y <= x
  OBVIOUS
<1>2. Orders(R, S)
  <2> HIDE DEF R
  <2> QED
    BY <1>1 DEF Orders
<1>3. \A x \in S : Rank(x, S, R) = Cardinality({y \in S : y <= x})
  <2> SUFFICES ASSUME NEW x \in S
               PROVE  {b \in S : <<b, x>> \in R} = {y \in S : y <= x}
    BY DEF Rank
  <2> HIDE DEF R
  <2> QED
    BY <1>1
<1> HIDE DEF R
<1>4. /\ \A x \in S : Rank(x, S, R) \in 1 .. n
      /\ \A x, y \in S : Rank(x, S, R) = Rank(y, S, R) => x = y
      /\ \A k \in 1 .. n : \E x \in S : Rank(x, S, R) = k
  <2>1. Places(S, R)
    BY <1>2, Ranks
  <2> QED
    BY <2>1 DEF Places
<1>5. n \in Nat
  BY FS_CardinalityType
<1>6. InOrder(S) = [k \in 1 .. n |-> At(k)]
  BY DEF InOrder
<1>7. ASSUME NEW k \in 1 .. n PROVE At(k) \in S /\ Rank(At(k), S, R) = k
  <2>1. \E x \in S : Cardinality({y \in S : y <= x}) = k
    BY <1>3, <1>4
  <2>2. At(k) \in S /\ Cardinality({y \in S : y <= At(k)}) = k
    BY <2>1
  <2> QED
    BY <1>3, <2>2
<1> HIDE DEF At, n
<1>8. \A j, k \in 1 .. n : InOrder(S)[j] = InOrder(S)[k] => j = k
  BY <1>6, <1>7
<1>9. ASSUME NEW x \in S PROVE \E k \in 1 .. n : InOrder(S)[k] = x
  <2>1. Rank(x, S, R) \in 1 .. n
    BY <1>4
  <2>2. At(Rank(x, S, R)) = x
    BY <1>4, <1>7, <2>1
  <2> QED
    BY <1>6, <2>1, <2>2
<1>10. InOrder(S) \in [1 .. n -> S]
  BY <1>6, <1>7
<1> QED
  BY <1>5, <1>8, <1>9, <1>10 DEF n

\* A list of numbers has a greatest and a least.
LEMMA HasGreatest ==
    ASSUME NEW s \in Seq(Int), s # <<>>
    PROVE  \E i \in DOMAIN s : \A j \in DOMAIN s : s[j] <= s[i]
<1> DEFINE T == {k \in 0 .. Len(s) : k = 0 \/ \E i \in 1 .. k : \A j \in 1 .. k : s[j] <= s[i]}
<1>1. Len(s) \in Nat \ {0} /\ DOMAIN s = 1 .. Len(s) /\ \A i \in 1 .. Len(s) : s[i] \in Int
  OBVIOUS
<1>2. ASSUME NEW k \in 1 .. Len(s), k - 1 \in T PROVE k \in T
  <2>1. CASE k = 1
    <3>1. \A j \in 1 .. k : s[j] <= s[1]
      BY <1>1, <2>1
    <3> QED
      BY <2>1, <3>1
  <2>2. CASE k # 1
    <3>1. PICK i \in 1 .. k - 1 : \A j \in 1 .. k - 1 : s[j] <= s[i]
      BY <1>2, <2>2
    <3>2. s[i] \in Int /\ s[k] \in Int
      BY <1>1
    <3>3. CASE s[i] <= s[k]
      <4>1. \A j \in 1 .. k : s[j] <= s[k]
        BY <1>1, <3>1, <3>2, <3>3
      <4> QED
        BY <4>1
    <3>4. CASE ~(s[i] <= s[k])
      <4>1. \A j \in 1 .. k : s[j] <= s[i]
        BY <1>1, <3>1, <3>2, <3>4
      <4> QED
        BY <4>1
    <3> QED
      BY <3>3, <3>4
  <2> QED
    BY <2>1, <2>2
<1>3. 0 \in T
  BY <1>1
<1>4. Len(s) \in T
  <2> HIDE DEF T
  <2> QED
    BY <1>1, <1>2, <1>3, JoinLoop!Induct
<1>5. PICK i \in 1 .. Len(s) : \A j \in 1 .. Len(s) : s[j] <= s[i]
  BY <1>1, <1>4
<1> QED
  BY <1>1, <1>5

LEMMA Greatest ==
    ASSUME NEW s \in Seq(Int), s # <<>>
    PROVE  LET m == Max({s[i] : i \in DOMAIN s})
           IN  m \in Int /\ (\E i \in DOMAIN s : s[i] = m) /\ \A i \in DOMAIN s : s[i] <= m
<1> DEFINE V == {s[j] : j \in DOMAIN s}
<1>1. PICK i \in DOMAIN s : \A j \in DOMAIN s : s[j] <= s[i]
  BY HasGreatest
<1>2. s[i] \in V /\ V \subseteq Int /\ \A y \in V : s[i] >= y
  BY <1>1
<1>3. Max(V) \in V /\ \A y \in V : Max(V) >= y
  BY <1>2 DEF Max
<1> DEFINE m == Max(V)
<1>4. m \in V /\ \A y \in V : m >= y
  BY <1>3
<1> HIDE DEF m
<1>5. m \in Int /\ (\E j \in DOMAIN s : s[j] = m) /\ \A j \in DOMAIN s : s[j] <= m
  BY <1>2, <1>4
<1> QED
  BY <1>5 DEF m

LEMMA Smallest ==
    ASSUME NEW s \in Seq(Int), s # <<>>
    PROVE  Min({s[i] : i \in DOMAIN s}) \in Int
<1> DEFINE V == {s[j] : j \in DOMAIN s}
           n == Len(s)
           neg == [i \in 1 .. n |-> -s[i]]
<1>1. n \in Nat \ {0} /\ DOMAIN s = 1 .. n /\ \A i \in 1 .. n : s[i] \in Int
  OBVIOUS
<1> HIDE DEF n
<1>2. neg \in Seq(Int) /\ neg # <<>> /\ DOMAIN neg = 1 .. n
  <2>1. neg \in [1 .. n -> Int] /\ DOMAIN neg = 1 .. n
    BY <1>1
  <2>2. 1 \in 1 .. n
    BY <1>1
  <2> HIDE DEF neg
  <2> QED
    BY <1>1, <2>1, <2>2
<1>3. \A i \in 1 .. n : neg[i] = -s[i]
  OBVIOUS
<1> HIDE DEF neg
<1>4. PICK i \in 1 .. n : \A j \in 1 .. n : neg[j] <= neg[i]
  BY <1>2, HasGreatest
<1>5. \A j \in 1 .. n : s[i] <= s[j]
  BY <1>1, <1>3, <1>4
<1>6. s[i] \in V /\ V \subseteq Int /\ \A y \in V : s[i] <= y
  BY <1>1, <1>5
<1>7. Min(V) \in V
  BY <1>6 DEF Min
<1> QED
  BY <1>6, <1>7
-----------------------------------------------------------------------------
(* maximum_weight_matching gives no row two columns.                        *)

\* No row is in two of the columns C.
Apart(p, C) == \A a, b \in C : a # b /\ p[a] = p[b] => p[a] = 0

\* A state of the loops of row i.
IsPath(s, n, i) ==
    /\ DOMAIN s = {"u", "v", "p", "j", "used", "way", "minv", "done"}
    /\ s.j \in 0 .. n
    /\ s.way \in [0 .. n -> 0 .. n]
    /\ s.p \in [0 .. n -> 0 .. i]

LEMMA SearchKeeps ==
    ASSUME NEW m, m.n \in Nat, NEW i, NEW s, IsPath(s, m.n, i)
    PROVE  IsPath(Search(s, m), m.n, i) /\ Search(s, m).p = s.p
<1> DEFINE Cols  == 0 .. m.n
           used  == s.used \cup {s.j}
           row   == s.p[s.j]
           open  == (1 .. m.n) \ used
           reach == [j \in open |-> m.cost[<<row, j>>] - s.u[row] - s.v[j]]
           near  == {j \in open : reach[j] < s.minv[j]}
           minv  == [j \in Cols |-> IF j \in near THEN reach[j] ELSE s.minv[j]]
           least == {j \in open : /\ minv[j] < m.infinity
                                  /\ \A k \in open : minv[j] < minv[k] \/ (minv[j] = minv[k] /\ j <= k)}
           next  == IF least = {} THEN 0 ELSE CHOOSE j \in least : TRUE
           delta == IF least = {} THEN m.infinity ELSE minv[next]
           rows  == {s.p[j] : j \in used}
           way   == [j \in Cols |-> IF j \in near THEN s.j ELSE s.way[j]]
           u     == [r \in Cols |-> IF r \in rows THEN s.u[r] + delta ELSE s.u[r]]
           v     == [j \in Cols |-> IF j \in used THEN s.v[j] - delta ELSE s.v[j]]
           least2 == [j \in Cols |-> IF j \in used THEN minv[j] ELSE minv[j] - delta]
           ends  == s.p[next] = 0
<1>1. Look(s, m) = [s EXCEPT !.used = used, !.j = next, !.way = way, !.u = u, !.v = v,
                             !.minv = least2, !.done = ends]
  BY DEF Look
<1>2. next \in 0 .. m.n
  <2>1. least \subseteq 1 .. m.n
    <3>1. open \subseteq 1 .. m.n
      OBVIOUS
    <3> HIDE DEF open, minv
    <3> QED
      BY <3>1
  <2> HIDE DEF least
  <2>2. CASE least = {}
    BY <2>2
  <2>3. CASE least # {}
    <3>1. next \in least
      BY <2>3
    <3>2. next \in 1 .. m.n
      BY <2>1, <3>1
    <3> HIDE DEF next
    <3> QED
      BY <3>2
  <2> QED
    BY <2>2, <2>3
<1>3. way \in [0 .. m.n -> 0 .. m.n]
  <2> HIDE DEF near
  <2> QED
    BY DEF IsPath
<1> HIDE DEF used, next, way, u, v, least2, ends
<1>4. IsPath(Look(s, m), m.n, i) /\ Look(s, m).p = s.p
  BY <1>1, <1>2, <1>3 DEF IsPath
<1> QED
  BY <1>4 DEF Search

LEMMA ShiftKeeps ==
    ASSUME NEW n \in Nat, NEW i, NEW s, IsPath(s, n, i), Apart(s.p, (0 .. n) \ {s.j})
    PROVE  IsPath(Shift(s), n, i) /\ Apart(Shift(s).p, (0 .. n) \ {Shift(s).j})
<1>1. CASE s.j = 0
  BY <1>1 DEF Shift
<1>2. CASE s.j # 0
  <2> DEFINE j == s.j
             w == s.way[s.j]
             q == [s.p EXCEPT ![j] = s.p[w]]
             t == Shift(s)
  <2>1. t = [s EXCEPT !.p[s.j] = s.p[s.way[s.j]], !.j = s.way[s.j]]
    BY <1>2 DEF Shift
  <2>2. t.p = q /\ t.j = w /\ t.way = s.way /\ DOMAIN t = DOMAIN s
    BY <2>1 DEF IsPath
  <2>3. j \in 0 .. n /\ w \in 0 .. n /\ s.p \in [0 .. n -> 0 .. i]
    BY DEF IsPath
  <2>4. q \in [0 .. n -> 0 .. i]
    BY <2>3
  <2>5. \A a \in 0 .. n : q[a] = IF a = j THEN s.p[w] ELSE s.p[a]
    BY <2>3
  <2> HIDE DEF t
  <2>6. IsPath(t, n, i)
    BY <2>2, <2>3, <2>4 DEF IsPath
  <2>7. Apart(s.p, (0 .. n) \ {j})
    OBVIOUS
  <2> HIDE DEF j, w, q
  <2>8. Apart(q, (0 .. n) \ {w})
    <3> SUFFICES ASSUME NEW a \in (0 .. n) \ {w}, NEW b \in (0 .. n) \ {w}, a # b, q[a] = q[b]
                 PROVE  q[a] = 0
      BY DEF Apart
    <3>1. CASE a # j /\ b # j
      BY <2>5, <2>7, <3>1 DEF Apart
    <3>2. CASE a = j
      BY <2>3, <2>5, <2>7, <3>2 DEF Apart
    <3>3. CASE b = j
      BY <2>3, <2>5, <2>7, <3>3 DEF Apart
    <3> QED
      BY <3>1, <3>2, <3>3
  <2>9. t.p = q /\ t.j = w
    BY <2>2
  <2> QED
    BY <2>6, <2>8, <2>9 DEF t
<1> QED
  BY <1>1, <1>2

\* What the outer loop keeps: rows 1 to i have been placed.
IsPlaced(st, n, i) ==
    /\ st.way \in [0 .. n -> 0 .. n]
    /\ st.p \in [0 .. n -> 0 .. i]
    /\ Apart(st.p, 0 .. n)

LEMMA RowPlaced ==
    ASSUME NEW m, m.n \in Nat, NEW i \in 1 .. m.n, NEW st, IsPlaced(st, m.n, i - 1)
    PROVE  IsPlaced(PlaceRow(st, i, m), m.n, i)
<1> DEFINE n == m.n
           start == [u |-> st.u, v |-> st.v, p |-> [st.p EXCEPT ![0] = i], j |-> 0, used |-> {},
                     way |-> st.way, minv |-> [j \in 0 .. m.n |-> m.infinity], done |-> FALSE]
           L == [k \in 1 .. 2 * (m.n + 1) |-> k]
           M == [k \in 1 .. m.n + 1 |-> k]
           found == FoldLeft(LAMBDA s, k : Search(s, m), start, L)
           moved == FoldLeft(LAMBDA s, k : Shift(s), found, M)
<1>1. PlaceRow(st, i, m) = [u |-> moved.u, v |-> moved.v, p |-> [moved.p EXCEPT ![moved.j] = 0],
                            way |-> moved.way]
  BY DEF PlaceRow
<1>2. SearchLoop!IsList(L) /\ ShiftLoop!IsList(M)
  <2>1. L \in Seq(Int) /\ M \in Seq(Int)
    OBVIOUS
  <2> HIDE DEF L, M
  <2> QED
    BY <2>1 DEF SearchLoop!IsList, ShiftLoop!IsList
<1>3. /\ n \in Nat /\ i \in Nat \ {0} /\ st.way \in [0 .. n -> 0 .. n]
      /\ st.p \in [0 .. n -> 0 .. i - 1] /\ Apart(st.p, 0 .. n)
  BY DEF IsPlaced
<1>4. IsPath(start, n, i) /\ Apart(start.p, 0 .. n)
  <2> DEFINE p == [st.p EXCEPT ![0] = i]
  <2>1. p \in [0 .. n -> 0 .. i] /\ \A a \in 0 .. n : p[a] = IF a = 0 THEN i ELSE st.p[a]
    BY <1>3
  <2>2. \A a \in 0 .. n : st.p[a] # i
    BY <1>3
  <2> HIDE DEF p
  <2>3. Apart(p, 0 .. n)
    BY <1>3, <2>1, <2>2 DEF Apart
  <2>4. start.p = p /\ start.j = 0 /\ start.way = st.way
    BY DEF p
  <2>5. DOMAIN start = {"u", "v", "p", "j", "used", "way", "minv", "done"}
    OBVIOUS
  <2> HIDE DEF start
  <2> QED
    BY <1>3, <2>1, <2>3, <2>4, <2>5 DEF IsPath
<1> HIDE DEF start, L, M
<1>5. IsPath(found, n, i) /\ Apart(found.p, 0 .. n)
  <2>1. found = SearchLoop!Fold(m, start, L)
    BY DEF FoldLeft, MapThenFoldSet, SearchLoop!Fold, Max, SearchLoop!Top
  <2>2. PICK run : SearchLoop!IsRun(run, m, start, L) /\ run[Len(L)] = found
    BY <1>2, <2>1, SearchLoop!FoldRuns
  <2> HIDE DEF found, moved
  <2> DEFINE T == {k \in 0 .. Len(L) : IsPath(run[k], n, i) /\ Apart(run[k].p, 0 .. n)}
  <2>3. Len(L) \in Nat
    BY <1>2 DEF SearchLoop!IsList
  <2>4. 0 \in T
    <3>1. run[0] = start
      BY <2>2 DEF SearchLoop!IsRun
    <3> HIDE DEF n
    <3> QED
      BY <1>4, <2>3, <3>1
  <2>5. ASSUME NEW k \in 1 .. Len(L), k - 1 \in T PROVE k \in T
    <3>1. run[k] = Search(run[k - 1], m)
      BY <2>2 DEF SearchLoop!IsRun
    <3>2. IsPath(run[k - 1], m.n, i) /\ Apart(run[k - 1].p, 0 .. n)
      BY <2>5
    <3>3. IsPath(run[k], m.n, i) /\ run[k].p = run[k - 1].p
      <4>1. \A s : IsPath(s, m.n, i) =>
                 IsPath(Search(s, m), m.n, i) /\ Search(s, m).p = s.p
        BY SearchKeeps
      <4> QED
        BY <3>1, <3>2, <4>1
    <3> QED
      BY <3>2, <3>3
  <2> HIDE DEF T
  <2>6. Len(L) \in T
    BY <2>3, <2>4, <2>5, SearchLoop!Induct
  <2> QED
    BY <2>2, <2>6 DEF T
<1>6. IsPath(moved, n, i) /\ Apart(moved.p, (0 .. n) \ {moved.j})
  <2>1. moved = ShiftLoop!Fold(0, found, M)
    BY DEF FoldLeft, MapThenFoldSet, ShiftLoop!Fold, Max, ShiftLoop!Top
  <2>2. PICK run : ShiftLoop!IsRun(run, 0, found, M) /\ run[Len(M)] = moved
    <3> HIDE DEF found, moved
    <3> QED
      BY <1>2, <2>1, ShiftLoop!FoldRuns
  <2> DEFINE T == {k \in 0 .. Len(M) : /\ IsPath(run[k], n, i)
                                       /\ Apart(run[k].p, (0 .. n) \ {run[k].j})}
  <2> HIDE DEF found, moved
  <2>3. Len(M) \in Nat
    BY <1>2 DEF ShiftLoop!IsList
  <2>4. 0 \in T
    BY <1>5, <2>2, <2>3 DEF ShiftLoop!IsRun, Apart
  <2>5. ASSUME NEW k \in 1 .. Len(M), k - 1 \in T PROVE k \in T
    <3>1. run[k] = Shift(run[k - 1])
      BY <2>2 DEF ShiftLoop!IsRun
    <3>2. IsPath(run[k - 1], n, i) /\ Apart(run[k - 1].p, (0 .. n) \ {run[k - 1].j})
      BY <2>5
    <3> HIDE DEF n
    <3>3. IsPath(run[k], n, i) /\ Apart(run[k].p, (0 .. n) \ {run[k].j})
      BY <3>1, <3>2, <1>3, ShiftKeeps
    <3> QED
      BY <3>3
  <2> HIDE DEF T
  <2>6. Len(M) \in T
    BY <2>3, <2>4, <2>5, ShiftLoop!Induct
  <2> QED
    BY <2>2, <2>6 DEF T
<1> HIDE DEF found, moved, n
<1>7. /\ PlaceRow(st, i, m).way = moved.way
      /\ PlaceRow(st, i, m).p = [moved.p EXCEPT ![moved.j] = 0]
  BY <1>1
<1> DEFINE q == [moved.p EXCEPT ![moved.j] = 0]
<1>8. moved.p \in [0 .. n -> 0 .. i] /\ moved.j \in 0 .. n /\ moved.way \in [0 .. n -> 0 .. n]
  BY <1>6 DEF IsPath
<1>9. q \in [0 .. n -> 0 .. i] /\ \A a \in 0 .. n : q[a] = IF a = moved.j THEN 0 ELSE moved.p[a]
  <2>1. \A f \in [0 .. n -> 0 .. i], j \in 0 .. n :
            /\ [f EXCEPT ![j] = 0] \in [0 .. n -> 0 .. i]
            /\ \A a \in 0 .. n : [f EXCEPT ![j] = 0][a] = IF a = j THEN 0 ELSE f[a]
    <3> SUFFICES ASSUME NEW f \in [0 .. n -> 0 .. i], NEW j \in 0 .. n
                 PROVE  /\ [f EXCEPT ![j] = 0] \in [0 .. n -> 0 .. i]
                        /\ \A a \in 0 .. n : [f EXCEPT ![j] = 0][a] = IF a = j THEN 0 ELSE f[a]
      OBVIOUS
    <3>1. 0 \in 0 .. i
      BY <1>3
    <3> QED
      BY <3>1
  <2> QED
    BY <1>8, <2>1
<1> HIDE DEF q
<1>10. Apart(q, 0 .. n)
  BY <1>6, <1>9 DEF Apart
<1> QED
  BY <1>7, <1>8, <1>9, <1>10 DEF IsPlaced, n, q

\* The rows of the result are one for each column that has one.
PlacedRows(n, m) ==
    LET zero == [k \in 0 .. n |-> 0]
    IN  FoldLeft(LAMBDA st, i : PlaceRow(st, i, m),
                 [u |-> zero, v |-> zero, p |-> zero, way |-> zero], [i \in 1 .. n |-> i])

LEMMA RowsPlaced ==
    ASSUME NEW n \in Nat, NEW m, m.n = n
    PROVE  PlacedRows(n, m).p \in [0 .. n -> 0 .. n] /\ Apart(PlacedRows(n, m).p, 0 .. n)
<1> DEFINE zero == [k \in 0 .. n |-> 0]
           base == [u |-> zero, v |-> zero, p |-> zero, way |-> zero]
           L    == [i \in 1 .. n |-> i]
           end  == FoldLeft(LAMBDA st, i : PlaceRow(st, i, m), base, L)
<1>1. end = RowLoop!Fold(m, base, L)
  BY DEF FoldLeft, MapThenFoldSet, RowLoop!Fold, Max, RowLoop!Top
<1>2. n \in Nat /\ Len(L) = n /\ \A k \in 1 .. n : L[k] = k
  <2>1. L \in Seq(Int) /\ DOMAIN L = 1 .. n /\ n \in Nat /\ \A k \in 1 .. n : L[k] = k
    OBVIOUS
  <2> HIDE DEF L
  <2> QED
    BY <2>1
<1>3. RowLoop!IsList(L)
  BY <1>2 DEF RowLoop!IsList
<1>4. IsPlaced(base, n, 0)
  BY <1>2 DEF IsPlaced, Apart
<1> HIDE DEF base, L, end
<1>5. PICK run : RowLoop!IsRun(run, m, base, L) /\ run[Len(L)] = end
  BY <1>1, <1>3, RowLoop!FoldRuns
<1> DEFINE T == {k \in 0 .. n : IsPlaced(run[k], n, k)}
<1>6. 0 \in T
  <2>1. run[0] = base
    BY <1>5 DEF RowLoop!IsRun
  <2> QED
    BY <1>2, <1>4, <2>1
<1>7. ASSUME NEW k \in 1 .. n, k - 1 \in T PROVE k \in T
  <2>1. run[k] = PlaceRow(run[k - 1], k, m)
    BY <1>2, <1>5 DEF RowLoop!IsRun
  <2>2. IsPlaced(run[k - 1], m.n, k - 1) /\ k \in 1 .. m.n
    BY <1>7
  <2>3. IsPlaced(PlaceRow(run[k - 1], k, m), m.n, k)
    BY <2>2, RowPlaced
  <2> QED
    BY <2>1, <2>3
<1>8. n \in T
  <2> HIDE DEF T
  <2> QED
    BY <1>2, <1>6, <1>7, RowLoop!Induct
<1>9. IsPlaced(end, n, n)
  BY <1>2, <1>5, <1>8
<1> QED
  BY <1>9 DEF IsPlaced, PlacedRows, end, base, L

\* Links are along the edges, and no two of them lead to the same end.
IsLinking(match, edges) ==
    /\ \A q \in DOMAIN match : <<match[q], q>> \in edges
    /\ \A q, r \in DOMAIN match : match[q] = match[r] => q = r

IsDistinct(s, n) ==
    /\ s \in [1 .. n -> Int]
    /\ \A j, k \in 1 .. n : s[j] = s[k] => j = k

LEMMA PairsLink ==
    ASSUME NEW n \in Nat, NEW a \in Nat, NEW b \in Nat, b <= n,
           NEW cs, IsDistinct(cs, a), NEW ps, IsDistinct(ps, b), NEW scores,
           NEW p \in [0 .. n -> 0 .. n], Apart(p, 0 .. n)
    PROVE  IsLinking(ScoredPairs(p, cs, ps, scores), DOMAIN scores)
<1> DEFINE kept == {j \in DOMAIN ps : p[j] \in DOMAIN cs /\ <<cs[p[j]], ps[j]>> \in DOMAIN scores}
           At(q) == CHOOSE j \in kept : ps[j] = q
           M == ScoredPairs(p, cs, ps, scores)
<1>1. DOMAIN M = {ps[j] : j \in kept} /\ \A q \in DOMAIN M : M[q] = cs[p[At(q)]]
  BY DEF ScoredPairs
<1>2. ASSUME NEW q \in DOMAIN M PROVE At(q) \in kept /\ ps[At(q)] = q
  <2>1. \E j \in kept : ps[j] = q
    BY <1>1
  <2> HIDE DEF kept, M
  <2> QED
    BY <2>1
<1>3. \A j \in kept : /\ j \in 1 .. b /\ j \in 0 .. n /\ p[j] \in 1 .. a
                     /\ <<cs[p[j]], ps[j]>> \in DOMAIN scores
  <2>1. DOMAIN cs = 1 .. a /\ DOMAIN ps = 1 .. b
    BY DEF IsDistinct
  <2>2. 1 .. b \subseteq 0 .. n
    OBVIOUS
  <2>3. \A j \in kept : /\ j \in DOMAIN ps /\ p[j] \in DOMAIN cs
                       /\ <<cs[p[j]], ps[j]>> \in DOMAIN scores
    OBVIOUS
  <2> HIDE DEF kept
  <2> QED
    BY <2>1, <2>2, <2>3
<1> HIDE DEF kept, At, M
<1>4. ASSUME NEW q \in DOMAIN M PROVE <<M[q], q>> \in DOMAIN scores
  BY <1>1, <1>2, <1>3
<1>5. ASSUME NEW q \in DOMAIN M, NEW r \in DOMAIN M, M[q] = M[r] PROVE q = r
  <2>1. cs[p[At(q)]] = cs[p[At(r)]] /\ At(q) \in kept /\ At(r) \in kept
    BY <1>1, <1>2, <1>5
  <2>2. p[At(q)] = p[At(r)] /\ p[At(q)] \in 1 .. a
    BY <1>3, <2>1 DEF IsDistinct
  <2>3. At(q) = At(r)
    <3>1. At(q) \in 0 .. n /\ At(r) \in 0 .. n
      BY <1>3, <2>1
    <3>2. \A x \in 1 .. a : x # 0
      OBVIOUS
    <3>3. p[At(q)] # 0
      BY <2>2, <3>2
    <3> QED
      BY <2>2, <3>1, <3>3 DEF Apart
  <2> QED
    BY <1>2, <2>3
<1> QED
  BY <1>4, <1>5 DEF IsLinking, M

LEMMA RowsLink ==
    ASSUME NEW a \in Nat, NEW b \in Nat, NEW n \in Nat, b <= n,
           NEW cs, IsDistinct(cs, a), NEW ps, IsDistinct(ps, b), NEW top, NEW scores
    PROVE  IsLinking(MatchRows(cs, ps, n, top, scores), DOMAIN scores)
<1> DEFINE Weight(i, j) == IF <<cs[i], ps[j]>> \in DOMAIN scores THEN scores[<<cs[i], ps[j]>>] ELSE 0
           cost == Table([ij \in (1 .. n) \X (1 .. n) |->
                    IF ij[1] \in DOMAIN cs /\ ij[2] \in DOMAIN ps
                    THEN Cost(top, Weight(ij[1], ij[2]), n) + (ij[1] - 1) * n + ij[2] - 1
                    ELSE 0])
           m    == [cost |-> cost, n |-> n, infinity |-> Infinity(top, n)]
           end  == PlacedRows(n, m)
<1>1. MatchRows(cs, ps, n, top, scores) = ScoredPairs(end.p, cs, ps, scores)
  BY DEF MatchRows, PlacedRows
<1>2. end.p \in [0 .. n -> 0 .. n] /\ Apart(end.p, 0 .. n)
  <2>1. m.n = n
    OBVIOUS
  <2> HIDE DEF m
  <2> QED
    BY <2>1, RowsPlaced
<1> HIDE DEF end
<1>3. IsLinking(ScoredPairs(end.p, cs, ps, scores), DOMAIN scores)
  BY <1>2, PairsLink
<1> QED
  BY <1>1, <1>3

\* "Deterministic maximum-weight one-to-one matching": one to one it is, whatever the
\* scores are.
LEMMA OneToOne ==
    ASSUME NEW C \in SUBSET Int, IsFiniteSet(C), NEW P \in SUBSET Int, IsFiniteSet(P),
           NEW scores, DOMAIN scores \subseteq C \X P
    PROVE  IsLinking(MaximumWeightMatching(scores), DOMAIN scores)
<1> DEFINE cset == {e[1] : e \in DOMAIN scores}
           pset == {e[2] : e \in DOMAIN scores}
           cs == InOrder(cset)
           ps == InOrder(pset)
           a == Cardinality(cset)
           b == Cardinality(pset)
           n == Max({Len(cs), Len(ps)})
<1>1. CASE scores = <<>>
  <2>1. MaximumWeightMatching(scores) = <<>>
    BY <1>1 DEF MaximumWeightMatching
  <2> QED
    BY <2>1 DEF IsLinking
<1>2. CASE scores # <<>>
  <2>1. MaximumWeightMatching(scores) = MatchRows(cs, ps, n, Max(Range(scores)), scores)
    BY <1>2 DEF MaximumWeightMatching
  <2>2. cset \in SUBSET Int /\ cset \in SUBSET C /\ pset \in SUBSET Int /\ pset \in SUBSET P
    OBVIOUS
  <2> HIDE DEF cset, pset
  <2>3. IsFiniteSet(cset) /\ IsFiniteSet(pset)
    BY <2>2, FS_Subset
  <2>4. a \in Nat /\ cs \in [1 .. a -> cset] /\ \A j, k \in 1 .. a : cs[j] = cs[k] => j = k
    BY <2>2, <2>3, Ordered
  <2>5. b \in Nat /\ ps \in [1 .. b -> pset] /\ \A j, k \in 1 .. b : ps[j] = ps[k] => j = k
    BY <2>2, <2>3, Ordered
  <2> HIDE DEF cs, ps, a, b
  <2>7. IsDistinct(cs, a) /\ IsDistinct(ps, b)
    BY <2>2, <2>4, <2>5 DEF IsDistinct
  <2>8. Len(cs) = a /\ Len(ps) = b
    BY <2>4, <2>5
  <2>9. n \in Nat /\ b <= n
    <3>1. \E x \in {Len(cs), Len(ps)} : \A y \in {Len(cs), Len(ps)} : x >= y
      BY <2>4, <2>5, <2>8
    <3>2. n \in {Len(cs), Len(ps)} /\ n >= Len(ps)
      BY <3>1 DEF Max
    <3> HIDE DEF n
    <3> QED
      BY <2>4, <2>5, <2>8, <3>2
  <2> HIDE DEF n
  <2>10. a \in Nat /\ b \in Nat
    BY <2>4, <2>5
  <2>11. IsLinking(MatchRows(cs, ps, n, Max(Range(scores)), scores), DOMAIN scores)
    BY <2>7, <2>9, <2>10, RowsLink
  <2> QED
    BY <2>1, <2>11
<1> QED
  BY <1>1, <1>2
-----------------------------------------------------------------------------
(* match_speakers.                                                          *)

LEMMA TableOf ==
    ASSUME NEW f
    PROVE  DOMAIN Table(f) = DOMAIN f /\ \A x \in DOMAIN f : Table(f)[x] = f[x]
BY DEF Table

\* The pairs that have a score are those that share speech.
LEMMA ScoresOf ==
    ASSUME NEW c, NEW p
    PROVE  /\ DOMAIN Scores(c, p) \subseteq (DOMAIN c) \X (DOMAIN p)
           /\ \A e \in (DOMAIN c) \X (DOMAIN p) :
                 e \in DOMAIN Scores(c, p) <=> Shared(c[e[1]], p[e[2]]) > 0
           /\ \A e \in DOMAIN Scores(c, p) : Scores(c, p)[e] = Shared(c[e[1]], p[e[2]])
<1> DEFINE pairs == (DOMAIN c) \X (DOMAIN p)
           score(e) == Shared(c[e[1]], p[e[2]])
           f == [e \in pairs |-> score(e)]
           all == Table(f)
           S == {x \in DOMAIN all : all[x] > 0}
           g == [x \in S |-> all[x]]
<1>1. Scores(c, p) = Table(g)
  BY DEF Scores, RestrictValues, Restrict
<1>2. DOMAIN f = pairs /\ \A e \in pairs : f[e] = score(e)
  OBVIOUS
<1> HIDE DEF f
<1>3. DOMAIN all = pairs /\ \A e \in pairs : all[e] = score(e)
  BY <1>2, TableOf
<1> HIDE DEF all
<1>4. S \subseteq pairs /\ \A e \in pairs : e \in S <=> score(e) > 0
  BY <1>3
<1>5. DOMAIN g = S /\ \A e \in S : g[e] = all[e]
  OBVIOUS
<1> HIDE DEF g, S
<1>6. DOMAIN Table(g) = S /\ \A e \in S : Table(g)[e] = all[e]
  BY <1>5, TableOf
<1> HIDE DEF pairs, score
<1>7. /\ DOMAIN Table(g) \subseteq pairs
      /\ \A e \in pairs : e \in DOMAIN Table(g) <=> score(e) > 0
      /\ \A e \in DOMAIN Table(g) : Table(g)[e] = score(e)
  BY <1>3, <1>4, <1>6
<1> QED
  BY <1>1, <1>7 DEF pairs, score

\* The edges a match is made of, and the links by overlap.
Clear(scores, provider) ==
    LET accepted == Accepted(scores, provider)
    IN  {e \in accepted : ~TooClose(e[2], accepted, scores) /\ e = BestEdge(e[2], accepted, scores)}
ByShared(scores, provider) ==
    Table(MaximumWeightMatching([e \in Clear(scores, provider) |-> scores[e]]))

\* A match as the code makes it of two sides that are numbered.
IsSides(scores, canonical, provider) ==
    /\ DOMAIN canonical \in SUBSET Int /\ IsFiniteSet(DOMAIN canonical)
    /\ DOMAIN provider \in SUBSET Int /\ IsFiniteSet(DOMAIN provider)
    /\ DOMAIN scores \subseteq (DOMAIN canonical) \X (DOMAIN provider)

LEMMA SharedLinks ==
    ASSUME NEW scores, NEW canonical, NEW provider, IsSides(scores, canonical, provider)
    PROVE  LET links == ByShared(scores, provider)
           IN  /\ IsLinking(links, Clear(scores, provider))
               /\ DOMAIN links \subseteq DOMAIN provider
               /\ \A q \in DOMAIN links : links[q] \in DOMAIN canonical
<1> DEFINE edges == Clear(scores, provider)
           g == [e \in edges |-> scores[e]]
           found == MaximumWeightMatching(g)
           links == ByShared(scores, provider)
<1>1. edges \subseteq DOMAIN scores
  BY DEF Clear, Accepted
<1>2. DOMAIN g = edges
  OBVIOUS
<1> HIDE DEF edges, g
<1>3. DOMAIN g \subseteq (DOMAIN canonical) \X (DOMAIN provider)
  BY <1>1, <1>2 DEF IsSides
<1>4. IsLinking(found, DOMAIN g)
  BY <1>3, OneToOne DEF IsSides
<1> HIDE DEF found
<1>5. links = Table(found)
  BY DEF ByShared, found, g, edges
<1>6. DOMAIN links = DOMAIN found /\ \A q \in DOMAIN found : links[q] = found[q]
  BY <1>5, TableOf
<1> HIDE DEF links
<1>7. IsLinking(links, edges)
  BY <1>2, <1>4, <1>6 DEF IsLinking
<1>8. \A q \in DOMAIN links : q \in DOMAIN provider /\ links[q] \in DOMAIN canonical
  <2> SUFFICES ASSUME NEW q \in DOMAIN links
               PROVE  q \in DOMAIN provider /\ links[q] \in DOMAIN canonical
    OBVIOUS
  <2>1. <<links[q], q>> \in (DOMAIN canonical) \X (DOMAIN provider)
    BY <1>2, <1>3, <1>7 DEF IsLinking
  <2> QED
    BY <2>1
<1> QED
  BY <1>7, <1>8 DEF edges, links

\* A state of the loop over the gaps: links lead from the provider's speakers to the
\* known ones, and evidence of overlap is only at the links it was found for.
IsLinked(st, canonical, provider, links) ==
    /\ DOMAIN st = {"matching", "evidence", "assigned", "effective", "pending", "ambiguous"}
    /\ DOMAIN st.matching \subseteq DOMAIN provider
    /\ DOMAIN st.evidence = DOMAIN st.matching
    /\ \A q \in DOMAIN st.matching :
          /\ st.matching[q] \in DOMAIN canonical
          /\ st.evidence[q] = "overlap" => q \in DOMAIN links /\ links[q] = st.matching[q]
    /\ DOMAIN st.effective = DOMAIN canonical
    /\ st.pending \subseteq DOMAIN provider

LEMMA LinkKeeps ==
    ASSUME NEW canonical, NEW provider, NEW links, NEW st, IsLinked(st, canonical, provider, links),
           NEW gap, NEW c \in DOMAIN canonical, NEW q \in DOMAIN provider, NEW near
    PROVE  IsLinked(LinkOne(gap, c, q, near, provider, st), canonical, provider, links)
<1> DEFINE Linked(evidence) == [st EXCEPT !.matching = Put(@, q, c),
                                          !.evidence = Put(@, q, evidence),
                                          !.effective[c] = @ \o provider[q],
                                          !.pending = @ \ {q}]
           LeftOver == [st EXCEPT !.pending = @ \ {q}]
           Torn == [LeftOver EXCEPT !.ambiguous = @ \cup {q}]
           Taken == [Linked("gap") EXCEPT !.assigned = Put(@, c, q)]
           t == LinkOne(gap, c, q, near, provider, st)
<1>1. t \in {LeftOver, Torn, Taken, Linked("merged-fragment")}
  BY DEF LinkOne
<1>2. IsLinked(LeftOver, canonical, provider, links) /\ IsLinked(Torn, canonical, provider, links)
  BY DEF IsLinked
<1>3. ASSUME NEW e, e # "overlap", NEW r,
             /\ DOMAIN r = DOMAIN st
             /\ r.matching = Put(st.matching, q, c) /\ r.evidence = Put(st.evidence, q, e)
             /\ DOMAIN r.effective = DOMAIN st.effective /\ r.pending = st.pending \ {q}
      PROVE  IsLinked(r, canonical, provider, links)
  <2> HIDE DEF Linked, LeftOver, Torn, Taken, t
  <2>1. /\ DOMAIN r.matching = {q} \cup DOMAIN st.matching /\ r.matching[q] = c
        /\ \A z \in DOMAIN st.matching : z # q => r.matching[z] = st.matching[z]
    <3>1. r.matching = Put(st.matching, q, c)
      BY <1>3
    <3> QED
      BY <3>1 DEF Put
  <2>2. /\ DOMAIN r.evidence = {q} \cup DOMAIN st.evidence /\ r.evidence[q] = e
        /\ \A z \in DOMAIN st.evidence : z # q => r.evidence[z] = st.evidence[z]
    <3>1. r.evidence = Put(st.evidence, q, e)
      BY <1>3
    <3> QED
      BY <3>1 DEF Put
  <2>3. /\ DOMAIN r = DOMAIN st /\ DOMAIN r.effective = DOMAIN st.effective
        /\ r.pending = st.pending \ {q} /\ e # "overlap"
    BY <1>3
  <2> QED
    BY <2>1, <2>2, <2>3 DEF IsLinked
<1>4. IsLinked(Linked("merged-fragment"), canonical, provider, links)
  <2> DEFINE r == Linked("merged-fragment")
  <2>1. /\ DOMAIN r = DOMAIN st
        /\ r.matching = Put(st.matching, q, c)
        /\ r.evidence = Put(st.evidence, q, "merged-fragment")
        /\ DOMAIN r.effective = DOMAIN st.effective /\ r.pending = st.pending \ {q}
    BY DEF IsLinked
  <2> HIDE DEF r
  <2> QED
    BY <1>3, <2>1 DEF r
<1>5. IsLinked(Taken, canonical, provider, links)
  <2> DEFINE r == Taken
  <2>1. /\ DOMAIN r = DOMAIN st
        /\ r.matching = Put(st.matching, q, c)
        /\ r.evidence = Put(st.evidence, q, "gap")
        /\ DOMAIN r.effective = DOMAIN st.effective /\ r.pending = st.pending \ {q}
    BY DEF IsLinked
  <2> HIDE DEF r
  <2> QED
    BY <1>3, <2>1 DEF r
<1> HIDE DEF t, LeftOver, Torn, Taken, Linked
<1> QED
  BY <1>1, <1>2, <1>4, <1>5 DEF t

\* One round of the loop: nothing happens, or a speaker meets one that it is near to.
LEMMA NearestIs ==
    ASSUME NEW provider, NEW st
    PROVE  \/ LinkNearest(provider, st) = st
           \/ \E q \in st.pending : \E c \in Near(q, provider, st.effective) : \E gap, near :
                 LinkNearest(provider, st) = LinkOne(gap, c, q, near, provider, st)
<1> DEFINE near0 == [q \in st.pending |-> Near(q, provider, st.effective)]
           near == Table(near0)
           offers == UNION {{<<GapBetween(provider[q], st.effective[c]), c, q>> : c \in near[q]} :
                            q \in st.pending}
           Before(a, b) == \/ a[1] < b[1]
                           \/ a[1] = b[1] /\ a[2] < b[2]
                           \/ a[1] = b[1] /\ a[2] = b[2] /\ a[3] <= b[3]
           first == {a \in offers : \A b \in offers : Before(a, b)}
           best == CHOOSE a \in first : TRUE
<1>1. LinkNearest(provider, st) =
         IF first = {} THEN st ELSE LinkOne(best[1], best[2], best[3], near, provider, st)
  BY DEF LinkNearest
<1>2. ASSUME NEW a \in offers
      PROVE  a[3] \in st.pending /\ a[2] \in Near(a[3], provider, st.effective)
  <2>1. PICK q \in st.pending : \E c \in near[q] : a = <<GapBetween(provider[q], st.effective[c]), c, q>>
    BY <1>2
  <2>2. PICK c \in near[q] : a = <<GapBetween(provider[q], st.effective[c]), c, q>>
    BY <2>1
  <2>3. near[q] = Near(q, provider, st.effective)
    <3>1. DOMAIN near0 = st.pending /\ near0[q] = Near(q, provider, st.effective)
      OBVIOUS
    <3> HIDE DEF near0
    <3> QED
      BY <3>1, TableOf
  <2> HIDE DEF near
  <2> QED
    BY <2>2, <2>3
<1> HIDE DEF near, offers
<1>3. CASE first = {}
  <2> HIDE DEF first
  <2> QED
    BY <1>1, <1>3
<1>4. CASE first # {}
  <2>1. best \in first
    <3> HIDE DEF first
    <3> QED
      BY <1>4
  <2>2. best \in offers
    BY <2>1
  <2> HIDE DEF first, best
  <2>3. best[3] \in st.pending /\ best[2] \in Near(best[3], provider, st.effective)
    BY <1>2, <2>2
  <2> QED
    BY <1>1, <1>4, <2>3
<1> QED
  BY <1>3, <1>4

LEMMA NearestKeeps ==
    ASSUME NEW canonical, NEW provider, NEW links, NEW st, IsLinked(st, canonical, provider, links)
    PROVE  IsLinked(LinkNearest(provider, st), canonical, provider, links)
<1>1. CASE LinkNearest(provider, st) = st
  BY <1>1
<1>2. ASSUME NEW q \in st.pending, NEW c \in Near(q, provider, st.effective), NEW gap, NEW near,
             LinkNearest(provider, st) = LinkOne(gap, c, q, near, provider, st)
      PROVE  IsLinked(LinkNearest(provider, st), canonical, provider, links)
  <2>1. c \in DOMAIN canonical /\ q \in DOMAIN provider
    BY DEF IsLinked, Near
  <2>2. IsLinked(LinkOne(gap, c, q, near, provider, st), canonical, provider, links)
    BY <2>1, LinkKeeps
  <2> QED
    BY <1>2, <2>2
<1> QED
  BY <1>1, <1>2, NearestIs

LEMMA GapsKeep ==
    ASSUME NEW canonical, NEW provider, IsFiniteSet(DOMAIN provider), NEW links, NEW st,
           IsLinked(st, canonical, provider, links)
    PROVE  IsLinked(LinkGaps(st, provider), canonical, provider, links)
<1> DEFINE n == Cardinality(st.pending)
           L == [k \in 1 .. n |-> k]
           T(run) == {k \in 0 .. n : IsLinked(run[k], canonical, provider, links)}
<1>1. n \in Nat
  <2>1. st.pending \subseteq DOMAIN provider
    BY DEF IsLinked
  <2> QED
    BY <2>1, FS_Subset, FS_CardinalityType
<1>2. LinkGaps(st, provider) = GapLoop!Fold(provider, st, L)
  BY DEF LinkGaps, FoldLeft, MapThenFoldSet, GapLoop!Fold, Max, GapLoop!Top
<1> HIDE DEF n
<1>3. GapLoop!IsList(L) /\ Len(L) = n /\ \A k \in 1 .. n : L[k] = k
  <2>1. L \in Seq(Int) /\ Len(L) = n /\ \A k \in 1 .. n : L[k] = k
    BY <1>1
  <2> HIDE DEF L
  <2> QED
    BY <2>1 DEF GapLoop!IsList
<1> HIDE DEF L
<1>4. PICK run : GapLoop!IsRun(run, provider, st, L) /\ run[n] = GapLoop!Fold(provider, st, L)
  BY <1>3, GapLoop!FoldRuns
<1>5. run[0] = st /\ \A k \in 1 .. n : run[k] = LinkNearest(provider, run[k - 1])
  BY <1>3, <1>4 DEF GapLoop!IsRun
<1>6. 0 \in T(run)
  BY <1>1, <1>5
<1>7. ASSUME NEW k \in 1 .. n, k - 1 \in T(run) PROVE k \in T(run)
  <2>1. IsLinked(LinkNearest(provider, run[k - 1]), canonical, provider, links)
    BY <1>7, NearestKeeps
  <2> QED
    BY <1>5, <2>1
<1>8. n \in T(run)
  <2> HIDE DEF T
  <2> QED
    BY <1>1, <1>6, <1>7, GapLoop!Induct
<1> QED
  BY <1>2, <1>4, <1>8

\* What is known of a match: it links speakers of one side to speakers of the other,
\* and where its evidence is overlap it is one of the links by overlap.
IsMatch(match, canonical, provider, links) ==
    /\ DOMAIN match.label \subseteq DOMAIN provider
    /\ match.unmatched \subseteq DOMAIN provider
    /\ \A q \in DOMAIN match.label :
          /\ match.label[q] \in DOMAIN canonical
          /\ match.evidence[q] = "overlap" => q \in DOMAIN links /\ links[q] = match.label[q]

LEMMA Matched ==
    ASSUME NEW scores, NEW canonical, NEW provider, IsSides(scores, canonical, provider)
    PROVE  /\ IsMatch(MatchOn(scores, canonical, provider, TRUE), canonical, provider,
                      ByShared(scores, provider))
           /\ MatchOn(scores, canonical, provider, FALSE).label = ByShared(scores, provider)
<1> DEFINE accepted == Accepted(scores, provider)
           close == {q \in {e[2] : e \in accepted} : TooClose(q, accepted, scores)}
           edges == {e \in accepted : e[2] \notin close /\ e = BestEdge(e[2], accepted, scores)}
           links == ByShared(scores, provider)
           linked == ByOverlap(links, close, canonical, provider)
           gaps == LinkGaps(linked, provider)
<1>1. edges = Clear(scores, provider)
  <2>1. \A e \in accepted : e[2] \notin close <=> ~TooClose(e[2], accepted, scores)
    OBVIOUS
  <2> HIDE DEF close
  <2> QED
    BY <2>1 DEF Clear
<1>2. /\ MatchOn(scores, canonical, provider, TRUE) = Result(gaps, scores, provider)
      /\ MatchOn(scores, canonical, provider, FALSE) = Result(linked, scores, provider)
  <2>1. Table(MaximumWeightMatching([e \in edges |-> scores[e]])) = links
    <3> HIDE DEF edges
    <3> QED
      BY <1>1 DEF ByShared
  <2> QED
    BY <2>1 DEF MatchOn
<1>3. linked.matching = links
  BY DEF ByOverlap
<1>4. IsLinked(linked, canonical, provider, links)
  <2>1. DOMAIN links \subseteq DOMAIN provider /\ \A q \in DOMAIN links : links[q] \in DOMAIN canonical
    BY SharedLinks
  <2> HIDE DEF links, close
  <2>2. /\ DOMAIN linked = {"matching", "evidence", "assigned", "effective", "pending", "ambiguous"}
        /\ linked.matching = links /\ DOMAIN linked.evidence = DOMAIN links
        /\ linked.effective = canonical /\ linked.pending \subseteq DOMAIN provider
    BY DEF ByOverlap
  <2> HIDE DEF linked
  <2> QED
    BY <2>1, <2>2 DEF IsLinked
<1> HIDE DEF linked, links
<1>5. IsLinked(gaps, canonical, provider, links)
  BY <1>4, GapsKeep DEF IsSides
<1> HIDE DEF gaps
<1>6. IsMatch(Result(gaps, scores, provider), canonical, provider, links)
  <2> DEFINE m == Result(gaps, scores, provider)
  <2>1. m.label = gaps.matching /\ m.evidence = gaps.evidence /\ m.unmatched \subseteq DOMAIN provider
    BY DEF Result
  <2> HIDE DEF m
  <2>2. IsMatch(m, canonical, provider, links)
    BY <1>5, <2>1 DEF IsMatch, IsLinked
  <2> QED
    BY <2>2 DEF m
<1>7. Result(linked, scores, provider).label = links
  BY <1>3 DEF Result
<1> QED
  BY <1>2, <1>6, <1>7 DEF links

-----------------------------------------------------------------------------
(* Spans and labels of the live registry.                                   *)

Spans == Seq(Int \X Int)

LEMMA LeastIn ==
    ASSUME NEW T \in SUBSET Nat, T # {}
    PROVE  Min(T) \in T
<1>1. \E n \in T : \A m \in T : n <= m
  BY JoinLoop!LeastNat
<1> QED
  BY <1>1 DEF Min

LEMMA HasTop ==
    ASSUME NEW S \in SUBSET Int, S # {}, NEW b \in Int, \A x \in S : x <= b
    PROVE  Max(S) \in S /\ \A x \in S : x <= Max(S)
<1> DEFINE T == {b - x : x \in S}
<1>1. T \in SUBSET Nat /\ T # {}
  <2>1. \A x \in S : b - x \in Nat
    OBVIOUS
  <2> QED
    BY <2>1
<1>2. PICK n \in T : \A m \in T : n <= m
  <2> HIDE DEF T
  <2> QED
    BY <1>1, JoinLoop!LeastNat
<1>3. PICK x \in S : n = b - x
  BY <1>2
<1>4. \A y \in S : x >= y
  BY <1>2, <1>3
<1>5. Max(S) \in S /\ \A y \in S : Max(S) >= y
  BY <1>4 DEF Max
<1> DEFINE m == Max(S)
<1>6. m \in S /\ \A y \in S : m >= y
  BY <1>5
<1> HIDE DEF m
<1>7. m \in S /\ \A y \in S : y <= m
  BY <1>6
<1> QED
  BY <1>7 DEF m

LEMMA OfTwo ==
    ASSUME NEW a \in Int, NEW b \in Int
    PROVE  /\ Max({a, b}) \in {a, b} /\ Max({a, b}) >= a /\ Max({a, b}) >= b
           /\ Min({a, b}) \in {a, b} /\ Min({a, b}) <= a /\ Min({a, b}) <= b
<1>1. \E x \in {a, b} : \A y \in {a, b} : x >= y
  OBVIOUS
<1>2. \E x \in {a, b} : \A y \in {a, b} : x <= y
  OBVIOUS
<1>3. Max({a, b}) \in {a, b} /\ \A y \in {a, b} : Max({a, b}) >= y
  BY <1>1 DEF Max
<1>4. Min({a, b}) \in {a, b} /\ \A y \in {a, b} : Min({a, b}) <= y
  BY <1>2 DEF Min
<1> QED
  BY <1>3, <1>4

\* When two spans overlap, and how far apart they are.
LEMMA OverlapIs ==
    ASSUME NEW l \in Int \X Int, NEW r \in Int \X Int
    PROVE  Overlap(l, r) > 0 <=> l[1] < l[2] /\ r[1] < r[2] /\ l[1] < r[2] /\ r[1] < l[2]
<1> DEFINE a == Min({l[2], r[2]})
           b == Max({l[1], r[1]})
           x == a - b
<1>1. /\ l[1] \in Int /\ l[2] \in Int /\ r[1] \in Int /\ r[2] \in Int
  OBVIOUS
<1>2. a \in {l[2], r[2]} /\ a <= l[2] /\ a <= r[2]
  BY OfTwo
<1>3. b \in {l[1], r[1]} /\ b >= l[1] /\ b >= r[1]
  BY OfTwo
<1>4. Overlap(l, r) = Max({0, x})
  BY DEF Overlap
<1> HIDE DEF a, b
<1>5. x \in Int
  BY <1>1, <1>2, <1>3
<1>6. x > 0 <=> l[1] < l[2] /\ r[1] < r[2] /\ l[1] < r[2] /\ r[1] < l[2]
  BY <1>1, <1>2, <1>3
<1> HIDE DEF x
<1>7. Max({0, x}) \in {0, x} /\ Max({0, x}) >= x
  <2>1. 0 \in Int
    OBVIOUS
  <2> QED
    BY <1>5, <2>1, OfTwo
<1> QED
  BY <1>4, <1>5, <1>6, <1>7

LEMMA GapIs ==
    ASSUME NEW l \in Int \X Int, NEW r \in Int \X Int
    PROVE  /\ Gap(l, r) \in Nat
           /\ \A n \in Nat : Gap(l, r) <= n <=> r[1] - l[2] <= n /\ l[1] - r[2] <= n
<1> DEFINE a == r[1] - l[2]
           b == l[1] - r[2]
           S == {0, a, b}
<1>1. a \in Int /\ b \in Int
  OBVIOUS
<1>2. Gap(l, r) = Max(S)
  BY DEF Gap
<1> HIDE DEF a, b
<1>3. \E x \in S : \A y \in S : x >= y
  BY <1>1
<1>4. Max(S) \in S /\ \A y \in S : Max(S) >= y
  BY <1>3 DEF Max
<1>5. Max(S) \in {0, a, b} /\ Max(S) >= 0 /\ Max(S) >= a /\ Max(S) >= b
  BY <1>4
<1> DEFINE m == Max(S)
<1> HIDE DEF m, S
<1>6. m \in Nat /\ \A n \in Nat : m <= n <=> a <= n /\ b <= n
  BY <1>1, <1>5 DEF m
<1> QED
  BY <1>2, <1>6 DEF a, b, m

\* What is left of spans that are cut to the window w: pieces of it with a length, one
\* for each of the spans that overlap it.
Within(w) == {x \in Int \X Int : w[1] <= x[1] /\ x[1] < x[2] /\ x[2] <= w[2]}

LEMMA Pieces ==
    ASSUME NEW spans \in Spans, NEW w \in Int \X Int
    PROVE  /\ Clip(spans, w) \in Seq(Within(w))
           /\ Len(Clip(spans, w)) = Cardinality({i \in DOMAIN spans : Overlap(spans[i], w) > 0})
<1> DEFINE over(i) == Overlap(spans[i], w) > 0
           cut(i) == <<Max({spans[i][1], w[1]}), Min({spans[i][2], w[2]})>>
           piece(i) == IF over(i) THEN <<cut(i)>> ELSE <<>>
           lists == [i \in DOMAIN spans |-> piece(i)]
<1>1. Clip(spans, w) = FlattenSeq(lists)
  BY DEF Clip
<1>2. /\ Len(spans) \in Nat /\ DOMAIN spans = 1 .. Len(spans)
      /\ \A i \in DOMAIN spans : spans[i] \in Int \X Int
  BY DEF Spans
<1>3. ASSUME NEW i \in DOMAIN spans
      PROVE  /\ piece(i) \in Seq(Within(w)) /\ Len(piece(i)) <= 1
             /\ piece(i) # <<>> <=> over(i)
  <2>1. CASE over(i)
    <3> DEFINE l == spans[i]
               a == Max({l[1], w[1]})
               b == Min({l[2], w[2]})
               p == <<a, b>>
    <3>1. l \in Int \X Int
      BY <1>2
    <3>2. l[1] < l[2] /\ w[1] < w[2] /\ l[1] < w[2] /\ w[1] < l[2]
      BY <2>1, <3>1, OverlapIs
    <3>3. l[1] \in Int /\ l[2] \in Int /\ w[1] \in Int /\ w[2] \in Int
      BY <3>1
    <3>4. piece(i) = <<p>>
      BY <2>1
    <3> HIDE DEF l, piece, over
    <3>5. a \in {l[1], w[1]} /\ a >= l[1] /\ a >= w[1] /\ b \in {l[2], w[2]} /\ b <= l[2] /\ b <= w[2]
      BY <3>3, OfTwo
    <3> HIDE DEF a, b
    <3>6. a \in Int /\ b \in Int /\ w[1] <= a /\ a < b /\ b <= w[2]
      BY <3>2, <3>3, <3>5
    <3>7. p \in Within(w)
      BY <3>6 DEF Within
    <3> HIDE DEF p
    <3>8. <<p>> \in Seq(Within(w)) /\ Len(<<p>>) = 1 /\ <<p>> # <<>>
      BY <3>7
    <3> QED
      BY <2>1, <3>4, <3>8
  <2>2. CASE ~over(i)
    <3>1. piece(i) = <<>>
      BY <2>2
    <3>2. <<>> \in Seq(Within(w)) /\ Len(<<>>) = 0
      OBVIOUS
    <3> HIDE DEF piece, over
    <3> QED
      BY <2>2, <3>1, <3>2
  <2> QED
    BY <2>1, <2>2
<1> HIDE DEF piece, over
<1>4. /\ lists \in Seq(Seq(Within(w))) /\ DOMAIN lists = DOMAIN spans
      /\ \A i \in DOMAIN lists : Len(lists[i]) <= 1 /\ (lists[i] # <<>> <=> over(i))
  <2>1. lists \in [1 .. Len(spans) -> Seq(Within(w))] /\ DOMAIN lists = DOMAIN spans
    BY <1>2, <1>3
  <2>2. \A i \in DOMAIN lists : lists[i] = piece(i)
    OBVIOUS
  <2> DEFINE n == Len(spans)
  <2>3. n \in Nat /\ lists \in [1 .. n -> Seq(Within(w))]
    BY <1>2, <2>1
  <2> HIDE DEF lists, n
  <2>4. lists \in Seq(Seq(Within(w)))
    BY <2>3
  <2> QED
    BY <1>3, <2>1, <2>2, <2>4
<1> HIDE DEF lists
<1>5. {i \in DOMAIN lists : lists[i] # <<>>} = {i \in DOMAIN spans : over(i)}
  BY <1>4
<1>6. FlattenSeq(lists) \in Seq(Within(w))
  BY <1>4, Flattened
<1>7. Len(FlattenSeq(lists)) = Cardinality({i \in DOMAIN lists : lists[i] # <<>>})
  BY <1>4, Counted
<1> QED
  BY <1>1, <1>5, <1>6, <1>7 DEF over

LEMMA Clipped ==
    ASSUME NEW spans \in Spans, NEW w \in Int \X Int
    PROVE  Clip(spans, w) \in Spans /\ Len(Clip(spans, w)) <= Len(spans)
<1> DEFINE c == Clip(spans, w)
           S == {i \in DOMAIN spans : Overlap(spans[i], w) > 0}
<1>1. c \in Seq(Within(w)) /\ Len(c) = Cardinality(S)
  BY Pieces
<1>2. c \in Spans
  <2> HIDE DEF c
  <2>1. Within(w) \subseteq Int \X Int
    BY DEF Within
  <2> QED
    BY <1>1, <2>1 DEF Spans
<1>3. Cardinality(S) <= Len(spans)
  <2>1. Len(spans) \in Nat /\ DOMAIN spans = 1 .. Len(spans)
    BY DEF Spans
  <2>2. S \in SUBSET (1 .. Len(spans))
    BY <2>1
  <2>3. IsFiniteSet(1 .. Len(spans)) /\ Cardinality(1 .. Len(spans)) = Len(spans)
    <3>1. Cardinality(1 .. Len(spans)) = IF 1 > Len(spans) THEN 0 ELSE Len(spans) - 1 + 1
      BY <2>1, FS_Interval
    <3> QED
      BY <2>1, <3>1, FS_Interval
  <2> HIDE DEF S
  <2> QED
    BY <2>2, <2>3, FS_Subset
<1> HIDE DEF S
<1> QED
  BY <1>1, <1>2, <1>3

\* Something is left of the spans just when one of them overlaps the window.
LEMMA SomeLeft ==
    ASSUME NEW spans \in Spans, NEW w \in Int \X Int
    PROVE  Clip(spans, w) # <<>> <=> \E i \in DOMAIN spans : Overlap(spans[i], w) > 0
<1> DEFINE S == {i \in DOMAIN spans : Overlap(spans[i], w) > 0}
           c == Clip(spans, w)
<1>1. c \in Seq(Within(w)) /\ Len(c) = Cardinality(S)
  BY Pieces
<1>2. IsFiniteSet(S)
  <2>1. Len(spans) \in Nat /\ DOMAIN spans = 1 .. Len(spans)
    BY DEF Spans
  <2>2. IsFiniteSet(1 .. Len(spans)) /\ S \subseteq 1 .. Len(spans)
    BY <2>1, FS_Interval
  <2> QED
    BY <2>2, FS_Subset
<1>3. S # {} <=> \E i \in DOMAIN spans : Overlap(spans[i], w) > 0
  OBVIOUS
<1> HIDE DEF S, c
<1>4. Cardinality(S) = 0 <=> S = {}
  BY <1>2, FS_EmptySet
<1>5. c = <<>> <=> Len(c) = 0
  BY <1>1
<1> QED
  BY <1>1, <1>3, <1>4, <1>5 DEF c

\* The newest spans up to the cap: all of them if they fit, and some if there are any.
LEMMA Capped ==
    ASSUME NEW S, NEW spans \in Seq(S), talk.maxIntervals \in Nat \ {0}
    PROVE  /\ Newest(spans) \in Seq(S) /\ Len(Newest(spans)) <= talk.maxIntervals
           /\ spans # <<>> => Newest(spans) # <<>>
           /\ Len(spans) <= talk.maxIntervals => Newest(spans) = spans
<1> DEFINE m == talk.maxIntervals
           n == Len(spans)
<1>1. n \in Nat /\ m \in Nat \ {0}
  OBVIOUS
<1>2. CASE n <= m
  BY <1>2 DEF Newest
<1>3. CASE ~(n <= m)
  <2>1. Newest(spans) = SubSeq(spans, n - m + 1, n)
    BY <1>3 DEF Newest
  <2>2. n - m + 1 \in 1 .. n + 1 /\ n \in 0 .. n
    BY <1>1, <1>3
  <2> HIDE DEF m, n
  <2>3. SubSeq(spans, n - m + 1, n) \in Seq(S) /\ Len(SubSeq(spans, n - m + 1, n)) = m
    <3>1. n = Len(spans)
      BY DEF n
    <3> QED
      BY <1>1, <1>3, <2>2, <3>1
  <2>4. Newest(spans) \in Seq(S) /\ Len(Newest(spans)) = m
    BY <2>1, <2>3
  <2>5. Newest(spans) # <<>>
    BY <1>1, <2>4
  <2> QED
    BY <1>1, <1>3, <2>4, <2>5 DEF m, n
<1> QED
  BY <1>2, <1>3

LEMMA NextIs ==
    ASSUME NEW n \in Nat
    PROVE  NextLabel(1 .. n) = n + 1
<1>1. Cardinality(1 .. n) = n
  <2>1. Cardinality(1 .. n) = IF 1 > n THEN 0 ELSE n - 1 + 1
    BY FS_Interval
  <2> QED
    BY <2>1
<1> DEFINE IsNext(l) == l \notin 1 .. n /\ \A m \in 1 .. l - 1 : m \in 1 .. n
<1>2. NextLabel(1 .. n) = CHOOSE l \in 1 .. n + 1 : IsNext(l)
  BY <1>1 DEF NextLabel
<1>3. n + 1 \in 1 .. n + 1 /\ IsNext(n + 1)
  OBVIOUS
<1>4. \A l \in 1 .. n + 1 : IsNext(l) => l = n + 1
  OBVIOUS
<1> HIDE DEF IsNext
<1> QED
  BY <1>2, <1>3, <1>4

LEMMA WindowsAre ==
    ASSUME NEW n \in Int
    PROVE  Window(n) \in Int \X Int /\ StablePart(n) \in Int \X Int
<1> DEFINE e == WindowEnd(n)
<1>1. e \in Int
  BY DEF WindowEnd, Step
<1> HIDE DEF e
<1>2. Max({0, e - Lookback}) \in Int
  <2>1. 0 \in Int /\ e - Lookback \in Int
    BY <1>1 DEF Lookback
  <2> DEFINE x == e - Lookback
  <2> HIDE DEF x
  <2>2. Max({0, x}) \in {0, x} /\ x \in Int
    BY <2>1, OfTwo DEF x
  <2>3. Max({0, x}) \in Int
    BY <2>2
  <2> QED
    BY <2>3 DEF x
<1> DEFINE a == Max({0, e - Lookback})
<1>3. Window(n) = <<a, e>>
  BY DEF Window, e
<1> HIDE DEF a
<1>4. Window(n)[1] = a /\ StablePart(n) = <<Window(n)[1], e - Step>>
  BY <1>3 DEF StablePart, e
<1> QED
  BY <1>1, <1>2, <1>3, <1>4 DEF a, Step

-----------------------------------------------------------------------------
(* Overlaps are numbers.                                                    *)

LEMMA TotalIn ==
    ASSUME NEW spans \in Spans
    PROVE  Total(spans) \in Int
<1>1. Total(spans) = TotalLoop!Fold(0, 0, spans)
  BY DEF Total, FoldLeft, MapThenFoldSet, TotalLoop!Fold, Max, TotalLoop!Top
<1>2. /\ Len(spans) \in Nat /\ DOMAIN spans = 1 .. Len(spans)
      /\ \A k \in 1 .. Len(spans) : spans[k] \in Int \X Int
  BY DEF Spans
<1>3. TotalLoop!KeepsAll(0, 0, spans, Int)
  <2>1. \A k \in 1 .. Len(spans) : \A n \in Int : n + spans[k][2] - spans[k][1] \in Int
    BY <1>2
  <2> QED
    BY <1>2, <2>1 DEF TotalLoop!KeepsAll, TotalLoop!IsList
<1> QED
  BY <1>1, <1>3, TotalLoop!FoldStays

LEMMA OverlapIn ==
    ASSUME NEW l \in Int \X Int, NEW r \in Int \X Int
    PROVE  Overlap(l, r) \in Nat
<1> DEFINE x == Min({l[2], r[2]}) - Max({l[1], r[1]})
<1>1. Min({l[2], r[2]}) \in Int /\ Max({l[1], r[1]}) \in Int
  BY OfTwo
<1>2. x \in Int
  BY <1>1
<1> HIDE DEF x
<1>3. Max({0, x}) \in {0, x} /\ Max({0, x}) >= 0
  <2>1. 0 \in Int
    OBVIOUS
  <2> QED
    BY <1>2, <2>1, OfTwo
<1>4. Max({0, x}) \in Nat
  BY <1>2, <1>3
<1> QED
  BY <1>4 DEF Overlap, x

LEMMA EachIn ==
    ASSUME NEW l \in Int \X Int, NEW rs \in Spans
    PROVE  SharedWith(l, rs) \in Int
<1>1. SharedWith(l, rs) = EachLoop!Fold(l, 0, rs)
  BY DEF SharedWith, FoldLeft, MapThenFoldSet, EachLoop!Fold, Max, EachLoop!Top
<1>2. /\ Len(rs) \in Nat /\ DOMAIN rs = 1 .. Len(rs)
      /\ \A k \in 1 .. Len(rs) : rs[k] \in Int \X Int
  BY DEF Spans
<1>3. EachLoop!KeepsAll(l, 0, rs, Int)
  <2>1. \A k \in 1 .. Len(rs) : \A n \in Int : n + Overlap(l, rs[k]) \in Int
    BY <1>2, OverlapIn
  <2> QED
    BY <1>2, <2>1 DEF EachLoop!KeepsAll, EachLoop!IsList
<1> QED
  BY <1>1, <1>3, EachLoop!FoldStays

LEMMA SharedIn ==
    ASSUME NEW ls \in Spans, NEW rs \in Spans
    PROVE  Shared(ls, rs) \in Int
<1>1. Shared(ls, rs) = BothLoop!Fold(rs, 0, ls)
  BY DEF Shared, FoldLeft, MapThenFoldSet, BothLoop!Fold, Max, BothLoop!Top
<1>2. /\ Len(ls) \in Nat /\ DOMAIN ls = 1 .. Len(ls)
      /\ \A k \in 1 .. Len(ls) : ls[k] \in Int \X Int
  BY DEF Spans
<1>3. BothLoop!KeepsAll(rs, 0, ls, Int)
  <2>1. \A k \in 1 .. Len(ls) : \A n \in Int : n + SharedWith(ls[k], rs) \in Int
    BY <1>2, EachIn
  <2> QED
    BY <1>2, <2>1 DEF BothLoop!KeepsAll, BothLoop!IsList
<1> QED
  BY <1>1, <1>3, BothLoop!FoldStays

-----------------------------------------------------------------------------
(* Known speakers that a window cannot reach.                               *)

\* Spans that a match cannot reach: too far from all that is heard.
IsFarFrom(spans, provider) ==
    \A q \in DOMAIN provider : \A i \in DOMAIN provider[q], j \in DOMAIN spans :
        Gap(provider[q][i], spans[j]) > GapTolerance

\* The loop over the gaps does not link anything to l, and leaves its spans alone.
IsUntouched(st, l, canonical) ==
    /\ st.effective[l] = canonical[l]
    /\ \A q \in DOMAIN st.matching : st.matching[q] # l

\* A known speaker that is near has a span that is near.
LEMMA NearHasPair ==
    ASSUME NEW provider, NEW effective, NEW q, provider[q] \in Spans,
           NEW l \in Near(q, provider, effective), effective[l] \in Spans
    PROVE  \E i \in DOMAIN provider[q], j \in DOMAIN effective[l] :
               Gap(provider[q][i], effective[l][j]) <= GapTolerance
<1> DEFINE ps == provider[q]
           es == effective[l]
           pairs == PairsOf(ps, es)
           gap(ij) == Gap(ps[ij[1]], es[ij[2]])
           gaps == {gap(ij) : ij \in pairs}
<1>1. pairs # {} /\ Min(gaps) <= GapTolerance
  BY DEF Near, GapBetween
<1>2. \A i \in DOMAIN ps : ps[i] \in Int \X Int
  BY DEF Spans
<1>3. \A j \in DOMAIN es : es[j] \in Int \X Int
  BY DEF Spans
<1>4. \A ij \in pairs : ij[1] \in DOMAIN ps /\ ij[2] \in DOMAIN es
  BY DEF PairsOf
<1> HIDE DEF ps, es, pairs
<1>5. \A ij \in pairs : gap(ij) \in Nat
  BY <1>2, <1>3, <1>4, GapIs
<1>6. Min(gaps) \in gaps
  <2> HIDE DEF gap
  <2>1. gaps \in SUBSET Nat /\ gaps # {}
    BY <1>1, <1>5
  <2> HIDE DEF gaps
  <2> QED
    BY <2>1, LeastIn
<1>7. PICK ij \in pairs : Min(gaps) = gap(ij)
  BY <1>6
<1> HIDE DEF gaps
<1> QED
  BY <1>1, <1>4, <1>7 DEF ps, es

LEMMA FarIsNotNear ==
    ASSUME NEW provider, \A q \in DOMAIN provider : provider[q] \in Spans,
           NEW effective, NEW l \in DOMAIN effective, effective[l] \in Spans,
           IsFarFrom(effective[l], provider), NEW q \in DOMAIN provider
    PROVE  l \notin Near(q, provider, effective)
<1> SUFFICES ASSUME l \in Near(q, provider, effective) PROVE FALSE
  OBVIOUS
<1>1. PICK i \in DOMAIN provider[q], j \in DOMAIN effective[l] :
                Gap(provider[q][i], effective[l][j]) <= GapTolerance
  BY NearHasPair
<1>2. provider[q][i] \in Int \X Int /\ effective[l][j] \in Int \X Int
  BY DEF Spans
<1>3. Gap(provider[q][i], effective[l][j]) \in Nat
  BY <1>2, GapIs
<1>4. Gap(provider[q][i], effective[l][j]) > GapTolerance
  BY DEF IsFarFrom
<1> QED
  BY <1>1, <1>3, <1>4 DEF GapTolerance

LEMMA LinkLeaves ==
    ASSUME NEW canonical, NEW provider, NEW links, NEW st, IsLinked(st, canonical, provider, links),
           NEW l, IsUntouched(st, l, canonical), NEW gap, NEW c, c # l, NEW q, NEW near
    PROVE  IsUntouched(LinkOne(gap, c, q, near, provider, st), l, canonical)
<1> DEFINE Linked(evidence) == [st EXCEPT !.matching = Put(@, q, c),
                                          !.evidence = Put(@, q, evidence),
                                          !.effective[c] = @ \o provider[q],
                                          !.pending = @ \ {q}]
           LeftOver == [st EXCEPT !.pending = @ \ {q}]
           Torn == [LeftOver EXCEPT !.ambiguous = @ \cup {q}]
           Taken == [Linked("gap") EXCEPT !.assigned = Put(@, c, q)]
           Merged == Linked("merged-fragment")
           t == LinkOne(gap, c, q, near, provider, st)
<1>1. t \in {LeftOver, Torn, Taken, Merged}
  BY DEF LinkOne
<1>2. ASSUME NEW r \in {LeftOver, Torn}
      PROVE  r.effective[l] = canonical[l] /\ r.matching = st.matching
  BY DEF IsLinked, IsUntouched
<1>3. ASSUME NEW r \in {Taken, Merged}
      PROVE  r.effective[l] = canonical[l] /\ r.matching = Put(st.matching, q, c)
  <2> DEFINE e == [st.effective EXCEPT ![c] = @ \o provider[q]]
  <2>1. r.effective = e /\ r.matching = Put(st.matching, q, c)
    BY DEF IsLinked
  <2>2. e[l] = st.effective[l]
    <3> DEFINE old == st.effective
    <3> HIDE DEF old
    <3>1. l \in DOMAIN old => [old EXCEPT ![c] = @ \o provider[q]][l] = old[l]
      OBVIOUS
    <3> QED
      BY <3>1 DEF old, IsUntouched
  <2> QED
    BY <2>1, <2>2 DEF IsUntouched
<1>4. \A z \in DOMAIN Put(st.matching, q, c) : Put(st.matching, q, c)[z] # l
  BY DEF Put, IsUntouched
<1> HIDE DEF LeftOver, Torn, Taken, Merged, t
<1> QED
  BY <1>1, <1>2, <1>3, <1>4 DEF t, IsUntouched

LEMMA NearestLeaves ==
    ASSUME NEW canonical, NEW provider, \A q \in DOMAIN provider : provider[q] \in Spans,
           NEW links, NEW st, IsLinked(st, canonical, provider, links),
           NEW l \in DOMAIN canonical, canonical[l] \in Spans, IsFarFrom(canonical[l], provider),
           IsUntouched(st, l, canonical)
    PROVE  IsUntouched(LinkNearest(provider, st), l, canonical)
<1>1. CASE LinkNearest(provider, st) = st
  BY <1>1
<1>2. ASSUME NEW q \in st.pending, NEW c \in Near(q, provider, st.effective), NEW gap, NEW near,
             LinkNearest(provider, st) = LinkOne(gap, c, q, near, provider, st)
      PROVE  IsUntouched(LinkNearest(provider, st), l, canonical)
  <2> DEFINE effective == st.effective
  <2>1. q \in DOMAIN provider
    BY DEF IsLinked
  <2>2. l \in DOMAIN effective /\ effective[l] \in Spans /\ IsFarFrom(effective[l], provider)
    BY DEF IsLinked, IsUntouched
  <2>3. c \in Near(q, provider, effective)
    OBVIOUS
  <2> HIDE DEF effective
  <2>4. c # l
    BY <2>1, <2>2, <2>3, FarIsNotNear
  <2>5. IsUntouched(LinkOne(gap, c, q, near, provider, st), l, canonical)
    BY <2>4, LinkLeaves
  <2> QED
    BY <1>2, <2>5
<1> QED
  BY <1>1, <1>2, NearestIs

LEMMA GapsLeave ==
    ASSUME NEW canonical, NEW provider, IsFiniteSet(DOMAIN provider),
           \A q \in DOMAIN provider : provider[q] \in Spans,
           NEW links, NEW st, IsLinked(st, canonical, provider, links),
           NEW l \in DOMAIN canonical, canonical[l] \in Spans, IsFarFrom(canonical[l], provider),
           IsUntouched(st, l, canonical)
    PROVE  IsUntouched(LinkGaps(st, provider), l, canonical)
<1> DEFINE n == Cardinality(st.pending)
           L == [k \in 1 .. n |-> k]
           T(run) == {k \in 0 .. n : /\ IsLinked(run[k], canonical, provider, links)
                                     /\ IsUntouched(run[k], l, canonical)}
<1>1. n \in Nat
  <2>1. st.pending \subseteq DOMAIN provider
    BY DEF IsLinked
  <2> QED
    BY <2>1, FS_Subset, FS_CardinalityType
<1>2. LinkGaps(st, provider) = GapLoop!Fold(provider, st, L)
  BY DEF LinkGaps, FoldLeft, MapThenFoldSet, GapLoop!Fold, Max, GapLoop!Top
<1> HIDE DEF n
<1>3. GapLoop!IsList(L) /\ Len(L) = n /\ \A k \in 1 .. n : L[k] = k
  <2>1. L \in Seq(Int) /\ Len(L) = n /\ \A k \in 1 .. n : L[k] = k
    BY <1>1
  <2> HIDE DEF L
  <2> QED
    BY <2>1 DEF GapLoop!IsList
<1> HIDE DEF L
<1>4. PICK run : GapLoop!IsRun(run, provider, st, L) /\ run[n] = GapLoop!Fold(provider, st, L)
  BY <1>3, GapLoop!FoldRuns
<1>5. run[0] = st /\ \A k \in 1 .. n : run[k] = LinkNearest(provider, run[k - 1])
  BY <1>3, <1>4 DEF GapLoop!IsRun
<1>6. 0 \in T(run)
  BY <1>1, <1>5
<1>7. ASSUME NEW k \in 1 .. n, k - 1 \in T(run) PROVE k \in T(run)
  <2> DEFINE r == run[k - 1]
  <2>1. IsLinked(r, canonical, provider, links) /\ IsUntouched(r, l, canonical)
    BY <1>7
  <2>2. run[k] = LinkNearest(provider, r) /\ k \in 0 .. n
    BY <1>5
  <2> HIDE DEF r
  <2>3. IsLinked(LinkNearest(provider, r), canonical, provider, links)
    BY <2>1, NearestKeeps
  <2>4. IsUntouched(LinkNearest(provider, r), l, canonical)
    BY <2>1, NearestLeaves
  <2> QED
    BY <2>2, <2>3, <2>4
<1>8. n \in T(run)
  <2> HIDE DEF T
  <2> QED
    BY <1>1, <1>6, <1>7, GapLoop!Induct
<1> QED
  BY <1>2, <1>4, <1>8

LEMMA NothingShared ==
    ASSUME NEW rs
    PROVE  Shared(<<>>, rs) = 0
<1>1. Shared(<<>>, rs) = BothLoop!Fold(rs, 0, <<>>)
  BY DEF Shared, FoldLeft, MapThenFoldSet, BothLoop!Fold, Max, BothLoop!Top
<1>2. BothLoop!IsList(<<>>) /\ Len(<<>>) = 0
  BY DEF BothLoop!IsList
<1>3. PICK run : BothLoop!IsRun(run, rs, 0, <<>>) /\ run[Len(<<>>)] = BothLoop!Fold(rs, 0, <<>>)
  BY <1>2, BothLoop!FoldRuns
<1> QED
  BY <1>1, <1>2, <1>3 DEF BothLoop!IsRun

\* The overlaps of what falls into the window w, and the loop over the gaps that starts
\* from the links they make.
WindowScores(canonical, provider, w) ==
    Scores(Table([x \in DOMAIN canonical |-> Clip(canonical[x], w)]),
           Table([x \in DOMAIN provider |-> Clip(provider[x], w)]))

IsStart(st, canonical, provider, w) ==
    /\ st.effective = canonical
    /\ IsLinked(st, canonical, provider, st.matching)
    /\ \A q \in DOMAIN st.matching :
          <<st.matching[q], q>> \in DOMAIN WindowScores(canonical, provider, w)

LEMMA ScoredInWindow ==
    ASSUME NEW canonical, NEW provider, NEW w
    PROVE  /\ DOMAIN WindowScores(canonical, provider, w) \subseteq (DOMAIN canonical) \X (DOMAIN provider)
           /\ \A e \in DOMAIN WindowScores(canonical, provider, w) :
                 Shared(Clip(canonical[e[1]], w), Clip(provider[e[2]], w)) > 0
<1> DEFINE cf == [x \in DOMAIN canonical |-> Clip(canonical[x], w)]
           pf == [x \in DOMAIN provider |-> Clip(provider[x], w)]
           ct == Table(cf)
           pt == Table(pf)
<1>1. /\ DOMAIN ct = DOMAIN canonical /\ \A x \in DOMAIN canonical : ct[x] = Clip(canonical[x], w)
      /\ DOMAIN pt = DOMAIN provider /\ \A x \in DOMAIN provider : pt[x] = Clip(provider[x], w)
  <2>1. /\ DOMAIN cf = DOMAIN canonical /\ \A x \in DOMAIN canonical : cf[x] = Clip(canonical[x], w)
        /\ DOMAIN pf = DOMAIN provider /\ \A x \in DOMAIN provider : pf[x] = Clip(provider[x], w)
    OBVIOUS
  <2> HIDE DEF cf, pf
  <2>2. /\ DOMAIN ct = DOMAIN cf /\ \A x \in DOMAIN cf : ct[x] = cf[x]
        /\ DOMAIN pt = DOMAIN pf /\ \A x \in DOMAIN pf : pt[x] = pf[x]
    BY TableOf
  <2> HIDE DEF ct, pt
  <2> QED
    BY <2>1, <2>2
<1>2. WindowScores(canonical, provider, w) = Scores(ct, pt)
  BY DEF WindowScores
<1> HIDE DEF ct, pt
<1>3. /\ DOMAIN Scores(ct, pt) \subseteq (DOMAIN ct) \X (DOMAIN pt)
      /\ \A e \in (DOMAIN ct) \X (DOMAIN pt) :
            e \in DOMAIN Scores(ct, pt) <=> Shared(ct[e[1]], pt[e[2]]) > 0
  BY ScoresOf
<1>4. ASSUME NEW e \in DOMAIN Scores(ct, pt)
      PROVE  Shared(Clip(canonical[e[1]], w), Clip(provider[e[2]], w)) > 0
  <2>1. e[1] \in DOMAIN canonical /\ e[2] \in DOMAIN provider /\ Shared(ct[e[1]], pt[e[2]]) > 0
    BY <1>1, <1>3
  <2>2. ct[e[1]] = Clip(canonical[e[1]], w) /\ pt[e[2]] = Clip(provider[e[2]], w)
    BY <1>1, <2>1
  <2> QED
    BY <2>1, <2>2
<1> QED
  BY <1>1, <1>2, <1>3, <1>4

LEMMA MatchStarts ==
    ASSUME NEW canonical, DOMAIN canonical \in SUBSET Int, IsFiniteSet(DOMAIN canonical),
           NEW provider, DOMAIN provider \in SUBSET Int, IsFiniteSet(DOMAIN provider), NEW w
    PROVE  \E st : /\ IsStart(st, canonical, provider, w)
                   /\ MatchWindow(canonical, provider, w).label = LinkGaps(st, provider).matching
<1> DEFINE scores == WindowScores(canonical, provider, w)
           accepted == Accepted(scores, provider)
           close == {r \in {e[2] : e \in accepted} : TooClose(r, accepted, scores)}
           edges == {e \in accepted : e[2] \notin close /\ e = BestEdge(e[2], accepted, scores)}
           links == ByShared(scores, provider)
           linked == ByOverlap(links, close, canonical, provider)
           gaps == LinkGaps(linked, provider)
<1>1. MatchWindow(canonical, provider, w) = MatchOn(scores, canonical, provider, TRUE)
  BY DEF MatchWindow, WindowScores
<1>2. IsSides(scores, canonical, provider)
  BY ScoredInWindow DEF IsSides
<1> HIDE DEF scores
<1>3. /\ IsLinking(links, Clear(scores, provider)) /\ DOMAIN links \subseteq DOMAIN provider
      /\ \A r \in DOMAIN links : links[r] \in DOMAIN canonical
  BY <1>2, SharedLinks
<1>4. edges = Clear(scores, provider)
  <2>1. \A e \in accepted : e[2] \notin close <=> ~TooClose(e[2], accepted, scores)
    OBVIOUS
  <2> HIDE DEF close
  <2> QED
    BY <2>1 DEF Clear
<1>5. MatchOn(scores, canonical, provider, TRUE) = Result(gaps, scores, provider)
  <2>1. Table(MaximumWeightMatching([e \in edges |-> scores[e]])) = links
    <3> HIDE DEF edges
    <3> QED
      BY <1>4 DEF ByShared
  <2> QED
    BY <2>1 DEF MatchOn
<1>6. \A r \in DOMAIN links : <<links[r], r>> \in DOMAIN scores
  <2>1. Clear(scores, provider) \subseteq DOMAIN scores
    BY DEF Clear, Accepted
  <2> HIDE DEF links
  <2> QED
    BY <1>3, <2>1 DEF IsLinking
<1> HIDE DEF links, close, edges
<1>7. /\ DOMAIN linked = {"matching", "evidence", "assigned", "effective", "pending", "ambiguous"}
      /\ linked.matching = links /\ DOMAIN linked.evidence = DOMAIN links
      /\ linked.effective = canonical /\ linked.pending \subseteq DOMAIN provider
  BY DEF ByOverlap
<1> HIDE DEF linked
<1>8. IsLinked(linked, canonical, provider, links)
  BY <1>3, <1>7 DEF IsLinked
<1>9. IsStart(linked, canonical, provider, w)
  BY <1>6, <1>7, <1>8 DEF IsStart, scores
<1>10. Result(gaps, scores, provider).label = gaps.matching
  BY DEF Result
<1> QED
  BY <1>1, <1>5, <1>9, <1>10

\* A known speaker that does not reach the window, and is far from all that is heard in
\* it, has nothing linked to it.
LEMMA FarIsNotLinked ==
    ASSUME NEW canonical, DOMAIN canonical \in SUBSET Int, IsFiniteSet(DOMAIN canonical),
           NEW provider, DOMAIN provider \in SUBSET Int, IsFiniteSet(DOMAIN provider),
           \A q \in DOMAIN provider : provider[q] \in Spans,
           NEW w, NEW l \in DOMAIN canonical, canonical[l] \in Spans,
           IsFarFrom(canonical[l], provider), Clip(canonical[l], w) = <<>>,
           NEW q \in DOMAIN MatchWindow(canonical, provider, w).label
    PROVE  MatchWindow(canonical, provider, w).label[q] # l
<1>1. PICK st : /\ IsStart(st, canonical, provider, w)
                /\ MatchWindow(canonical, provider, w).label = LinkGaps(st, provider).matching
  BY MatchStarts
<1>2. ASSUME NEW r \in DOMAIN st.matching, st.matching[r] = l PROVE FALSE
  <2> DEFINE e == <<st.matching[r], r>>
  <2>1. e \in DOMAIN WindowScores(canonical, provider, w) /\ e[1] = l
    BY <1>1, <1>2 DEF IsStart
  <2> HIDE DEF e
  <2>2. Shared(<<>>, Clip(provider[e[2]], w)) > 0
    BY <2>1, ScoredInWindow
  <2>3. Shared(<<>>, Clip(provider[e[2]], w)) = 0
    BY NothingShared
  <2> QED
    BY <2>2, <2>3
<1>3. IsUntouched(st, l, canonical)
  BY <1>1, <1>2 DEF IsStart, IsUntouched
<1>4. IsUntouched(LinkGaps(st, provider), l, canonical)
  BY <1>1, <1>3, GapsLeave DEF IsStart
<1> QED
  BY <1>1, <1>4 DEF IsUntouched

-----------------------------------------------------------------------------
(* The voices of a recording: what is linked is of one.                     *)

\* What the voices of a recording say: `said` gives each its spans. A piece of what a
\* voice says is said by it, and what two voices say is further apart than the tolerance.
IsTalk(said) ==
    /\ \A x \in DOMAIN said : said[x] \subseteq Int \X Int
    /\ \A x \in DOMAIN said : \A a \in said[x] : \A b \in Within(a) : b \in said[x]
    /\ \A x, y \in DOMAIN said : \A a \in said[x], b \in said[y] :
          Gap(a, b) <= GapTolerance => x = y

\* The speakers f, where v gives each its voice.
IsVoiced(f, v, said) == \A l \in DOMAIN f : v[l] \in DOMAIN said /\ f[l] \in Seq(said[v[l]])

LEMMA SaidAre ==
    ASSUME NEW said, IsTalk(said), NEW x \in DOMAIN said, NEW spans \in Seq(said[x])
    PROVE  spans \in Spans
<1>1. said[x] \subseteq Int \X Int
  BY DEF IsTalk
<1> DEFINE S == said[x]
<1> HIDE DEF S
<1>2. spans \in Seq(S) /\ S \subseteq Int \X Int
  BY <1>1 DEF S
<1>3. spans \in Seq(Int \X Int)
  BY <1>2
<1> QED
  BY <1>3 DEF Spans

\* What is cut from the spans of a voice is said by it.
LEMMA CutIsSaid ==
    ASSUME NEW said, IsTalk(said), NEW x \in DOMAIN said, NEW spans \in Seq(said[x]),
           NEW w \in Int \X Int
    PROVE  Clip(spans, w) \in Seq(said[x])
<1> DEFINE S == said[x]
           over(i) == Overlap(spans[i], w) > 0
           cut(i) == <<Max({spans[i][1], w[1]}), Min({spans[i][2], w[2]})>>
           piece(i) == IF over(i) THEN <<cut(i)>> ELSE <<>>
           lists == [i \in DOMAIN spans |-> piece(i)]
<1>1. Clip(spans, w) = FlattenSeq(lists)
  BY DEF Clip
<1>2. /\ Len(spans) \in Nat /\ DOMAIN spans = 1 .. Len(spans)
      /\ \A i \in DOMAIN spans : spans[i] \in S
  OBVIOUS
<1>3. S \subseteq Int \X Int /\ \A a \in S : \A b \in Within(a) : b \in S
  BY DEF IsTalk
<1> HIDE DEF S
<1>4. ASSUME NEW i \in DOMAIN spans PROVE piece(i) \in Seq(S)
  <2>1. CASE over(i)
    <3> DEFINE l == spans[i]
               a == Max({l[1], w[1]})
               b == Min({l[2], w[2]})
               p == <<a, b>>
    <3>1. l \in Int \X Int /\ l \in S
      BY <1>2, <1>3
    <3>2. l[1] < l[2] /\ w[1] < w[2] /\ l[1] < w[2] /\ w[1] < l[2]
      BY <2>1, <3>1, OverlapIs
    <3>3. l[1] \in Int /\ l[2] \in Int /\ w[1] \in Int /\ w[2] \in Int
      BY <3>1
    <3>4. piece(i) = <<p>>
      BY <2>1
    <3> HIDE DEF l, piece, over
    <3>5. a \in {l[1], w[1]} /\ a >= l[1] /\ a >= w[1] /\ b \in {l[2], w[2]} /\ b <= l[2] /\ b <= w[2]
      BY <3>3, OfTwo
    <3> HIDE DEF a, b
    <3>6. a \in Int /\ b \in Int /\ l[1] <= a /\ a < b /\ b <= l[2]
      BY <3>2, <3>3, <3>5
    <3>7. p \in Within(l)
      BY <3>6 DEF Within
    <3>8. p \in S
      BY <1>3, <3>1, <3>7
    <3> HIDE DEF p
    <3>9. <<p>> \in Seq(S)
      BY <3>8
    <3> QED
      BY <3>4, <3>9
  <2>2. CASE ~over(i)
    <3>1. piece(i) = <<>> /\ <<>> \in Seq(S)
      BY <2>2
    <3> QED
      BY <3>1
  <2> QED
    BY <2>1, <2>2
<1> HIDE DEF piece
<1>5. lists \in Seq(Seq(S))
  <2> DEFINE n == Len(spans)
  <2>1. n \in Nat /\ lists \in [1 .. n -> Seq(S)]
    BY <1>2, <1>4
  <2> HIDE DEF lists, n
  <2> QED
    BY <2>1
<1> HIDE DEF lists
<1> QED
  BY <1>1, <1>5, Flattened DEF S

\* Spans of two voices share nothing.
LEMMA SharedIsOne ==
    ASSUME NEW said, IsTalk(said), NEW x \in DOMAIN said, NEW y \in DOMAIN said,
           NEW ls \in Seq(said[x]), NEW rs \in Seq(said[y]), Shared(ls, rs) > 0
    PROVE  x = y
<1> SUFFICES ASSUME x # y PROVE FALSE
  OBVIOUS
<1>1. ls \in Spans /\ rs \in Spans
  BY SaidAre
<1>2. /\ Len(ls) \in Nat /\ DOMAIN ls = 1 .. Len(ls) /\ Len(rs) \in Nat /\ DOMAIN rs = 1 .. Len(rs)
      /\ \A i \in DOMAIN ls : ls[i] \in Int \X Int /\ ls[i] \in said[x]
      /\ \A j \in DOMAIN rs : rs[j] \in Int \X Int /\ rs[j] \in said[y]
  BY <1>1 DEF Spans
<1>3. ASSUME NEW i \in DOMAIN ls, NEW j \in DOMAIN rs PROVE Overlap(ls[i], rs[j]) = 0
  <2> DEFINE l == ls[i]
             r == rs[j]
  <2>1. l \in Int \X Int /\ r \in Int \X Int /\ l \in said[x] /\ r \in said[y]
    BY <1>2
  <2> HIDE DEF l, r
  <2>2. ~(Gap(l, r) <= GapTolerance)
    BY <2>1 DEF IsTalk
  <2>3. ~(Overlap(l, r) > 0)
    <3>1. GapTolerance \in Nat
      BY DEF GapTolerance
    <3>2. ~(r[1] - l[2] <= GapTolerance /\ l[1] - r[2] <= GapTolerance)
      BY <2>1, <2>2, <3>1, GapIs
    <3> DEFINE a == l[1]
               b == l[2]
               c == r[1]
               d == r[2]
    <3>3. a \in Int /\ b \in Int /\ c \in Int /\ d \in Int /\ ~(c - b <= 20 /\ a - d <= 20)
      BY <2>1, <3>2 DEF GapTolerance
    <3> HIDE DEF a, b, c, d
    <3>4. ~(a < d /\ c < b)
      BY <3>3
    <3> QED
      BY <2>1, <3>4, OverlapIs DEF a, b, c, d
  <2>4. Overlap(l, r) \in Nat
    BY <2>1, OverlapIn
  <2> QED
    BY <2>3, <2>4 DEF l, r
<1>4. ASSUME NEW i \in DOMAIN ls PROVE SharedWith(ls[i], rs) = 0
  <2> DEFINE l == ls[i]
  <2>1. SharedWith(l, rs) = EachLoop!Fold(l, 0, rs)
    BY DEF SharedWith, FoldLeft, MapThenFoldSet, EachLoop!Fold, Max, EachLoop!Top
  <2>2. \A k \in 1 .. Len(rs) : Overlap(l, rs[k]) = 0
    BY <1>2, <1>3
  <2> HIDE DEF l
  <2>3. EachLoop!KeepsAll(l, 0, rs, {0})
    BY <1>2, <2>2 DEF EachLoop!KeepsAll, EachLoop!IsList
  <2>4. SharedWith(l, rs) \in {0}
    BY <2>1, <2>3, EachLoop!FoldStays
  <2> QED
    BY <2>4 DEF l
<1>5. Shared(ls, rs) \in {0}
  <2>1. Shared(ls, rs) = BothLoop!Fold(rs, 0, ls)
    BY DEF Shared, FoldLeft, MapThenFoldSet, BothLoop!Fold, Max, BothLoop!Top
  <2>2. BothLoop!KeepsAll(rs, 0, ls, {0})
    BY <1>2, <1>4 DEF BothLoop!KeepsAll, BothLoop!IsList
  <2> QED
    BY <2>1, <2>2, BothLoop!FoldStays
<1> QED
  BY <1>5

\* Speakers that are near to each other are of one voice.
LEMMA NearIsOne ==
    ASSUME NEW said, IsTalk(said), NEW provider, NEW pv, IsVoiced(provider, pv, said),
           NEW effective, NEW cv, IsVoiced(effective, cv, said),
           NEW q \in DOMAIN provider, NEW c \in Near(q, provider, effective)
    PROVE  pv[q] = cv[c]
<1> DEFINE ps == provider[q]
           es == effective[c]
<1>1. /\ c \in DOMAIN effective /\ pv[q] \in DOMAIN said /\ cv[c] \in DOMAIN said
      /\ ps \in Seq(said[pv[q]]) /\ es \in Seq(said[cv[c]])
  BY DEF IsVoiced, Near
<1> HIDE DEF ps, es
<1>2. ps \in Spans /\ es \in Spans
  BY <1>1, SaidAre
<1>3. PICK i \in DOMAIN ps, j \in DOMAIN es : Gap(ps[i], es[j]) <= GapTolerance
  <2>1. provider[q] \in Spans /\ effective[c] \in Spans
    BY <1>2 DEF ps, es
  <2> QED
    BY <2>1, NearHasPair DEF ps, es
<1>4. ps[i] \in said[pv[q]] /\ es[j] \in said[cv[c]]
  BY <1>1
<1> QED
  BY <1>1, <1>3, <1>4 DEF IsTalk

\* The loop over the gaps links speakers of one voice.
LinksOne(st, pv, cv, said) ==
    /\ IsVoiced(st.effective, cv, said)
    /\ \A q \in DOMAIN st.matching : pv[q] = cv[st.matching[q]]

LEMMA LinkIsOne ==
    ASSUME NEW said, NEW canonical, NEW provider, NEW pv, IsVoiced(provider, pv, said), NEW cv,
           NEW links, NEW st, IsLinked(st, canonical, provider, links), LinksOne(st, pv, cv, said),
           NEW gap, NEW c \in DOMAIN canonical, NEW q \in DOMAIN provider, pv[q] = cv[c], NEW near
    PROVE  LinksOne(LinkOne(gap, c, q, near, provider, st), pv, cv, said)
<1> DEFINE Linked(evidence) == [st EXCEPT !.matching = Put(@, q, c),
                                          !.evidence = Put(@, q, evidence),
                                          !.effective[c] = @ \o provider[q],
                                          !.pending = @ \ {q}]
           LeftOver == [st EXCEPT !.pending = @ \ {q}]
           Torn == [LeftOver EXCEPT !.ambiguous = @ \cup {q}]
           Taken == [Linked("gap") EXCEPT !.assigned = Put(@, c, q)]
           Merged == Linked("merged-fragment")
           e == [st.effective EXCEPT ![c] = @ \o provider[q]]
           m == Put(st.matching, q, c)
           t == LinkOne(gap, c, q, near, provider, st)
<1>1. t \in {LeftOver, Torn, Taken, Merged}
  BY DEF LinkOne
<1>2. ASSUME NEW r \in {LeftOver, Torn}
      PROVE  r.effective = st.effective /\ r.matching = st.matching
  BY DEF IsLinked
<1>3. ASSUME NEW r \in {Taken, Merged}
      PROVE  r.effective = e /\ r.matching = m
  BY DEF IsLinked
<1>4. \A z \in DOMAIN m : pv[z] = cv[m[z]]
  <2>1. \A z \in DOMAIN m : IF z = q THEN m[z] = c ELSE z \in DOMAIN st.matching /\ m[z] = st.matching[z]
    BY DEF Put
  <2> HIDE DEF m
  <2> QED
    BY <2>1 DEF LinksOne
<1>5. IsVoiced(e, cv, said)
  <2> DEFINE f == st.effective
             a == f[c]
             b == provider[q]
  <2>1. c \in DOMAIN f /\ cv[c] \in DOMAIN said /\ a \in Seq(said[cv[c]]) /\ b \in Seq(said[cv[c]])
    BY DEF IsLinked, LinksOne, IsVoiced
  <2>2. IsVoiced(f, cv, said)
    BY DEF LinksOne
  <2>3. e = [f EXCEPT ![c] = a \o b]
    OBVIOUS
  <2> HIDE DEF a, b, f, e
  <2>4. a \o b \in Seq(said[cv[c]])
    BY <2>1, Joined
  <2> DEFINE ab == a \o b
  <2>5. e = [f EXCEPT ![c] = ab] /\ ab \in Seq(said[cv[c]])
    BY <2>3, <2>4
  <2> HIDE DEF ab
  <2>6. DOMAIN e = DOMAIN f /\ \A l \in DOMAIN f : e[l] = IF l = c THEN ab ELSE f[l]
    BY <2>1, <2>5
  <2> QED
    BY <2>1, <2>2, <2>5, <2>6 DEF IsVoiced
<1> HIDE DEF LeftOver, Torn, Taken, Merged, t, e, m
<1>6. \/ t.effective = st.effective /\ t.matching = st.matching
      \/ t.effective = e /\ t.matching = m
  BY <1>1, <1>2, <1>3
<1>7. LinksOne(t, pv, cv, said)
  BY <1>4, <1>5, <1>6 DEF LinksOne
<1> QED
  BY <1>7 DEF t

LEMMA NearestIsOne ==
    ASSUME NEW said, IsTalk(said), NEW canonical, NEW provider, NEW pv, IsVoiced(provider, pv, said),
           NEW cv, NEW links, NEW st, IsLinked(st, canonical, provider, links), LinksOne(st, pv, cv, said)
    PROVE  LinksOne(LinkNearest(provider, st), pv, cv, said)
<1>1. CASE LinkNearest(provider, st) = st
  BY <1>1
<1>2. ASSUME NEW q \in st.pending, NEW c \in Near(q, provider, st.effective), NEW gap, NEW near,
             LinkNearest(provider, st) = LinkOne(gap, c, q, near, provider, st)
      PROVE  LinksOne(LinkNearest(provider, st), pv, cv, said)
  <2> DEFINE effective == st.effective
  <2>1. q \in DOMAIN provider /\ c \in DOMAIN canonical
    BY DEF IsLinked, Near
  <2>2. c \in Near(q, provider, effective) /\ IsVoiced(effective, cv, said)
    BY DEF LinksOne
  <2> HIDE DEF effective
  <2>3. pv[q] = cv[c]
    BY <2>1, <2>2, NearIsOne
  <2>4. LinksOne(LinkOne(gap, c, q, near, provider, st), pv, cv, said)
    BY <2>1, <2>3, LinkIsOne
  <2> QED
    BY <1>2, <2>4
<1> QED
  BY <1>1, <1>2, NearestIs

LEMMA GapsAreOne ==
    ASSUME NEW said, IsTalk(said), NEW canonical, NEW provider, IsFiniteSet(DOMAIN provider), NEW pv,
           IsVoiced(provider, pv, said), NEW cv, NEW links, NEW st,
           IsLinked(st, canonical, provider, links), LinksOne(st, pv, cv, said)
    PROVE  LinksOne(LinkGaps(st, provider), pv, cv, said)
<1> DEFINE n == Cardinality(st.pending)
           L == [k \in 1 .. n |-> k]
           T(run) == {k \in 0 .. n : /\ IsLinked(run[k], canonical, provider, links)
                                     /\ LinksOne(run[k], pv, cv, said)}
<1>1. n \in Nat
  <2>1. st.pending \subseteq DOMAIN provider
    BY DEF IsLinked
  <2> QED
    BY <2>1, FS_Subset, FS_CardinalityType
<1>2. LinkGaps(st, provider) = GapLoop!Fold(provider, st, L)
  BY DEF LinkGaps, FoldLeft, MapThenFoldSet, GapLoop!Fold, Max, GapLoop!Top
<1> HIDE DEF n
<1>3. GapLoop!IsList(L) /\ Len(L) = n /\ \A k \in 1 .. n : L[k] = k
  <2>1. L \in Seq(Int) /\ Len(L) = n /\ \A k \in 1 .. n : L[k] = k
    BY <1>1
  <2> HIDE DEF L
  <2> QED
    BY <2>1 DEF GapLoop!IsList
<1> HIDE DEF L
<1>4. PICK run : GapLoop!IsRun(run, provider, st, L) /\ run[n] = GapLoop!Fold(provider, st, L)
  BY <1>3, GapLoop!FoldRuns
<1>5. run[0] = st /\ \A k \in 1 .. n : run[k] = LinkNearest(provider, run[k - 1])
  BY <1>3, <1>4 DEF GapLoop!IsRun
<1>6. 0 \in T(run)
  BY <1>1, <1>5
<1>7. ASSUME NEW k \in 1 .. n, k - 1 \in T(run) PROVE k \in T(run)
  <2> DEFINE r == run[k - 1]
  <2>1. IsLinked(r, canonical, provider, links) /\ LinksOne(r, pv, cv, said)
    BY <1>7
  <2>2. run[k] = LinkNearest(provider, r) /\ k \in 0 .. n
    BY <1>5
  <2> HIDE DEF r
  <2>3. IsLinked(LinkNearest(provider, r), canonical, provider, links)
    BY <2>1, NearestKeeps
  <2>4. LinksOne(LinkNearest(provider, r), pv, cv, said)
    BY <2>1, NearestIsOne
  <2> QED
    BY <2>2, <2>3, <2>4
<1>8. n \in T(run)
  <2> HIDE DEF T
  <2> QED
    BY <1>1, <1>6, <1>7, GapLoop!Induct
<1> QED
  BY <1>2, <1>4, <1>8

\* What a window hears is linked to a label of the same voice.
LEMMA MatchIsOne ==
    ASSUME NEW said, IsTalk(said),
           NEW canonical, DOMAIN canonical \in SUBSET Int, IsFiniteSet(DOMAIN canonical),
           NEW cv, IsVoiced(canonical, cv, said),
           NEW provider, DOMAIN provider \in SUBSET Int, IsFiniteSet(DOMAIN provider),
           NEW pv, IsVoiced(provider, pv, said), NEW w \in Int \X Int,
           NEW q \in DOMAIN MatchWindow(canonical, provider, w).label
    PROVE  pv[q] = cv[MatchWindow(canonical, provider, w).label[q]]
<1>1. PICK st : /\ IsStart(st, canonical, provider, w)
                /\ MatchWindow(canonical, provider, w).label = LinkGaps(st, provider).matching
  BY MatchStarts
<1>2. ASSUME NEW r \in DOMAIN st.matching PROVE pv[r] = cv[st.matching[r]]
  <2> DEFINE c == st.matching[r]
             ls == Clip(canonical[c], w)
             rs == Clip(provider[r], w)
  <2>1. c \in DOMAIN canonical /\ r \in DOMAIN provider
    BY <1>1 DEF IsStart, IsLinked
  <2>2. Shared(ls, rs) > 0
    <3> DEFINE e == <<c, r>>
    <3>1. e \in DOMAIN WindowScores(canonical, provider, w) /\ e[1] = c /\ e[2] = r
      BY <1>1 DEF IsStart
    <3> HIDE DEF e, c
    <3> QED
      BY <3>1, ScoredInWindow
  <2> HIDE DEF c
  <2>3. /\ cv[c] \in DOMAIN said /\ canonical[c] \in Seq(said[cv[c]])
        /\ pv[r] \in DOMAIN said /\ provider[r] \in Seq(said[pv[r]])
    BY <2>1 DEF IsVoiced
  <2>4. ls \in Seq(said[cv[c]]) /\ rs \in Seq(said[pv[r]])
    BY <2>3, CutIsSaid
  <2>5. cv[c] = pv[r]
    BY <2>2, <2>3, <2>4, SharedIsOne
  <2> QED
    BY <2>5 DEF c
<1>3. LinksOne(st, pv, cv, said)
  BY <1>1, <1>2 DEF IsStart, LinksOne
<1>4. LinksOne(LinkGaps(st, provider), pv, cv, said)
  BY <1>1, <1>3, GapsAreOne DEF IsStart
<1> QED
  BY <1>1, <1>4 DEF LinksOne

-----------------------------------------------------------------------------
(* What apply_window keeps true of the session.                             *)

\* A candidate that can be promoted has been seen in two windows, and is capped.
Waiting ==
    {c \in [spans : Spans, seen : Nat, last : Int, from : SUBSET Int] :
        /\ IsFiniteSet(c.from) /\ c.last \in c.from
        /\ c.seen >= MinSnapshots => /\ Cardinality(c.from) >= MinSnapshots
                                     /\ Len(c.spans) <= talk.maxIntervals}

IsSession(s) ==
    /\ DOMAIN s = {"speakers", "confirmed", "candidates", "snapshot", "origin", "gone", "shown"}
    /\ \E n \in 0 .. talk.maxSpeakers : DOMAIN s.speakers = 1 .. n
    /\ \A l \in DOMAIN s.speakers : /\ s.speakers[l] \in Spans
                                    /\ Len(s.speakers[l]) <= talk.maxIntervals
    /\ s.candidates \in Seq(Waiting)
    /\ s.confirmed \subseteq DOMAIN s.speakers
    /\ DOMAIN s.snapshot \subseteq DOMAIN s.speakers
    /\ \A l \in DOMAIN s.origin : Cardinality(s.origin[l]) >= MinSnapshots

\* What a window brings to the session `old`.
IsHeard(w, old) ==
    /\ w.n \in Int
    /\ DOMAIN w.provider \subseteq 1 .. Clusters
    /\ \A q \in DOMAIN w.provider : w.provider[q] \in Spans /\ w.stable[q] \in Spans
    /\ DOMAIN w.match.label \subseteq DOMAIN w.provider
    /\ w.match.unmatched \subseteq DOMAIN w.provider
    /\ \A q \in DOMAIN w.match.label : w.match.label[q] \in DOMAIN old.speakers

IsLinkedTo(l, w) == \E q \in DOMAIN w.match.label : w.match.label[q] = l

\* A new speaker is made only if no confirmed one has fallen silent.
NobodySilent(old, w) ==
    \A l \in old.confirmed :
        old.speakers[l] # <<>> => \/ Window(w.n)[1] - LatestEnd(old.speakers[l]) <= Horizon
                                  \/ IsLinkedTo(l, w)

\* The session s while window w is applied to the session `old`.
IsStage(s, old, w) ==
    /\ IsSession(s)
    /\ DOMAIN old.speakers \subseteq DOMAIN s.speakers
    /\ old.confirmed \subseteq s.confirmed
    /\ \A l \in DOMAIN old.speakers : IsLinkedTo(l, w) \/ s.speakers[l] = old.speakers[l]
    /\ DOMAIN s.speakers # DOMAIN old.speakers => NobodySilent(old, w)

\* What a recording needs for its speakers to have speech: a candidate can hold what is
\* heard of one speaker in two windows.
HasRoom(t) ==
    \A n, m \in 1 .. t.windows :
        Cardinality(InWindow(t.turns, n)) + Cardinality(InWindow(t.turns, m)) <= t.maxIntervals

\* Speech that has been heard by the end of window n.
Past(n) == {x \in Int \X Int : x[1] < x[2] /\ x[2] <= WindowEnd(n)}

\* A candidate after window n. As long as it is heard once, it holds all that was heard.
IsCandidate(c, n) ==
    /\ c.last \in 1 .. n /\ c.seen >= 1
    /\ c.spans \in Seq(Past(c.last))
    /\ c.seen = 1 => Len(c.spans) <= Cardinality(InWindow(talk.turns, c.last))

\* A speaker so long silent before window n that nothing can be linked to it any more,
\* and a session in which no speaker can be made from window n on.
IsSilent(s, l, n) ==
    /\ s.speakers[l] # <<>> /\ l \notin DOMAIN s.snapshot
    /\ Window(n)[1] - LatestEnd(s.speakers[l]) > Horizon
IsClosed(s, n) ==
    \/ Cardinality(DOMAIN s.speakers) >= talk.maxSpeakers
    \/ \E l \in s.confirmed : IsSilent(s, l, n)

\* After window n all speakers have speech, and a candidate that has its evidence and is
\* still waiting waits for good.
HasSpeech(s, n) ==
    /\ \A l \in DOMAIN s.speakers : s.speakers[l] # <<>>
    /\ \A k \in DOMAIN s.candidates : /\ IsCandidate(s.candidates[k], n)
                                      /\ s.candidates[k].seen >= MinSnapshots => IsClosed(s, n)

\* The clusters of window n, of a recording with room.
IsClipped(provider, n) ==
    /\ HasRoom(talk) /\ n \in 1 .. talk.windows
    /\ \A q \in DOMAIN provider : /\ provider[q] \in Seq(Within(Window(n))) /\ provider[q] # <<>>
                                  /\ Len(provider[q]) <= Cardinality(InWindow(talk.turns, n))

\* A candidate while such a window is applied to the session `old`: one that has its
\* evidence got it in this window and has speech to commit, unless no speaker can be made.
IsReady(c, old, n) ==
    /\ IsCandidate(c, n)
    /\ c.seen >= MinSnapshots => \/ IsClosed(old, n)
                                 \/ c.last = n /\ Clip(c.spans, StablePart(n)) # <<>>

\* The session s in the meantime. Its reference has the speakers that are linked, and the
\* new ones, who have just spoken.
IsSpoken(s, old, w) ==
    /\ IsClipped(w.provider, w.n)
    /\ \A l \in old.confirmed : IsSilent(old, l, w.n) => ~IsLinkedTo(l, w)
    /\ \A l \in DOMAIN s.speakers : s.speakers[l] # <<>>
    /\ \A l \in DOMAIN s.snapshot :
          \/ IsLinkedTo(l, w)
          \/ \E i \in DOMAIN s.speakers[l] : s.speakers[l][i][2] > Window(w.n)[1]
    /\ \A k \in DOMAIN s.candidates : IsReady(s.candidates[k], old, w.n)

\* What window w brings to the session `old`, when ov gives the labels and pv the clusters
\* their voices: each cluster is of one voice, and so is a label with what is linked to it.
BringsVoices(w, old, ov, pv, said) ==
    /\ \A q \in DOMAIN w.provider : /\ pv[q] \in DOMAIN said
                                    /\ w.provider[q] \in Seq(said[pv[q]])
                                    /\ w.stable[q] \in Seq(said[pv[q]])
    /\ \A q \in DOMAIN w.match.label : pv[q] = ov[w.match.label[q]]

\* The session s in the meantime: speakers and candidates are of one voice each, and the
\* labels of before have the voices they had.
IsOf(s, l, x, said) ==
    /\ x \in DOMAIN said /\ s.speakers[l] \in Seq(said[x])
    /\ l \in DOMAIN s.snapshot => s.snapshot[l] \in Seq(said[x])
IsSaid(spans, said) == \E x \in DOMAIN said : spans \in Seq(said[x])
SpeaksAs(s, l, old, ov, said) ==
    \E x \in DOMAIN said : IsOf(s, l, x, said) /\ (l \in DOMAIN old.speakers => x = ov[l])

Sounds(s, old, ov, said) ==
    /\ \A l \in DOMAIN s.speakers : SpeaksAs(s, l, old, ov, said)
    /\ \A k \in DOMAIN s.candidates : IsSaid(s.candidates[k].spans, said)

\* The way from s to t keeps the voices apart.
KeepsVoices(s, t, old, w) ==
    \A said, ov, pv :
        IsTalk(said) /\ BringsVoices(w, old, ov, pv, said) /\ Sounds(s, old, ov, said) =>
            Sounds(t, old, ov, said)

LEMMA ThenKeeps ==
    ASSUME NEW r, NEW s, NEW t, NEW old, NEW w, KeepsVoices(r, s, old, w), KeepsVoices(s, t, old, w)
    PROVE  KeepsVoices(r, t, old, w)
BY DEF KeepsVoices

LEMMA Committed ==
    ASSUME talk \in Talks, NEW old, NEW w, IsHeard(w, old), NEW s, IsStage(s, old, w),
           NEW q \in DOMAIN w.match.label
    PROVE  LET t == Link(s, q, w)
           IN  /\ IsStage(t, old, w)
               /\ DOMAIN t.snapshot = {w.match.label[q]} \cup DOMAIN s.snapshot
               /\ DOMAIN t.speakers = DOMAIN s.speakers /\ t.candidates = s.candidates
               /\ \A l \in DOMAIN s.speakers :
                     /\ l # w.match.label[q] => t.speakers[l] = s.speakers[l]
                     /\ s.speakers[l] # <<>> => t.speakers[l] # <<>>
<1> DEFINE label == w.match.label[q]
           own == Extend(s.speakers, label, w.stable[q])
           new == [own EXCEPT ![label] = Newest(@)]
           snap == Extend(s.snapshot, label, w.provider[q])
           conf == IF w.stable[q] # <<>> /\ IsConfirmed(w.match, q)
                   THEN s.confirmed \cup {label} ELSE s.confirmed
           t == Link(s, q, w)
<1>1. t = [s EXCEPT !.speakers = new, !.snapshot = snap, !.confirmed = conf]
  BY DEF Link, Commit
<1>2. /\ label \in DOMAIN s.speakers /\ s.speakers[label] \in Spans /\ w.stable[q] \in Spans
      /\ label \in DOMAIN old.speakers
  BY DEF IsHeard, IsStage, IsSession
<1>3. /\ t.speakers = new /\ t.snapshot = snap /\ t.confirmed = conf
      /\ t.candidates = s.candidates /\ t.origin = s.origin /\ DOMAIN t = DOMAIN s
  BY <1>1 DEF IsStage, IsSession
<1>4. talk.maxIntervals \in Nat \ {0}
  BY LiveAssumption
<1> HIDE DEF t
<1>5. /\ DOMAIN snap = {label} \cup DOMAIN s.snapshot
      /\ s.confirmed \subseteq conf /\ conf \subseteq s.confirmed \cup {label}
  <2>1. DOMAIN snap = {label} \cup DOMAIN s.snapshot
    <3> HIDE DEF label
    <3> QED
      BY DEF Extend, Put
  <2> QED
    BY <2>1
<1>6. /\ DOMAIN own = DOMAIN s.speakers
      /\ own[label] \in Spans /\ \A l \in DOMAIN s.speakers : l # label => own[l] = s.speakers[l]
      /\ s.speakers[label] # <<>> => own[label] # <<>>
  <2>1. /\ DOMAIN own = {label} \cup DOMAIN s.speakers
        /\ own[label] = s.speakers[label] \o w.stable[q]
        /\ \A l \in DOMAIN s.speakers : l # label => own[l] = s.speakers[l]
    <3> HIDE DEF label
    <3> QED
      BY <1>2 DEF Extend
  <2>2. /\ s.speakers[label] \o w.stable[q] \in Spans
        /\ s.speakers[label] # <<>> => s.speakers[label] \o w.stable[q] # <<>>
    <3> DEFINE a == s.speakers[label]
               b == w.stable[q]
    <3> HIDE DEF a, b
    <3>1. a \in Seq(Int \X Int) /\ b \in Seq(Int \X Int)
      BY <1>2 DEF a, b, Spans
    <3>2. a \o b \in Seq(Int \X Int)
      BY <3>1
    <3>3. a # <<>> => a \o b # <<>>
      BY <3>1
    <3> QED
      BY <3>2, <3>3 DEF a, b, Spans
  <2> HIDE DEF own, label
  <2> QED
    BY <1>2, <2>1, <2>2
<1> HIDE DEF own, snap, conf
<1>7. /\ DOMAIN new = DOMAIN s.speakers
      /\ new[label] \in Spans /\ Len(new[label]) <= talk.maxIntervals
      /\ \A l \in DOMAIN s.speakers : /\ l # label => new[l] = s.speakers[l]
                                      /\ s.speakers[l] # <<>> => new[l] # <<>>
  <2>1. /\ Newest(own[label]) \in Spans /\ Len(Newest(own[label])) <= talk.maxIntervals
        /\ own[label] # <<>> => Newest(own[label]) # <<>>
    BY <1>4, <1>6, Capped DEF Spans
  <2>2. /\ DOMAIN new = DOMAIN own /\ new[label] = Newest(own[label])
        /\ \A l \in DOMAIN own : l # label => new[l] = own[l]
    <3> HIDE DEF label
    <3> QED
      BY <1>2, <1>6
  <2> HIDE DEF new, label
  <2> QED
    BY <1>6, <2>1, <2>2
<1> HIDE DEF new
<1>8. IsSession(t)
  <2> HIDE DEF label
  <2>1. IsSession(s)
    BY DEF IsStage
  <2>2. \A l \in DOMAIN t.speakers : /\ t.speakers[l] \in Spans
                                     /\ Len(t.speakers[l]) <= talk.maxIntervals
    BY <1>3, <1>7, <2>1 DEF IsSession
  <2> QED
    BY <1>2, <1>3, <1>5, <1>7, <2>1, <2>2 DEF IsSession
<1>9. IsStage(t, old, w)
  <2>1. IsLinkedTo(label, w)
    BY DEF IsLinkedTo
  <2> HIDE DEF label
  <2> QED
    BY <1>3, <1>5, <1>7, <1>8, <2>1 DEF IsStage
<1> QED
  BY <1>3, <1>5, <1>7, <1>9 DEF t, label

LEMMA SpeechCommitted ==
    ASSUME talk \in Talks, NEW old, NEW w, IsHeard(w, old), NEW s, IsStage(s, old, w),
           NEW q \in DOMAIN w.match.label, IsSpoken(s, old, w)
    PROVE  IsSpoken(Link(s, q, w), old, w)
<1> DEFINE label == w.match.label[q]
           t == Link(s, q, w)
<1>1. /\ DOMAIN t.snapshot = {label} \cup DOMAIN s.snapshot
      /\ DOMAIN t.speakers = DOMAIN s.speakers /\ t.candidates = s.candidates
      /\ \A l \in DOMAIN s.speakers : /\ l # label => t.speakers[l] = s.speakers[l]
                                      /\ s.speakers[l] # <<>> => t.speakers[l] # <<>>
  BY Committed
<1>2. IsLinkedTo(label, w) /\ DOMAIN s.snapshot \subseteq DOMAIN s.speakers
  BY DEF IsLinkedTo, IsStage, IsSession
<1> HIDE DEF t, label
<1>3. \A l \in DOMAIN t.speakers : t.speakers[l] # <<>>
  BY <1>1 DEF IsSpoken
<1>4. ASSUME NEW l \in DOMAIN t.snapshot
      PROVE  \/ IsLinkedTo(l, w)
             \/ \E i \in DOMAIN t.speakers[l] : t.speakers[l][i][2] > Window(w.n)[1]
  <2>1. CASE l = label
    BY <1>2, <2>1
  <2>2. CASE l # label
    <3>1. l \in DOMAIN s.snapshot /\ t.speakers[l] = s.speakers[l]
      BY <1>1, <1>2, <2>2
    <3> QED
      BY <3>1 DEF IsSpoken
  <2> QED
    BY <2>1, <2>2
<1>5. IsSpoken(t, old, w)
  BY <1>1, <1>3, <1>4 DEF IsSpoken
<1> QED
  BY <1>5 DEF t

\* What linking a cluster does to the speakers and to the reference: l gets the spans to
\* commit, `stable`, and all of them, `spans`.
IsExtended(s, t, l, stable, spans) ==
    /\ DOMAIN t.speakers = DOMAIN s.speakers /\ t.candidates = s.candidates
    /\ t.speakers[l] = Newest(s.speakers[l] \o stable)
    /\ t.snapshot[l] \in {spans, s.snapshot[l] \o spans}
    /\ l \notin DOMAIN s.snapshot => t.snapshot[l] = spans
    /\ \A k \in DOMAIN s.speakers \ {l} :
          /\ t.speakers[k] = s.speakers[k]
          /\ k \in DOMAIN t.snapshot <=> k \in DOMAIN s.snapshot
          /\ k \in DOMAIN s.snapshot => t.snapshot[k] = s.snapshot[k]

LEMMA CommitIs ==
    ASSUME NEW s, IsSession(s), NEW w, NEW q \in DOMAIN w.match.label,
           w.match.label[q] \in DOMAIN s.speakers
    PROVE  IsExtended(s, Link(s, q, w), w.match.label[q], w.stable[q], w.provider[q])
<1> DEFINE l == w.match.label[q]
           own == Extend(s.speakers, l, w.stable[q])
           new == [own EXCEPT ![l] = Newest(@)]
           snap == Extend(s.snapshot, l, w.provider[q])
           conf == IF w.stable[q] # <<>> /\ IsConfirmed(w.match, q)
                   THEN s.confirmed \cup {l} ELSE s.confirmed
           t == Link(s, q, w)
<1>1. t = [s EXCEPT !.speakers = new, !.snapshot = snap, !.confirmed = conf]
  BY DEF Link, Commit
<1>2. t.speakers = new /\ t.snapshot = snap /\ t.candidates = s.candidates
  BY <1>1 DEF IsSession
<1> HIDE DEF t
<1>3. l \in DOMAIN s.speakers
  OBVIOUS
<1> HIDE DEF l
<1>4. own = [s.speakers EXCEPT ![l] = @ \o w.stable[q]]
  BY <1>3 DEF Extend
<1> DEFINE a == s.speakers[l] \o w.stable[q]
           b == s.snapshot[l] \o w.provider[q]
<1>5. DOMAIN own = DOMAIN s.speakers /\ own[l] = a /\ \A k \in DOMAIN s.speakers \ {l} : own[k] = s.speakers[k]
  BY <1>3, <1>4
<1> HIDE DEF own, a
<1>6. /\ DOMAIN new = DOMAIN s.speakers /\ new[l] = Newest(a)
      /\ \A k \in DOMAIN s.speakers \ {l} : new[k] = s.speakers[k]
  BY <1>3, <1>5
<1>7. /\ DOMAIN snap = {l} \cup DOMAIN s.snapshot
      /\ l \in DOMAIN s.snapshot => snap[l] = b
      /\ l \notin DOMAIN s.snapshot => snap[l] = w.provider[q]
      /\ \A k \in DOMAIN s.snapshot \ {l} : snap[k] = s.snapshot[k]
  BY DEF Extend, Put
<1> HIDE DEF new, snap, b
<1>8. IsExtended(s, t, l, w.stable[q], w.provider[q])
  BY <1>2, <1>6, <1>7 DEF IsExtended, a, b
<1> QED
  BY <1>8 DEF t, l

LEMMA VoicesCommitted ==
    ASSUME talk \in Talks, NEW old, NEW w, IsHeard(w, old), NEW s, IsStage(s, old, w),
           NEW q \in DOMAIN w.match.label
    PROVE  KeepsVoices(s, Link(s, q, w), old, w)
<1> SUFFICES ASSUME NEW said, NEW ov, NEW pv, IsTalk(said), BringsVoices(w, old, ov, pv, said),
                    Sounds(s, old, ov, said)
             PROVE  Sounds(Link(s, q, w), old, ov, said)
  BY DEF KeepsVoices
<1> DEFINE t == Link(s, q, w)
           l == w.match.label[q]
           x == ov[l]
           a == s.speakers[l]
           b == w.stable[q]
           c == s.snapshot[l]
           d == w.provider[q]
<1>1. /\ IsSession(s) /\ l \in DOMAIN old.speakers /\ l \in DOMAIN s.speakers
      /\ q \in DOMAIN w.provider
  BY DEF IsStage, IsHeard
<1>2. x = pv[q] /\ x \in DOMAIN said /\ b \in Seq(said[x]) /\ d \in Seq(said[x])
  BY <1>1 DEF BringsVoices
<1>3. IsOf(s, l, x, said)
  BY <1>1 DEF Sounds, SpeaksAs
<1>4. IsExtended(s, t, l, b, d)
  BY <1>1, CommitIs
<1>5. a \in Seq(said[x]) /\ (l \in DOMAIN s.snapshot => c \in Seq(said[x]))
  BY <1>3 DEF IsOf
<1> HIDE DEF t, l, a, b, c, d, x
<1>6. /\ DOMAIN t.speakers = DOMAIN s.speakers /\ t.candidates = s.candidates
      /\ t.speakers[l] = Newest(a \o b) /\ t.snapshot[l] \in {d, c \o d}
      /\ l \notin DOMAIN s.snapshot => t.snapshot[l] = d
      /\ \A k \in DOMAIN s.speakers \ {l} :
            /\ t.speakers[k] = s.speakers[k]
            /\ k \in DOMAIN t.snapshot <=> k \in DOMAIN s.snapshot
            /\ k \in DOMAIN s.snapshot => t.snapshot[k] = s.snapshot[k]
  BY <1>4 DEF IsExtended, a, c
<1>7. a \o b \in Seq(said[x]) /\ (l \in DOMAIN s.snapshot => c \o d \in Seq(said[x]))
  BY <1>2, <1>5, Joined
<1>8. Newest(a \o b) \in Seq(said[x])
  BY <1>7, LiveAssumption, Capped
<1> DEFINE ab == Newest(a \o b)
           cd == c \o d
<1>9. /\ t.speakers[l] = ab /\ ab \in Seq(said[x])
      /\ t.snapshot[l] \in {d, cd} /\ d \in Seq(said[x])
      /\ l \in DOMAIN s.snapshot => cd \in Seq(said[x])
      /\ l \notin DOMAIN s.snapshot => t.snapshot[l] = d
  BY <1>2, <1>6, <1>7, <1>8
<1> HIDE DEF ab, cd
<1>10. SpeaksAs(t, l, old, ov, said)
  <2>1. IsOf(t, l, x, said)
    BY <1>2, <1>9 DEF IsOf
  <2> QED
    BY <1>2, <2>1 DEF SpeaksAs, x
<1>11. ASSUME NEW k \in DOMAIN s.speakers, k # l PROVE SpeaksAs(t, k, old, ov, said)
  <2>1. PICK y \in DOMAIN said : IsOf(s, k, y, said) /\ (k \in DOMAIN old.speakers => y = ov[k])
    BY DEF Sounds, SpeaksAs
  <2>2. IsOf(t, k, y, said)
    BY <1>6, <1>11, <2>1 DEF IsOf
  <2> QED
    BY <2>1, <2>2 DEF SpeaksAs
<1>12. Sounds(t, old, ov, said)
  BY <1>6, <1>10, <1>11 DEF Sounds
<1> QED
  BY <1>12 DEF t

\* After the loop over the clusters, all the labels they are linked to have a reference
\* for the next window.
LEMMA CommittedAll ==
    ASSUME talk \in Talks, NEW old, NEW w, IsHeard(w, old), NEW s, IsStage(s, old, w)
    PROVE  LET t == CommitAll(s, w)
           IN  /\ IsStage(t, old, w)
               /\ \A q \in DOMAIN w.match.label : w.match.label[q] \in DOMAIN t.snapshot
               /\ IsSpoken(s, old, w) => IsSpoken(t, old, w)
               /\ KeepsVoices(s, t, old, w)
<1> DEFINE L == [q \in 1 .. Clusters |-> q]
           Caught(t, k) == \A q \in DOMAIN w.match.label :
                               q <= k => w.match.label[q] \in DOMAIN t.snapshot
           Speaks(t) == IsSpoken(s, old, w) => IsSpoken(t, old, w)
           T(run) == {k \in 0 .. Clusters : /\ IsStage(run[k], old, w) /\ Caught(run[k], k)
                                            /\ Speaks(run[k]) /\ KeepsVoices(s, run[k], old, w)}
<1>1. Clusters \in Nat
  BY LiveAssumption
<1>2. CommitAll(s, w) = LinkLoop!Fold(w, s, L)
  BY DEF CommitAll, FoldLeft, MapThenFoldSet, LinkLoop!Fold, Max, LinkLoop!Top
<1>3. LinkLoop!IsList(L) /\ Len(L) = Clusters /\ \A k \in 1 .. Clusters : L[k] = k
  <2>1. L \in Seq(Int) /\ Len(L) = Clusters /\ \A k \in 1 .. Clusters : L[k] = k
    BY <1>1
  <2> HIDE DEF L
  <2> QED
    BY <2>1 DEF LinkLoop!IsList
<1> HIDE DEF L
<1>4. PICK run : LinkLoop!IsRun(run, w, s, L) /\ run[Clusters] = LinkLoop!Fold(w, s, L)
  BY <1>3, LinkLoop!FoldRuns
<1>5. run[0] = s /\ \A k \in 1 .. Clusters : run[k] = Link(run[k - 1], k, w)
  BY <1>3, <1>4 DEF LinkLoop!IsRun
<1>6. \A q \in DOMAIN w.match.label : q \in 1 .. Clusters
  BY DEF IsHeard
<1>7. 0 \in T(run)
  <2>1. KeepsVoices(s, s, old, w)
    BY DEF KeepsVoices
  <2> QED
    BY <1>1, <1>5, <1>6, <2>1
<1>8. ASSUME NEW k \in 1 .. Clusters, k - 1 \in T(run) PROVE k \in T(run)
  <2>1. /\ IsStage(run[k - 1], old, w) /\ Caught(run[k - 1], k - 1)
        /\ Speaks(run[k - 1]) /\ KeepsVoices(s, run[k - 1], old, w)
    BY <1>8
  <2>2. CASE k \in DOMAIN w.match.label
    <3>1. IsStage(Link(run[k - 1], k, w), old, w)
      BY <2>1, <2>2, Committed
    <3>2. DOMAIN Link(run[k - 1], k, w).snapshot = {w.match.label[k]} \cup DOMAIN run[k - 1].snapshot
      BY <2>1, <2>2, Committed
    <3>3. Caught(Link(run[k - 1], k, w), k)
      <4>1. \A q \in DOMAIN w.match.label : q <= k => q <= k - 1 \/ q = k
        BY <1>1, <1>6
      <4> QED
        BY <2>1, <3>2, <4>1
    <3>4. Speaks(Link(run[k - 1], k, w))
      BY <2>1, <2>2, SpeechCommitted
    <3>5. KeepsVoices(s, Link(run[k - 1], k, w), old, w)
      BY <2>1, <2>2, VoicesCommitted, ThenKeeps
    <3> QED
      BY <1>5, <3>1, <3>3, <3>4, <3>5
  <2>3. CASE k \notin DOMAIN w.match.label
    <3>1. run[k] = run[k - 1]
      BY <1>5, <2>3 DEF Link
    <3>2. \A q \in DOMAIN w.match.label : q <= k => q <= k - 1
      BY <1>1, <1>6, <2>3
    <3> QED
      BY <2>1, <3>1, <3>2
  <2> QED
    BY <2>2, <2>3
<1>9. Clusters \in T(run)
  <2> HIDE DEF T
  <2> QED
    BY <1>1, <1>7, <1>8, LinkLoop!Induct
<1>10. /\ IsStage(run[Clusters], old, w) /\ Caught(run[Clusters], Clusters)
       /\ Speaks(run[Clusters]) /\ KeepsVoices(s, run[Clusters], old, w)
  BY <1>9
<1> QED
  BY <1>2, <1>4, <1>6, <1>10

LEMMA Replaced ==
    ASSUME NEW S, NEW list \in Seq(S), NEW k \in DOMAIN list, NEW x \in S
    PROVE  [list EXCEPT ![k] = x] \in Seq(S)
OBVIOUS

LEMMA AtLeastTwo ==
    ASSUME NEW S, IsFiniteSet(S), NEW a \in S, NEW b \in S, a # b
    PROVE  Cardinality(S) >= 2
<1>1. IsFiniteSet(S \ {a}) /\ Cardinality(S \ {a}) = Cardinality(S) - 1
  BY FS_RemoveElement
<1>2. Cardinality(S) \in Nat /\ Cardinality(S \ {a}) \in Nat
  BY <1>1, FS_CardinalityType
<1>3. Cardinality(S \ {a}) # 0
  BY <1>1, FS_EmptySet
<1> QED
  BY <1>1, <1>2, <1>3

\* A candidate that is heard again has evidence from two windows.
HeardMore(c, spans, n) ==
    [spans |-> Newest(c.spans \o spans), seen |-> c.seen + 1, last |-> n, from |-> c.from \cup {n}]

LEMMA HeardAgain ==
    ASSUME talk \in Talks, NEW c \in Waiting, NEW spans \in Spans, NEW n \in Int, MayAdd(c, n)
    PROVE  HeardMore(c, spans, n) \in Waiting
<1> DEFINE d == HeardMore(c, spans, n)
<1>1. /\ c.spans \in Spans /\ c.seen \in Nat /\ c.last \in Int /\ c.from \in SUBSET Int
      /\ IsFiniteSet(c.from) /\ c.last \in c.from /\ c.last # n
  BY DEF Waiting, MayAdd
<1>2. c.spans \o spans \in Spans
  BY <1>1 DEF Spans
<1>3. /\ Newest(c.spans \o spans) \in Spans
      /\ Len(Newest(c.spans \o spans)) <= talk.maxIntervals
  BY <1>2, LiveAssumption, Capped DEF Spans
<1>4. IsFiniteSet(c.from \cup {n})
  BY <1>1, FS_AddElement
<1>5. Cardinality(c.from \cup {n}) >= 2
  BY <1>1, <1>4, AtLeastTwo
<1>6. /\ d.spans \in Spans /\ d.seen \in Nat /\ d.last \in Int /\ d.from \in SUBSET Int
      /\ Len(d.spans) <= talk.maxIntervals
      /\ IsFiniteSet(d.from) /\ d.last \in d.from /\ Cardinality(d.from) >= MinSnapshots
      /\ d = [spans |-> d.spans, seen |-> d.seen, last |-> d.last, from |-> d.from]
  BY <1>1, <1>3, <1>4, <1>5 DEF MinSnapshots, HeardMore
<1> HIDE DEF d
<1>7. d \in Waiting
  BY <1>6 DEF Waiting
<1> QED
  BY <1>7 DEF d

HeardOnce(spans, n) == [spans |-> spans, seen |-> 1, last |-> n, from |-> {n}]

LEMMA HeardFirst ==
    ASSUME NEW spans \in Spans, NEW n \in Int
    PROVE  HeardOnce(spans, n) \in Waiting
<1> DEFINE d == HeardOnce(spans, n)
<1>1. IsFiniteSet({n})
  BY FS_Singleton
<1>2. /\ d.spans \in Spans /\ d.seen = 1 /\ d.last \in Int /\ d.from = {n} /\ d.last = n
      /\ d = [spans |-> d.spans, seen |-> d.seen, last |-> d.last, from |-> d.from]
  BY DEF HeardOnce
<1> HIDE DEF d
<1>3. ~(d.seen >= MinSnapshots)
  BY <1>2 DEF MinSnapshots
<1>4. d \in [spans : Spans, seen : Nat, last : Int, from : SUBSET Int]
  BY <1>2
<1>5. IsFiniteSet(d.from) /\ d.last \in d.from
  BY <1>1, <1>2
<1>6. d \in Waiting
  BY <1>3, <1>4, <1>5 DEF Waiting
<1> QED
  BY <1>6 DEF d

\* What becomes of a cluster that is linked to nobody.
LEMMA WaitIs ==
    ASSUME NEW s, s.candidates \in Seq(Waiting), NEW q, NEW w
    PROVE  \/ Wait(s, q, w) = s
           \/ /\ q \in w.match.unmatched
              /\ Wait(s, q, w) =
                    [s EXCEPT !.candidates = Append(s.candidates, HeardOnce(w.provider[q], w.n))]
           \/ /\ q \in w.match.unmatched
              /\ \E k \in DOMAIN s.candidates :
                    LET c == s.candidates[k]
                    IN  /\ MayAdd(c, w.n) /\ Continuous(c.spans, w.provider[q])
                        /\ Wait(s, q, w) =
                              [s EXCEPT !.candidates =
                                  [s.candidates EXCEPT ![k] = HeardMore(c, w.provider[q], w.n)]]
<1> DEFINE spans == w.provider[q]
           same == {k \in DOMAIN s.candidates : /\ MayAdd(s.candidates[k], w.n)
                                                /\ Continuous(s.candidates[k].spans, spans)}
           k == Min(same)
           c == s.candidates[k]
<1>1. CASE q \notin w.match.unmatched
  BY <1>1 DEF Wait
<1>2. CASE q \in w.match.unmatched /\ same = {}
  BY <1>2 DEF Wait, Register, HeardOnce
<1>3. CASE q \in w.match.unmatched /\ same # {}
  <2>1. Wait(s, q, w) =
            [s EXCEPT !.candidates = [s.candidates EXCEPT ![k] = HeardMore(c, spans, w.n)]]
    <3> DEFINE again == [spans |-> Newest(c.spans \o spans), seen |-> c.seen + 1, last |-> w.n,
                         from |-> c.from \cup {w.n}]
    <3>1. Wait(s, q, w) = [s EXCEPT !.candidates[k] = again]
      BY <1>3 DEF Wait, Register
    <3>2. again = HeardMore(c, spans, w.n)
      BY DEF HeardMore
    <3> HIDE DEF again, k, c, same
    <3> QED
      BY <3>1, <3>2
  <2>2. k \in same
    <3>1. same \in SUBSET Nat
      OBVIOUS
    <3> HIDE DEF same
    <3> QED
      BY <1>3, <3>1, LeastIn
  <2>3. /\ k \in DOMAIN s.candidates
        /\ MayAdd(s.candidates[k], w.n) /\ Continuous(s.candidates[k].spans, spans)
    BY <2>2
  <2> HIDE DEF k, same
  <2> QED
    BY <1>3, <2>1, <2>3
<1> QED
  BY <1>1, <1>2, <1>3

LEMMA Registered ==
    ASSUME talk \in Talks, NEW old, NEW w, IsHeard(w, old), NEW s, IsStage(s, old, w), NEW q
    PROVE  IsStage(Wait(s, q, w), old, w) /\ Wait(s, q, w).snapshot = s.snapshot
<1>1. ASSUME NEW list \in Seq(Waiting), Wait(s, q, w) = [s EXCEPT !.candidates = list]
      PROVE  IsStage(Wait(s, q, w), old, w) /\ Wait(s, q, w).snapshot = s.snapshot
  <2> DEFINE t == Wait(s, q, w)
  <2>1. /\ t.speakers = s.speakers /\ t.snapshot = s.snapshot /\ t.confirmed = s.confirmed
        /\ t.candidates = list /\ t.origin = s.origin /\ DOMAIN t = DOMAIN s
    BY <1>1 DEF IsStage, IsSession
  <2> HIDE DEF t
  <2>2. IsSession(t)
    BY <2>1 DEF IsStage, IsSession
  <2>3. IsStage(t, old, w)
    BY <2>1, <2>2 DEF IsStage
  <2> QED
    BY <2>1, <2>3 DEF t
<1>2. s.candidates \in Seq(Waiting) /\ w.n \in Int
  BY DEF IsStage, IsSession, IsHeard
<1>3. q \in w.match.unmatched => w.provider[q] \in Spans
  BY DEF IsHeard
<1> DEFINE x == w.provider[q]
           one == Append(s.candidates, HeardOnce(x, w.n))
<1>4. ASSUME x \in Spans PROVE one \in Seq(Waiting)
  <2>1. HeardOnce(x, w.n) \in Waiting
    BY <1>2, <1>4, HeardFirst
  <2> HIDE DEF x
  <2> QED
    BY <1>2, <2>1
<1>5. ASSUME x \in Spans, NEW k \in DOMAIN s.candidates, MayAdd(s.candidates[k], w.n)
      PROVE  [s.candidates EXCEPT ![k] = HeardMore(s.candidates[k], x, w.n)] \in Seq(Waiting)
  <2> DEFINE c == s.candidates[k]
             d == HeardMore(c, x, w.n)
             list == s.candidates
  <2>1. c \in Waiting
    BY <1>2
  <2> HIDE DEF c, x
  <2>2. d \in Waiting
    BY <1>2, <1>5, <2>1, HeardAgain DEF c
  <2>3. list \in Seq(Waiting) /\ k \in DOMAIN list
    BY <1>2
  <2> HIDE DEF d, list
  <2>4. [list EXCEPT ![k] = d] \in Seq(Waiting)
    BY <2>2, <2>3, Replaced
  <2> QED
    BY <2>4 DEF list, d, c
<1>6. CASE Wait(s, q, w) = s
  BY <1>6
<1>7. CASE q \in w.match.unmatched /\ Wait(s, q, w) = [s EXCEPT !.candidates = one]
  BY <1>1, <1>3, <1>4, <1>7
<1>8. ASSUME q \in w.match.unmatched, NEW k \in DOMAIN s.candidates, MayAdd(s.candidates[k], w.n),
             Wait(s, q, w) = [s EXCEPT !.candidates =
                                 [s.candidates EXCEPT ![k] = HeardMore(s.candidates[k], x, w.n)]]
      PROVE  IsStage(Wait(s, q, w), old, w) /\ Wait(s, q, w).snapshot = s.snapshot
  BY <1>1, <1>3, <1>5, <1>8
<1> QED
  BY <1>2, <1>6, <1>7, <1>8, WaitIs

\* The end of a window, and of what it commits.
LEMMA WindowIs ==
    ASSUME NEW n \in Nat \ {0}
    PROVE  /\ WindowEnd(n) = 40 * n + 40 /\ Window(n)[2] = WindowEnd(n)
           /\ Window(n)[1] \in Int /\ StablePart(n)[1] = Window(n)[1] /\ StablePart(n)[2] = 40 * n
           /\ 0 <= Window(n)[1] /\ Window(n)[1] <= 40 * n - 40 /\ 40 * n - 80 <= Window(n)[1]
           /\ Window(n)[1] \in {0, 40 * n - 80}
<1> DEFINE e == WindowEnd(n)
           x == e - Lookback
           a == Max({0, x})
<1>1. e = 40 * n + 40
  BY DEF WindowEnd, Step
<1>2. /\ Window(n) = <<a, e>> /\ StablePart(n) = <<Window(n)[1], e - Step>>
  BY DEF Window, StablePart
<1> HIDE DEF e
<1>3. x = 40 * n - 80 /\ x \in Int
  BY <1>1 DEF Lookback
<1> HIDE DEF x
<1>4. a \in {0, x} /\ a >= 0 /\ a >= x
  <2>1. 0 \in Int
    OBVIOUS
  <2> QED
    BY <1>3, <2>1, OfTwo
<1> HIDE DEF a
<1>5. a \in Int /\ 0 <= a /\ a <= 40 * n - 40 /\ 40 * n - 80 <= a /\ a \in {0, 40 * n - 80}
  BY <1>3, <1>4
<1>6. e - Step = 40 * n
  BY <1>1 DEF Step
<1>7. Window(n)[1] = a /\ Window(n)[2] = e /\ StablePart(n)[1] = a /\ StablePart(n)[2] = e - Step
  BY <1>2
<1> QED
  BY <1>1, <1>5, <1>6, <1>7 DEF e

\* A candidate of an earlier window that is heard again reaches into what the window
\* commits: it ends where the last four seconds begin, and the pause before the new
\* speech is shorter than these.
LEMMA Reaches ==
    ASSUME NEW n \in Nat \ {0}, NEW c, IsCandidate(c, n), c.last # n,
           NEW heard \in Seq(Within(Window(n))), Continuous(c.spans, heard)
    PROVE  Clip(c.spans \o heard, StablePart(n)) # <<>>
<1> DEFINE before == c.spans
           all == before \o heard
           a == Window(n)[1]
           part == StablePart(n)
<1>1. /\ WindowEnd(n) = 40 * n + 40
      /\ a \in Int /\ part[1] = a /\ part[2] = 40 * n
      /\ 0 <= a /\ a <= 40 * n - 40 /\ 40 * n - 80 <= a
  BY WindowIs
<1>2. part \in Int \X Int
  BY WindowsAre
<1>3. before \in Seq(Past(c.last)) /\ c.last \in 1 .. n /\ c.last <= n - 1
  BY DEF IsCandidate
<1>4. WindowEnd(c.last) <= 40 * n /\ WindowEnd(c.last) \in Int
  <2>1. c.last \in Nat \ {0}
    BY <1>3
  <2>2. WindowEnd(c.last) = 40 * c.last + 40
    BY <2>1, WindowIs
  <2> QED
    BY <1>3, <2>1, <2>2
<1>5. /\ \A i \in DOMAIN before : before[i] \in Past(c.last)
      /\ \A j \in DOMAIN heard : heard[j] \in Within(Window(n))
  BY <1>3
<1>6. PICK i \in DOMAIN before, j \in DOMAIN heard : Gap(before[i], heard[j]) <= Tolerance
  BY DEF Continuous
<1> DEFINE x == before[i]
           y == heard[j]
<1>7. /\ x \in Int \X Int /\ x[1] < x[2] /\ x[2] <= 40 * n
      /\ y \in Int \X Int /\ y[1] < y[2] /\ a <= y[1]
  <2>1. x \in Past(c.last) /\ y \in Within(Window(n))
    BY <1>5
  <2> HIDE DEF x, y
  <2>2. x \in Int \X Int /\ x[1] < x[2] /\ x[2] <= WindowEnd(c.last)
    BY <2>1 DEF Past
  <2>3. y \in Int \X Int /\ y[1] < y[2] /\ a <= y[1]
    BY <2>1 DEF Within
  <2> QED
    BY <1>4, <2>2, <2>3
<1>8. /\ all \in Spans
      /\ \E k \in DOMAIN all : all[k] = x
      /\ \E k \in DOMAIN all : all[k] = y
  <2>1. Past(c.last) \subseteq Int \X Int /\ Within(Window(n)) \subseteq Int \X Int
    BY DEF Past, Within
  <2>2. before \in Seq(Int \X Int) /\ heard \in Seq(Int \X Int)
    <3> HIDE DEF before
    <3> QED
      BY <1>3, <2>1, Widened
  <2>3. all \in Seq(Int \X Int)
    <3> HIDE DEF before
    <3> QED
      BY <2>2, Joined
  <2>4. i \in DOMAIN all /\ all[i] = before[i]
    <3> HIDE DEF before
    <3> QED
      BY <2>2, Joined
  <2>5. IsAmong(heard[j], all)
    <3> HIDE DEF before
    <3> QED
      BY <2>2, JoinedAfter
  <2> QED
    BY <2>3, <2>4, <2>5 DEF Spans, IsAmong
<1>9. y[1] - x[2] <= 20
  <2> HIDE DEF x, y
  <2>1. Gap(x, y) <= 20
    BY <1>6 DEF x, y, Tolerance
  <2> QED
    BY <1>7, <2>1, GapIs
<1> HIDE DEF before, all, part, a, x, y
<1>10. \E z \in {x, y} : Overlap(z, part) > 0
  <2>1. CASE y[1] < 40 * n
    <3>1. y[1] \in Int /\ y[2] \in Int /\ a < 40 * n /\ a < y[2]
      BY <1>1, <1>7
    <3>2. Overlap(y, part) > 0
      BY <1>1, <1>2, <1>7, <2>1, <3>1, OverlapIs
    <3> QED
      BY <3>2
  <2>2. CASE ~(y[1] < 40 * n)
    <3>1. /\ x[1] \in Int /\ x[2] \in Int /\ y[1] \in Int
          /\ x[2] >= 40 * n - 20
      BY <1>7, <1>9, <2>2
    <3>2. a < 40 * n /\ x[1] < 40 * n /\ a < x[2]
      BY <1>1, <1>7, <3>1
    <3>3. Overlap(x, part) > 0
      BY <1>1, <1>2, <1>7, <3>2, OverlapIs
    <3> QED
      BY <3>3
  <2> QED
    BY <2>1, <2>2
<1>11. \E k \in DOMAIN all : Overlap(all[k], part) > 0
  BY <1>8, <1>10
<1>12. Clip(all, part) # <<>>
  BY <1>2, <1>8, <1>11, SomeLeft
<1> QED
  BY <1>12 DEF all, before, part

LEMMA TurnsCount ==
    ASSUME talk \in Talks, NEW n
    PROVE  Cardinality(InWindow(talk.turns, n)) \in Nat
<1> DEFINE m == Len(talk.turns)
<1>1. m \in Nat /\ DOMAIN talk.turns = 1 .. m
  BY LiveAssumption
<1> HIDE DEF m
<1>2. InWindow(talk.turns, n) \in SUBSET (1 .. m) /\ IsFiniteSet(1 .. m)
  BY <1>1, FS_Interval DEF InWindow
<1> QED
  BY <1>2, FS_Subset, FS_CardinalityType

LEMMA WithinIsPast ==
    ASSUME NEW n \in Nat \ {0}
    PROVE  Within(Window(n)) \subseteq Past(n)
<1>1. Window(n)[2] = WindowEnd(n)
  BY WindowIs
<1> QED
  BY <1>1 DEF Within, Past

\* What a window hears of a stranger makes a candidate, and a candidate that is heard
\* again in a later window is ready to be promoted.
LEMMA ReadyOnce ==
    ASSUME talk \in Talks, NEW provider, NEW n, IsClipped(provider, n),
           NEW q \in DOMAIN provider, NEW old
    PROVE  IsReady(HeardOnce(provider[q], n), old, n)
<1> DEFINE x == provider[q]
           d == HeardOnce(x, n)
<1>1. n \in Nat \ {0} /\ n \in 1 .. n
  BY LiveAssumption DEF IsClipped
<1>2. x \in Seq(Within(Window(n))) /\ Len(x) <= Cardinality(InWindow(talk.turns, n))
  BY DEF IsClipped
<1>3. Within(Window(n)) \subseteq Past(n)
  BY <1>1, WithinIsPast
<1> HIDE DEF x
<1>4. x \in Seq(Past(n))
  BY <1>2, <1>3, Widened
<1>5. d.spans = x /\ d.seen = 1 /\ d.last = n
  BY DEF HeardOnce
<1> HIDE DEF d
<1>6. IsCandidate(d, n) /\ ~(d.seen >= MinSnapshots)
  BY <1>1, <1>2, <1>4, <1>5 DEF IsCandidate, MinSnapshots
<1>7. IsReady(d, old, n)
  BY <1>6 DEF IsReady
<1> QED
  BY <1>7 DEF d, x

LEMMA ReadyAgain ==
    ASSUME talk \in Talks, NEW provider, NEW n, IsClipped(provider, n), NEW q \in DOMAIN provider,
           NEW old, NEW c \in Waiting, IsReady(c, old, n), MayAdd(c, n), Continuous(c.spans, provider[q])
    PROVE  IsReady(HeardMore(c, provider[q], n), old, n)
<1> DEFINE x == provider[q]
           d == HeardMore(c, x, n)
           b == c.spans
           all == b \o x
<1>1. n \in Nat \ {0} /\ n \in 1 .. n /\ n \in 1 .. talk.windows /\ HasRoom(talk)
  BY LiveAssumption DEF IsClipped
<1>2. x \in Seq(Within(Window(n))) /\ Len(x) <= Cardinality(InWindow(talk.turns, n))
  BY DEF IsClipped
<1>3. /\ IsCandidate(c, n) /\ c.last \in 1 .. n /\ c.last # n
      /\ b \in Seq(Past(c.last)) /\ c.seen \in Nat /\ c.seen >= 1
      /\ c.seen = 1 => Len(b) <= Cardinality(InWindow(talk.turns, c.last))
  BY DEF IsReady, IsCandidate, MayAdd, Waiting
<1>4. Continuous(b, x)
  OBVIOUS
<1>5. Past(c.last) \subseteq Past(n) /\ Within(Window(n)) \subseteq Past(n)
  <2>1. c.last \in Nat \ {0} /\ c.last <= n
    BY <1>1, <1>3
  <2>2. WindowEnd(c.last) = 40 * c.last + 40 /\ WindowEnd(n) = 40 * n + 40
    BY <1>1, <2>1, WindowIs
  <2>3. WindowEnd(c.last) <= WindowEnd(n) /\ WindowEnd(c.last) \in Int /\ WindowEnd(n) \in Int
    BY <1>1, <2>1, <2>2
  <2> QED
    BY <1>1, <2>3, WithinIsPast DEF Past
<1>6. d.spans = Newest(all) /\ d.seen = c.seen + 1 /\ d.last = n
  BY DEF HeardMore
<1> HIDE DEF d, x, b
<1>7. b \in Seq(Past(n)) /\ x \in Seq(Past(n))
  BY <1>2, <1>3, <1>5, Widened
<1>8. all \in Seq(Past(n)) /\ Len(all) = Len(b) + Len(x)
  BY <1>7, Joined
<1> HIDE DEF all
<1>9. talk.maxIntervals \in Nat \ {0}
  BY LiveAssumption
<1>10. /\ Newest(all) \in Seq(Past(n))
       /\ Len(all) <= talk.maxIntervals => Newest(all) = all
  BY <1>8, <1>9, Capped
<1>11. IsCandidate(d, n)
  BY <1>1, <1>3, <1>6, <1>10 DEF IsCandidate
<1>12. ASSUME ~IsClosed(old, n) PROVE Clip(d.spans, StablePart(n)) # <<>>
  <2>1. c.seen = 1
    BY <1>3, <1>12 DEF IsReady, MinSnapshots
  <2> DEFINE m == c.last
             u == Cardinality(InWindow(talk.turns, m))
             v == Cardinality(InWindow(talk.turns, n))
  <2>2. m \in 1 .. talk.windows
    BY <1>1, <1>3, LiveAssumption
  <2>3. u + v <= talk.maxIntervals
    BY <1>1, <2>2 DEF HasRoom
  <2>4. u \in Nat /\ v \in Nat
    BY TurnsCount
  <2>5. Len(b) <= u /\ Len(x) <= v /\ Len(b) \in Nat /\ Len(x) \in Nat
    BY <1>2, <1>3, <1>7, <2>1
  <2> HIDE DEF u, v
  <2>6. Len(all) <= talk.maxIntervals
    BY <1>8, <1>9, <2>3, <2>4, <2>5
  <2>7. d.spans = c.spans \o x
    BY <1>6, <1>10, <2>6 DEF all, b
  <2>8. Continuous(c.spans, x)
    BY <1>4 DEF b
  <2>9. Clip(c.spans \o x, StablePart(n)) # <<>>
    BY <1>1, <1>2, <1>3, <2>8, Reaches
  <2> QED
    BY <2>7, <2>9
<1>13. IsReady(d, old, n)
  BY <1>6, <1>11, <1>12 DEF IsReady
<1> QED
  BY <1>13 DEF d, x

LEMMA SpeechRegistered ==
    ASSUME talk \in Talks, NEW old, NEW w, IsHeard(w, old), NEW s, IsStage(s, old, w), NEW q,
           IsSpoken(s, old, w)
    PROVE  IsSpoken(Wait(s, q, w), old, w)
<1> DEFINE list == s.candidates
           n == w.n
           x == w.provider[q]
<1>1. /\ list \in Seq(Waiting)
      /\ DOMAIN s = {"speakers", "confirmed", "candidates", "snapshot", "origin", "gone", "shown"}
  BY DEF IsStage, IsSession
<1>2. IsClipped(w.provider, n) /\ \A k \in DOMAIN list : IsReady(list[k], old, n)
  BY DEF IsSpoken
<1>3. ASSUME NEW new, Wait(s, q, w) = [s EXCEPT !.candidates = new],
             \A k \in DOMAIN new : IsReady(new[k], old, n)
      PROVE  IsSpoken(Wait(s, q, w), old, w)
  <2> DEFINE t == Wait(s, q, w)
  <2>1. t.speakers = s.speakers /\ t.snapshot = s.snapshot /\ t.candidates = new
    BY <1>1, <1>3
  <2> HIDE DEF t
  <2>2. IsSpoken(t, old, w)
    BY <1>3, <2>1 DEF IsSpoken
  <2> QED
    BY <2>2 DEF t
<1> HIDE DEF n
<1>4. CASE Wait(s, q, w) = s
  BY <1>4
<1>5. CASE /\ q \in w.match.unmatched
           /\ Wait(s, q, w) = [s EXCEPT !.candidates = Append(list, HeardOnce(x, w.n))]
  <2> DEFINE d == HeardOnce(x, w.n)
             new == Append(list, d)
  <2>1. IsReady(d, old, n)
    <3>1. q \in DOMAIN w.provider
      BY <1>5 DEF IsHeard
    <3> QED
      BY <1>2, <3>1, ReadyOnce DEF n
  <2> HIDE DEF d
  <2>2. \A k \in DOMAIN new : IsReady(new[k], old, n)
    <3> HIDE DEF list
    <3>1. \A k \in DOMAIN new : (k \in DOMAIN list /\ new[k] = list[k]) \/ new[k] = d
      BY <1>1
    <3> QED
      BY <1>2, <2>1, <3>1
  <2> HIDE DEF new
  <2> QED
    BY <1>3, <1>5, <2>2 DEF new, d
<1>6. CASE /\ q \in w.match.unmatched
           /\ \E k \in DOMAIN list :
                 LET c == list[k]
                 IN  /\ MayAdd(c, w.n) /\ Continuous(c.spans, x)
                     /\ Wait(s, q, w) =
                           [s EXCEPT !.candidates = [list EXCEPT ![k] = HeardMore(c, x, w.n)]]
  <2> PICK k \in DOMAIN list :
               /\ MayAdd(list[k], w.n) /\ Continuous(list[k].spans, x)
               /\ Wait(s, q, w) =
                     [s EXCEPT !.candidates = [list EXCEPT ![k] = HeardMore(list[k], x, w.n)]]
    BY <1>6
  <2> DEFINE c == list[k]
             d == HeardMore(c, x, w.n)
             new == [list EXCEPT ![k] = d]
  <2>1. IsReady(d, old, n)
    <3>1. q \in DOMAIN w.provider
      BY <1>6 DEF IsHeard
    <3>2. c \in Waiting /\ IsReady(c, old, n) /\ MayAdd(c, n) /\ Continuous(c.spans, x)
      BY <1>1, <1>2 DEF n
    <3> HIDE DEF c
    <3> QED
      BY <1>2, <3>1, <3>2, ReadyAgain DEF n
  <2> HIDE DEF d, c
  <2>2. \A r \in DOMAIN new : IsReady(new[r], old, n)
    <3> HIDE DEF list
    <3> QED
      BY <1>2, <2>1
  <2>3. Wait(s, q, w) = [s EXCEPT !.candidates = new]
    BY DEF new, d, c
  <2> HIDE DEF new
  <2> QED
    BY <1>3, <2>2, <2>3
<1> QED
  BY <1>1, <1>4, <1>5, <1>6, WaitIs

\* Clusters that are continuous are of one voice.
LEMMA ContinuousIsOne ==
    ASSUME NEW said, IsTalk(said), NEW a, IsSaid(a, said), NEW x \in DOMAIN said, NEW b \in Seq(said[x]),
           Continuous(a, b)
    PROVE  a \in Seq(said[x])
<1>1. PICK y \in DOMAIN said : a \in Seq(said[y])
  BY DEF IsSaid
<1>2. PICK i \in DOMAIN a, j \in DOMAIN b : Gap(a[i], b[j]) <= GapTolerance
  BY DEF Continuous, Tolerance, GapTolerance
<1>3. a[i] \in said[y] /\ b[j] \in said[x]
  BY <1>1
<1>4. y = x
  BY <1>2, <1>3 DEF IsTalk
<1> QED
  BY <1>1, <1>4

LEMMA VoicesRegistered ==
    ASSUME talk \in Talks, NEW old, NEW w, IsHeard(w, old), NEW s, IsStage(s, old, w), NEW q
    PROVE  KeepsVoices(s, Wait(s, q, w), old, w)
<1> SUFFICES ASSUME NEW said, NEW ov, NEW pv, IsTalk(said), BringsVoices(w, old, ov, pv, said),
                    Sounds(s, old, ov, said)
             PROVE  Sounds(Wait(s, q, w), old, ov, said)
  BY DEF KeepsVoices
<1> DEFINE list == s.candidates
           n == w.n
           b == w.provider[q]
           x == pv[q]
<1>1. /\ list \in Seq(Waiting)
      /\ DOMAIN s = {"speakers", "confirmed", "candidates", "snapshot", "origin", "gone", "shown"}
      /\ \A k \in DOMAIN list : IsSaid(list[k].spans, said)
  BY DEF IsStage, IsSession, Sounds
<1>2. q \in w.match.unmatched => x \in DOMAIN said /\ b \in Seq(said[x])
  BY DEF BringsVoices, IsHeard
<1>3. ASSUME NEW new, Wait(s, q, w) = [s EXCEPT !.candidates = new],
             \A k \in DOMAIN new : IsSaid(new[k].spans, said)
      PROVE  Sounds(Wait(s, q, w), old, ov, said)
  <2> DEFINE t == Wait(s, q, w)
  <2>1. t.speakers = s.speakers /\ t.snapshot = s.snapshot /\ t.candidates = new
    BY <1>1, <1>3
  <2> HIDE DEF t
  <2>2. Sounds(t, old, ov, said)
    BY <1>3, <2>1 DEF Sounds, SpeaksAs, IsOf
  <2> QED
    BY <2>2 DEF t
<1> HIDE DEF x
<1>4. CASE Wait(s, q, w) = s
  BY <1>4
<1>5. CASE /\ q \in w.match.unmatched
           /\ Wait(s, q, w) = [s EXCEPT !.candidates = Append(list, HeardOnce(b, n))]
  <2> DEFINE d == HeardOnce(b, n)
             new == Append(list, d)
  <2>1. IsSaid(d.spans, said)
    BY <1>2, <1>5 DEF IsSaid, HeardOnce
  <2> HIDE DEF d
  <2>2. \A k \in DOMAIN new : IsSaid(new[k].spans, said)
    <3> HIDE DEF list
    <3>1. \A k \in DOMAIN new : (k \in DOMAIN list /\ new[k] = list[k]) \/ new[k] = d
      BY <1>1
    <3> QED
      BY <1>1, <2>1, <3>1
  <2> HIDE DEF new
  <2> QED
    BY <1>3, <1>5, <2>2 DEF new, d
<1>6. CASE /\ q \in w.match.unmatched
           /\ \E k \in DOMAIN list :
                 LET c == list[k]
                 IN  /\ MayAdd(c, n) /\ Continuous(c.spans, b)
                     /\ Wait(s, q, w) =
                           [s EXCEPT !.candidates = [list EXCEPT ![k] = HeardMore(c, b, n)]]
  <2> PICK k \in DOMAIN list :
               /\ MayAdd(list[k], n) /\ Continuous(list[k].spans, b)
               /\ Wait(s, q, w) =
                     [s EXCEPT !.candidates = [list EXCEPT ![k] = HeardMore(list[k], b, n)]]
    BY <1>6
  <2> DEFINE c == list[k]
             a == c.spans
             d == HeardMore(c, b, n)
             new == [list EXCEPT ![k] = d]
  <2>1. IsSaid(d.spans, said)
    <3>1. d.spans = Newest(a \o b) /\ IsSaid(a, said) /\ Continuous(a, b)
      BY <1>1 DEF HeardMore
    <3> HIDE DEF a, b, d
    <3>2. a \in Seq(said[x]) /\ b \in Seq(said[x]) /\ x \in DOMAIN said
      BY <1>2, <1>6, <3>1, ContinuousIsOne
    <3>3. a \o b \in Seq(said[x])
      BY <3>2, Joined
    <3>4. Newest(a \o b) \in Seq(said[x])
      BY <3>3, LiveAssumption, Capped
    <3> QED
      BY <3>1, <3>2, <3>4 DEF IsSaid
  <2> HIDE DEF d, c
  <2>2. \A r \in DOMAIN new : IsSaid(new[r].spans, said)
    <3> HIDE DEF list
    <3> QED
      BY <1>1, <2>1
  <2>3. Wait(s, q, w) = [s EXCEPT !.candidates = new]
    BY DEF new, d, c
  <2> HIDE DEF new
  <2> QED
    BY <1>3, <2>2, <2>3
<1> QED
  BY <1>1, <1>4, <1>5, <1>6, WaitIs

LEMMA RegisteredAll ==
    ASSUME talk \in Talks, NEW old, NEW w, IsHeard(w, old), NEW s, IsStage(s, old, w)
    PROVE  /\ IsStage(RegisterAll(s, w), old, w) /\ RegisterAll(s, w).snapshot = s.snapshot
           /\ IsSpoken(s, old, w) => IsSpoken(RegisterAll(s, w), old, w)
           /\ KeepsVoices(s, RegisterAll(s, w), old, w)
<1> DEFINE L == [q \in 1 .. Clusters |-> q]
           Speaks(t) == IsSpoken(s, old, w) => IsSpoken(t, old, w)
           T(run) == {k \in 0 .. Clusters : /\ IsStage(run[k], old, w) /\ run[k].snapshot = s.snapshot
                                            /\ Speaks(run[k]) /\ KeepsVoices(s, run[k], old, w)}
<1>1. Clusters \in Nat
  BY LiveAssumption
<1>2. RegisterAll(s, w) = WaitLoop!Fold(w, s, L)
  BY DEF RegisterAll, FoldLeft, MapThenFoldSet, WaitLoop!Fold, Max, WaitLoop!Top
<1>3. WaitLoop!IsList(L) /\ Len(L) = Clusters /\ \A k \in 1 .. Clusters : L[k] = k
  <2>1. L \in Seq(Int) /\ Len(L) = Clusters /\ \A k \in 1 .. Clusters : L[k] = k
    BY <1>1
  <2> HIDE DEF L
  <2> QED
    BY <2>1 DEF WaitLoop!IsList
<1> HIDE DEF L
<1>4. PICK run : WaitLoop!IsRun(run, w, s, L) /\ run[Clusters] = WaitLoop!Fold(w, s, L)
  BY <1>3, WaitLoop!FoldRuns
<1>5. run[0] = s /\ \A k \in 1 .. Clusters : run[k] = Wait(run[k - 1], k, w)
  BY <1>3, <1>4 DEF WaitLoop!IsRun
<1>6. 0 \in T(run)
  <2>1. KeepsVoices(s, s, old, w)
    BY DEF KeepsVoices
  <2> QED
    BY <1>1, <1>5, <2>1
<1>7. ASSUME NEW k \in 1 .. Clusters, k - 1 \in T(run) PROVE k \in T(run)
  <2>1. /\ IsStage(run[k - 1], old, w) /\ run[k - 1].snapshot = s.snapshot
        /\ Speaks(run[k - 1]) /\ KeepsVoices(s, run[k - 1], old, w)
    BY <1>7
  <2>2. /\ IsStage(Wait(run[k - 1], k, w), old, w)
        /\ Wait(run[k - 1], k, w).snapshot = run[k - 1].snapshot
    BY <2>1, Registered
  <2>3. Speaks(Wait(run[k - 1], k, w))
    BY <2>1, SpeechRegistered
  <2>4. KeepsVoices(s, Wait(run[k - 1], k, w), old, w)
    BY <2>1, VoicesRegistered, ThenKeeps
  <2> QED
    BY <1>5, <2>1, <2>2, <2>3, <2>4
<1>8. Clusters \in T(run)
  <2> HIDE DEF T
  <2> QED
    BY <1>1, <1>6, <1>7, WaitLoop!Induct
<1>9. /\ IsStage(run[Clusters], old, w) /\ run[Clusters].snapshot = s.snapshot
      /\ Speaks(run[Clusters]) /\ KeepsVoices(s, run[Clusters], old, w)
  BY <1>8
<1> QED
  BY <1>2, <1>4, <1>9

LEMMA MaxOfOne ==
    ASSUME NEW v \in Int
    PROVE  Max({v}) = v
<1>1. \A x \in {v} : (\A y \in {v} : x >= y) <=> x = v
  OBVIOUS
<1> QED
  BY <1>1 DEF Max

LEMMA LatestIn ==
    ASSUME NEW spans \in Spans, spans # <<>>
    PROVE  /\ LatestEnd(spans) \in Int
           /\ \E i \in DOMAIN spans : spans[i][2] = LatestEnd(spans)
           /\ \A i \in DOMAIN spans : spans[i][2] <= LatestEnd(spans)
<1> DEFINE ends == [i \in DOMAIN spans |-> spans[i][2]]
<1>1. \A i \in DOMAIN spans : spans[i] \in Int \X Int
  BY DEF Spans
<1>2. DOMAIN spans = 1 .. Len(spans) /\ Len(spans) \in Nat \ {0}
  BY DEF Spans
<1>3. ends \in Seq(Int) /\ ends # <<>> /\ DOMAIN ends = DOMAIN spans
  <2>1. ends \in [1 .. Len(spans) -> Int]
    BY <1>1, <1>2
  <2>2. DOMAIN ends = 1 .. Len(spans)
    BY <1>2
  <2> HIDE DEF ends
  <2>3. ends \in Seq(Int)
    BY <1>2, <2>1
  <2>4. 1 \in DOMAIN ends
    BY <1>2, <2>2
  <2> QED
    BY <1>2, <2>2, <2>3, <2>4
<1>4. /\ {spans[i][2] : i \in DOMAIN spans} = {ends[i] : i \in DOMAIN ends}
      /\ \A i \in DOMAIN spans : ends[i] = spans[i][2]
  BY <1>3
<1> DEFINE m == LatestEnd(spans)
<1> HIDE DEF ends
<1>5. m = Max({ends[i] : i \in DOMAIN ends})
  BY <1>4 DEF LatestEnd
<1> HIDE DEF m
<1>6. m \in Int /\ (\E i \in DOMAIN ends : ends[i] = m) /\ \A i \in DOMAIN ends : ends[i] <= m
  BY <1>3, <1>5, Greatest
<1>7. m \in Int /\ (\E i \in DOMAIN spans : spans[i][2] = m) /\ \A i \in DOMAIN spans : spans[i][2] <= m
  BY <1>3, <1>4, <1>6
<1> QED
  BY <1>7 DEF m

\* Where a new speaker may be made, no confirmed one has fallen silent.
LEMMA MayPromoteThen ==
    ASSUME NEW old, IsSession(old), NEW w, IsHeard(w, old), NEW s, IsStage(s, old, w),
           MayPromote(s, w.match, w.provider, w.n)
    PROVE  NobodySilent(old, w)
<1> SUFFICES ASSUME NEW l \in old.confirmed, old.speakers[l] # <<>>, ~IsLinkedTo(l, w)
             PROVE  Window(w.n)[1] - LatestEnd(old.speakers[l]) <= Horizon
  BY DEF NobodySilent
<1> DEFINE v == LatestEnd(old.speakers[l])
           Heard0(x) == {LatestEnd(w.provider[q]) : q \in {r \in DOMAIN w.match.label : w.match.label[r] = x}}
                       \cup (IF s.speakers[x] = <<>> THEN {} ELSE {LatestEnd(s.speakers[x])})
<1>1. l \in s.confirmed /\ s.speakers[l] = old.speakers[l] /\ old.speakers[l] \in Spans
  BY DEF IsStage, IsSession
<1>2. {r \in DOMAIN w.match.label : w.match.label[r] = l} = {}
  BY DEF IsLinkedTo
<1>3. v \in Int
  BY <1>1, LatestIn
<1> HIDE DEF v
<1>4. Heard0(l) = {v}
  BY <1>1, <1>2 DEF v
<1>5. \A x \in s.confirmed : ~(Heard0(x) # {} /\ Window(w.n)[1] - Max(Heard0(x)) > Horizon)
  BY DEF MayPromote, Stale
<1> HIDE DEF Heard0
<1>6. ~(Window(w.n)[1] - v > Horizon)
  BY <1>1, <1>3, <1>4, <1>5, MaxOfOne
<1>7. Window(w.n)[1] \in Int
  <2>1. Window(w.n) \in Int \X Int
    BY WindowsAre DEF IsHeard
  <2> QED
    BY <2>1
<1> QED
  BY <1>3, <1>6, <1>7 DEF v, Horizon

\* A session that is closed to new speakers stays so during the window.
LEMMA ClosedStays ==
    ASSUME talk \in Talks, NEW old, IsSession(old), NEW w, IsHeard(w, old), NEW s, IsStage(s, old, w),
           IsSpoken(s, old, w), MayPromote(s, w.match, w.provider, w.n)
    PROVE  ~IsClosed(old, w.n)
<1>1. Cardinality(DOMAIN old.speakers) < talk.maxSpeakers
  <2>1. PICK m \in 0 .. talk.maxSpeakers : DOMAIN s.speakers = 1 .. m
    BY DEF IsStage, IsSession
  <2>2. IsFiniteSet(DOMAIN s.speakers) /\ DOMAIN old.speakers \subseteq DOMAIN s.speakers
    <3>1. m \in Int /\ 1 \in Int
      BY LiveAssumption
    <3>2. IsFiniteSet(1 .. m)
      BY <3>1, FS_Interval
    <3> QED
      BY <2>1, <3>2 DEF IsStage
  <2> DEFINE a == Cardinality(DOMAIN old.speakers)
             b == Cardinality(DOMAIN s.speakers)
  <2>3. a <= b /\ a \in Nat /\ b \in Nat
    BY <2>2, FS_Subset, FS_CardinalityType
  <2>4. b < talk.maxSpeakers /\ talk.maxSpeakers \in Nat
    BY LiveAssumption DEF MayPromote
  <2> HIDE DEF a, b
  <2>5. a < talk.maxSpeakers
    BY <2>3, <2>4
  <2> QED
    BY <2>5 DEF a
<1>2. ASSUME NEW l \in old.confirmed, IsSilent(old, l, w.n) PROVE FALSE
  <2>1. ~IsLinkedTo(l, w) /\ NobodySilent(old, w)
    BY <1>2, MayPromoteThen DEF IsSpoken
  <2> DEFINE v == LatestEnd(old.speakers[l])
             a == Window(w.n)[1]
  <2>2. a - v > Horizon /\ old.speakers[l] # <<>> /\ a - v <= Horizon
    BY <1>2, <2>1 DEF IsSilent, NobodySilent
  <2>3. v \in Int
    <3>1. old.speakers[l] \in Spans
      BY DEF IsSession
    <3> QED
      BY <2>2, <3>1, LatestIn
  <2>4. a \in Int
    <3>1. Window(w.n) \in Int \X Int
      BY WindowsAre DEF IsHeard
    <3> QED
      BY <3>1
  <2> HIDE DEF a, v
  <2> QED
    BY <2>2, <2>3, <2>4 DEF Horizon
<1>3. ASSUME Cardinality(DOMAIN old.speakers) >= talk.maxSpeakers PROVE FALSE
  <2>1. PICK m \in 0 .. talk.maxSpeakers : DOMAIN old.speakers = 1 .. m
    BY DEF IsSession
  <2>2. Cardinality(DOMAIN old.speakers) \in Nat /\ talk.maxSpeakers \in Nat
    BY <2>1, LiveAssumption, FS_Interval, FS_CardinalityType
  <2> QED
    BY <1>1, <1>3, <2>2
<1> QED
  BY <1>2, <1>3 DEF IsClosed

\* A stale speaker is one that the window does not reach.
LEMMA StaleIsSilent ==
    ASSUME talk \in Talks, NEW old, IsSession(old), NEW w, IsHeard(w, old), NEW s, IsStage(s, old, w),
           IsSpoken(s, old, w), NEW l \in Stale(s, w.match, w.provider, w.n)
    PROVE  l \in s.confirmed /\ IsSilent(s, l, w.n)
<1> DEFINE H == {LatestEnd(w.provider[q]) : q \in {r \in DOMAIN w.match.label : w.match.label[r] = l}}
                \cup (IF s.speakers[l] = <<>> THEN {} ELSE {LatestEnd(s.speakers[l])})
           v == LatestEnd(s.speakers[l])
           a == Window(w.n)[1]
           e == Window(w.n)[2]
           linked == {r \in DOMAIN w.match.label : w.match.label[r] = l}
<1>1. l \in s.confirmed /\ a - Max(H) > Horizon
  BY DEF Stale
<1>2. l \in DOMAIN s.speakers /\ s.speakers[l] \in Spans /\ s.speakers[l] # <<>>
  BY <1>1 DEF IsStage, IsSession, IsSpoken
<1>3. v \in Int /\ \A i \in DOMAIN s.speakers[l] : s.speakers[l][i][2] <= v
  BY <1>2, LatestIn
<1>4. a \in Int /\ e \in Int
  <2>1. Window(w.n) \in Int \X Int
    BY WindowsAre DEF IsHeard
  <2> QED
    BY <2>1
<1>5. ASSUME NEW q \in linked
      PROVE  LatestEnd(w.provider[q]) \in Int /\ LatestEnd(w.provider[q]) > a
             /\ LatestEnd(w.provider[q]) <= e
  <2> DEFINE x == w.provider[q]
             m == LatestEnd(x)
  <2>1. q \in DOMAIN w.provider
    BY DEF IsHeard
  <2>2. x \in Seq(Within(Window(w.n))) /\ x # <<>> /\ x \in Spans
    BY <2>1 DEF IsSpoken, IsClipped, IsHeard
  <2> HIDE DEF x
  <2>3. m \in Int /\ \E i \in DOMAIN x : x[i][2] = m
    BY <2>2, LatestIn
  <2> HIDE DEF m
  <2>4. PICK i \in DOMAIN x : x[i][2] = m
    BY <2>3
  <2>5. x[i] \in Within(Window(w.n))
    BY <2>2
  <2>6. m > a /\ m <= e
    <3> DEFINE y == x[i]
    <3>1. y \in Int \X Int /\ a <= y[1] /\ y[1] < y[2] /\ y[2] <= e /\ y[2] = m
      BY <2>4, <2>5 DEF Within
    <3> HIDE DEF y, a, e
    <3> QED
      BY <1>4, <3>1
  <2> QED
    BY <2>3, <2>6 DEF x, m
<1>6. H = {LatestEnd(w.provider[q]) : q \in linked} \cup {v}
  BY <1>2
<1> HIDE DEF H, v, a, e, linked
<1>7. H \in SUBSET Int /\ v \in H
  BY <1>3, <1>5, <1>6
<1> DEFINE b == IF v >= e THEN v ELSE e
<1>8. b \in Int /\ \A x \in H : x <= b
  BY <1>3, <1>4, <1>5, <1>6
<1> HIDE DEF b
<1>9. Max(H) \in H /\ \A x \in H : x <= Max(H)
  BY <1>7, <1>8, HasTop
<1> DEFINE m == Max(H)
<1>10. m \in Int /\ v <= m /\ a - m > 120 /\ \A q \in linked : LatestEnd(w.provider[q]) <= m
  BY <1>1, <1>6, <1>7, <1>9 DEF Horizon
<1> HIDE DEF m
<1>11. a - v > 120 /\ v < a
  BY <1>3, <1>4, <1>10
<1>12. linked = {}
  BY <1>4, <1>5, <1>10
<1>13. ~IsLinkedTo(l, w)
  BY <1>12 DEF linked, IsLinkedTo
<1>14. l \notin DOMAIN s.snapshot
  <2> SUFFICES ASSUME l \in DOMAIN s.snapshot PROVE FALSE
    OBVIOUS
  <2>1. PICK i \in DOMAIN s.speakers[l] : s.speakers[l][i][2] > a
    BY <1>13 DEF IsSpoken, a
  <2> DEFINE x == s.speakers[l][i][2]
  <2>2. x > a /\ x <= v
    BY <1>3, <2>1
  <2>3. x \in Int
    <3>1. s.speakers[l][i] \in Int \X Int
      BY <1>2 DEF Spans
    <3> QED
      BY <3>1
  <2> HIDE DEF x
  <2> QED
    BY <1>3, <1>4, <1>11, <2>2, <2>3
<1> QED
  BY <1>1, <1>2, <1>11, <1>14 DEF IsSilent, Horizon, a, v

LEMMA PromotionEnds ==
    ASSUME talk \in Talks, NEW old, IsSession(old), NEW w, IsHeard(w, old), NEW s, IsStage(s, old, w),
           IsSpoken(s, old, w), ~MayPromote(s, w.match, w.provider, w.n)
    PROVE  IsClosed(s, w.n)
<1>1. CASE Stale(s, w.match, w.provider, w.n) # {}
  <2>1. PICK l : l \in Stale(s, w.match, w.provider, w.n)
    BY <1>1
  <2> QED
    BY <2>1, StaleIsSilent DEF IsClosed
<1>2. CASE ~(Cardinality(DOMAIN s.speakers) < talk.maxSpeakers)
  <2>1. PICK m \in 0 .. talk.maxSpeakers : DOMAIN s.speakers = 1 .. m
    BY DEF IsStage, IsSession
  <2>2. Cardinality(DOMAIN s.speakers) \in Nat /\ talk.maxSpeakers \in Nat
    <3>1. m \in Int /\ 1 \in Int /\ talk.maxSpeakers \in Nat
      BY LiveAssumption
    <3>2. IsFiniteSet(1 .. m)
      BY <3>1, FS_Interval
    <3> QED
      BY <2>1, <3>1, <3>2, FS_CardinalityType
  <2> QED
    BY <1>2, <2>2 DEF IsClosed
<1> QED
  BY <1>1, <1>2 DEF MayPromote

\* What becomes of the session when candidate k has its turn: a speaker is made of what
\* the window commits of it, or the candidate has to wait.
MayTake(s, k, w) == s.candidates[k].seen >= MinSnapshots /\ MayPromote(s, w.match, w.provider, w.n)

IsTaken(s, t, k, w) ==
    /\ t.gone = s.gone \cup {k}
    /\ \E label : /\ label \notin DOMAIN s.speakers
                  /\ DOMAIN t.speakers = {label} \cup DOMAIN s.speakers
                  /\ t.speakers[label] = Clip(s.candidates[k].spans, StablePart(w.n))
                  /\ \A l \in DOMAIN s.speakers : t.speakers[l] = s.speakers[l]
                  /\ DOMAIN t.snapshot = {label} \cup DOMAIN s.snapshot
                  /\ t.snapshot[label] = s.candidates[k].spans
                  /\ \A l \in DOMAIN s.snapshot : t.snapshot[l] = s.snapshot[l]

LEMMA Promoted ==
    ASSUME talk \in Talks, NEW old, IsSession(old), NEW w, IsHeard(w, old), NEW s, IsStage(s, old, w),
           NEW k \in DOMAIN s.candidates
    PROVE  LET t == Promote(s, k, w)
           IN  /\ IsStage(t, old, w) /\ t.candidates = s.candidates
               /\ DOMAIN s.snapshot \subseteq DOMAIN t.snapshot
               /\ IF MayTake(s, k, w) THEN IsTaken(s, t, k, w) ELSE t = s
<1> DEFINE c == s.candidates[k]
           label == NextLabel(DOMAIN s.speakers)
           stable == Clip(c.spans, StablePart(w.n))
           sp == Extend(s.speakers, label, stable)
           sn == Extend(s.snapshot, label, c.spans)
           cf == IF stable # <<>> THEN s.confirmed \cup {label} ELSE s.confirmed
           og == Put(s.origin, label, c.from)
           t == Promote(s, k, w)
           may == c.seen >= MinSnapshots /\ MayPromote(s, w.match, w.provider, w.n)
<1>1. CASE ~may
  BY <1>1 DEF Promote, MayTake
<1>2. CASE may
  <2>1. t = [s EXCEPT !.speakers = sp, !.snapshot = sn, !.confirmed = cf, !.origin = og,
                      !.gone = s.gone \cup {k}]
    BY <1>2 DEF Promote
  <2>2. /\ t.speakers = sp /\ t.snapshot = sn /\ t.confirmed = cf /\ t.origin = og
        /\ t.candidates = s.candidates /\ DOMAIN t = DOMAIN s /\ t.gone = s.gone \cup {k}
    BY <2>1 DEF IsStage, IsSession
  <2> HIDE DEF t
  <2>3. PICK n \in 0 .. talk.maxSpeakers : DOMAIN s.speakers = 1 .. n
    BY DEF IsStage, IsSession
  <2>4. n \in Nat /\ talk.maxSpeakers \in Nat
    BY <2>3, LiveAssumption
  <2>5. label = n + 1
    BY <2>3, <2>4, NextIs
  <2>6. n < talk.maxSpeakers
    <3>1. Cardinality(1 .. n) < talk.maxSpeakers
      BY <1>2, <2>3 DEF MayPromote
    <3>2. Cardinality(1 .. n) = IF 1 > n THEN 0 ELSE n - 1 + 1
      BY <2>4, FS_Interval
    <3> QED
      BY <2>4, <3>1, <3>2
  <2>7. label \notin DOMAIN s.speakers /\ {label} \cup DOMAIN s.speakers = 1 .. n + 1
    BY <2>3, <2>4, <2>5
  <2>8. /\ c.spans \in Spans /\ Cardinality(c.from) >= MinSnapshots
        /\ Len(c.spans) <= talk.maxIntervals
    <3>1. c \in Waiting
      BY DEF IsStage, IsSession
    <3> HIDE DEF c
    <3> QED
      BY <1>2, <3>1 DEF Waiting
  <2>9. stable \in Spans /\ Len(stable) <= talk.maxIntervals
    <3>1. StablePart(w.n) \in Int \X Int
      BY WindowsAre DEF IsHeard
    <3>2. stable \in Spans /\ Len(stable) <= Len(c.spans)
      BY <2>8, <3>1, Clipped
    <3>3. Len(stable) \in Nat /\ Len(c.spans) \in Nat /\ talk.maxIntervals \in Nat
      BY <2>8, <3>2, LiveAssumption DEF Spans
    <3> QED
      BY <2>8, <3>2, <3>3
  <2> HIDE DEF c, label, stable
  <2>10. /\ DOMAIN sp = {label} \cup DOMAIN s.speakers
         /\ sp[label] = stable /\ \A l \in DOMAIN s.speakers : sp[l] = s.speakers[l]
    BY <2>7 DEF Extend, Put
  <2>11. /\ DOMAIN sn = {label} \cup DOMAIN s.snapshot
         /\ sn[label] = c.spans /\ \A l \in DOMAIN s.snapshot : sn[l] = s.snapshot[l]
    <3>1. label \notin DOMAIN s.snapshot
      BY <2>7 DEF IsStage, IsSession
    <3> QED
      BY <3>1 DEF Extend, Put
  <2>12. s.confirmed \subseteq cf /\ cf \subseteq s.confirmed \cup {label}
    OBVIOUS
  <2>13. \A l \in DOMAIN og : l = label \/ (l \in DOMAIN s.origin /\ og[l] = s.origin[l])
    BY DEF Put
  <2>14. og[label] = c.from
    BY DEF Put
  <2> HIDE DEF sp, sn, cf, og
  <2>15. IsSession(s)
    BY DEF IsStage
  <2>16. \A l \in DOMAIN sp : sp[l] \in Spans /\ Len(sp[l]) <= talk.maxIntervals
    BY <2>9, <2>10, <2>15 DEF IsSession
  <2>17. \A l \in DOMAIN og : Cardinality(og[l]) >= MinSnapshots
    BY <2>8, <2>13, <2>14, <2>15 DEF IsSession
  <2>18. n + 1 \in 0 .. talk.maxSpeakers /\ DOMAIN sp = 1 .. n + 1
    BY <2>4, <2>6, <2>7, <2>10
  <2>19. /\ DOMAIN s.snapshot \subseteq DOMAIN s.speakers /\ s.confirmed \subseteq DOMAIN s.speakers
         /\ s.candidates \in Seq(Waiting)
         /\ DOMAIN s = {"speakers", "confirmed", "candidates", "snapshot", "origin", "gone", "shown"}
    BY <2>15 DEF IsSession
  <2>20. cf \subseteq DOMAIN sp /\ DOMAIN sn \subseteq DOMAIN sp
    BY <2>10, <2>11, <2>12, <2>19
  <2>21. IsSession(t)
    BY <2>2, <2>16, <2>17, <2>18, <2>19, <2>20 DEF IsSession
  <2>22. NobodySilent(old, w)
    BY <1>2, MayPromoteThen
  <2>23. IsStage(t, old, w)
    <3>1. /\ DOMAIN old.speakers \subseteq DOMAIN s.speakers /\ old.confirmed \subseteq s.confirmed
          /\ \A l \in DOMAIN old.speakers : IsLinkedTo(l, w) \/ s.speakers[l] = old.speakers[l]
      BY DEF IsStage
    <3>2. DOMAIN old.speakers \subseteq DOMAIN sp /\ old.confirmed \subseteq cf
      BY <2>10, <2>12, <3>1
    <3>3. \A l \in DOMAIN old.speakers : IsLinkedTo(l, w) \/ sp[l] = old.speakers[l]
      BY <2>10, <3>1
    <3> QED
      BY <2>2, <2>21, <2>22, <3>2, <3>3 DEF IsStage
  <2>24. IsTaken(s, t, k, w)
    <3>1. stable = Clip(s.candidates[k].spans, StablePart(w.n)) /\ c.spans = s.candidates[k].spans
      BY DEF stable, c
    <3> QED
      BY <2>2, <2>7, <2>10, <2>11, <3>1 DEF IsTaken
  <2>25. MayTake(s, k, w)
    BY <1>2 DEF MayTake, c
  <2> QED
    BY <2>2, <2>11, <2>23, <2>24, <2>25 DEF t
<1> QED
  BY <1>1, <1>2

LEMMA SpeechPromoted ==
    ASSUME talk \in Talks, NEW old, IsSession(old), NEW w, IsHeard(w, old), NEW s, IsStage(s, old, w),
           NEW k \in DOMAIN s.candidates, IsSpoken(s, old, w)
    PROVE  IsSpoken(Promote(s, k, w), old, w)
<1> DEFINE t == Promote(s, k, w)
           c == s.candidates[k]
           stable == Clip(c.spans, StablePart(w.n))
           a == Window(w.n)[1]
<1>1. t.candidates = s.candidates /\ IF MayTake(s, k, w) THEN IsTaken(s, t, k, w) ELSE t = s
  BY Promoted
<1>2. CASE ~MayTake(s, k, w)
  BY <1>1, <1>2
<1>3. CASE MayTake(s, k, w)
  <2>1. IsReady(c, old, w.n) /\ c.seen >= MinSnapshots /\ ~IsClosed(old, w.n)
    BY <1>3, ClosedStays DEF IsSpoken, MayTake
  <2>2. stable # <<>> /\ c.spans \in Spans
    <3>1. c.spans \in Seq(Past(c.last)) /\ Past(c.last) \subseteq Int \X Int
      BY <2>1 DEF IsReady, IsCandidate, Past
    <3> DEFINE x == c.spans
    <3> HIDE DEF x
    <3>2. x \in Seq(Int \X Int)
      BY <3>1, Widened DEF x
    <3> QED
      BY <2>1, <3>2 DEF IsReady, Spans, x
  <2> HIDE DEF t, c
  <2>3. \E i \in DOMAIN stable : stable[i][2] > a
    <3>1. StablePart(w.n) \in Int \X Int /\ StablePart(w.n)[1] = a /\ a \in Int
      <4>1. w.n \in Nat \ {0}
        BY LiveAssumption DEF IsSpoken, IsClipped
      <4>2. StablePart(w.n) \in Int \X Int
        BY WindowsAre DEF IsHeard
      <4>3. StablePart(w.n)[1] = Window(w.n)[1] /\ Window(w.n)[1] \in Int
        BY <4>1, WindowIs
      <4> QED
        BY <4>2, <4>3
    <3>2. stable \in Seq(Within(StablePart(w.n)))
      BY <2>2, <3>1, Pieces
    <3> HIDE DEF stable
    <3>3. 1 \in DOMAIN stable /\ stable[1] \in Within(StablePart(w.n))
      BY <2>2, <3>2
    <3> DEFINE x == stable[1]
    <3>4. x \in Int \X Int /\ a <= x[1] /\ x[1] < x[2]
      BY <3>1, <3>3 DEF Within
    <3> HIDE DEF x, a
    <3>5. x[2] > a
      BY <3>1, <3>4
    <3> QED
      BY <3>3, <3>5 DEF x
  <2>4. PICK label : /\ label \notin DOMAIN s.speakers
                     /\ DOMAIN t.speakers = {label} \cup DOMAIN s.speakers
                     /\ t.speakers[label] = stable
                     /\ \A l \in DOMAIN s.speakers : t.speakers[l] = s.speakers[l]
                     /\ DOMAIN t.snapshot = {label} \cup DOMAIN s.snapshot
    BY <1>1, <1>3 DEF IsTaken, c
  <2> HIDE DEF stable
  <2>5. \A l \in DOMAIN t.speakers : t.speakers[l] # <<>>
    BY <2>2, <2>4 DEF IsSpoken
  <2>6. ASSUME NEW l \in DOMAIN t.snapshot
        PROVE  IsLinkedTo(l, w) \/ \E i \in DOMAIN t.speakers[l] : t.speakers[l][i][2] > a
    <3>1. CASE l = label
      BY <2>3, <2>4, <3>1
    <3>2. CASE l # label
      <4>1. l \in DOMAIN s.snapshot /\ DOMAIN s.snapshot \subseteq DOMAIN s.speakers
        BY <2>4, <3>2 DEF IsStage, IsSession
      <4>2. t.speakers[l] = s.speakers[l]
        BY <2>4, <4>1
      <4> QED
        BY <4>1, <4>2 DEF IsSpoken
    <3> QED
      BY <3>1, <3>2
  <2>7. IsSpoken(t, old, w)
    BY <1>1, <2>5, <2>6 DEF IsSpoken
  <2> QED
    BY <2>7 DEF t
<1> QED
  BY <1>2, <1>3

LEMMA VoicesPromoted ==
    ASSUME talk \in Talks, NEW old, IsSession(old), NEW w, IsHeard(w, old), NEW s, IsStage(s, old, w),
           NEW k \in DOMAIN s.candidates
    PROVE  KeepsVoices(s, Promote(s, k, w), old, w)
<1> SUFFICES ASSUME NEW said, NEW ov, NEW pv, IsTalk(said), BringsVoices(w, old, ov, pv, said),
                    Sounds(s, old, ov, said)
             PROVE  Sounds(Promote(s, k, w), old, ov, said)
  BY DEF KeepsVoices
<1> DEFINE t == Promote(s, k, w)
           a == s.candidates[k].spans
           stable == Clip(a, StablePart(w.n))
<1>1. t.candidates = s.candidates /\ IF MayTake(s, k, w) THEN IsTaken(s, t, k, w) ELSE t = s
  BY Promoted
<1>2. CASE ~MayTake(s, k, w)
  BY <1>1, <1>2
<1>3. CASE MayTake(s, k, w)
  <2>1. PICK label : /\ label \notin DOMAIN s.speakers
                     /\ DOMAIN t.speakers = {label} \cup DOMAIN s.speakers
                     /\ t.speakers[label] = stable
                     /\ \A l \in DOMAIN s.speakers : t.speakers[l] = s.speakers[l]
                     /\ DOMAIN t.snapshot = {label} \cup DOMAIN s.snapshot
                     /\ t.snapshot[label] = a
                     /\ \A l \in DOMAIN s.snapshot : t.snapshot[l] = s.snapshot[l]
    BY <1>1, <1>3 DEF IsTaken
  <2>2. IsSaid(a, said)
    BY DEF Sounds
  <2>3. label \notin DOMAIN old.speakers /\ DOMAIN s.snapshot \subseteq DOMAIN s.speakers
    BY <2>1 DEF IsStage, IsSession
  <2> HIDE DEF t, a, stable
  <2>4. PICK x \in DOMAIN said : a \in Seq(said[x])
    BY <2>2 DEF IsSaid
  <2>5. stable \in Seq(said[x])
    <3>1. StablePart(w.n) \in Int \X Int
      BY WindowsAre DEF IsHeard
    <3> QED
      BY <2>4, <3>1, CutIsSaid DEF stable
  <2>6. SpeaksAs(t, label, old, ov, said)
    BY <2>1, <2>3, <2>4, <2>5 DEF SpeaksAs, IsOf
  <2>7. ASSUME NEW l \in DOMAIN s.speakers PROVE SpeaksAs(t, l, old, ov, said)
    <3>1. PICK y \in DOMAIN said : IsOf(s, l, y, said) /\ (l \in DOMAIN old.speakers => y = ov[l])
      BY DEF Sounds, SpeaksAs
    <3>2. IsOf(t, l, y, said)
      BY <2>1, <3>1 DEF IsOf
    <3> QED
      BY <3>1, <3>2 DEF SpeaksAs
  <2>8. Sounds(t, old, ov, said)
    <3>1. t.candidates = s.candidates
      BY <1>1 DEF t
    <3> QED
      BY <2>1, <2>6, <2>7, <3>1 DEF Sounds
  <2> QED
    BY <2>8 DEF t
<1> QED
  BY <1>2, <1>3

\* Of the first k candidates, the ones with evidence are promoted or have to wait.
AllTaken(s, k, w) ==
    \A j \in 1 .. k : s.candidates[j].seen >= MinSnapshots =>
        j \in s.gone \/ ~MayPromote(s, w.match, w.provider, w.n)

LEMMA NextTaken ==
    ASSUME talk \in Talks, NEW old, IsSession(old), NEW w, IsHeard(w, old), NEW s, IsStage(s, old, w),
           NEW k \in Nat \ {0}, k \in DOMAIN s.candidates, AllTaken(s, k - 1, w)
    PROVE  AllTaken(Promote(s, k, w), k, w)
<1> DEFINE t == Promote(s, k, w)
<1>1. t.candidates = s.candidates /\ IF MayTake(s, k, w) THEN IsTaken(s, t, k, w) ELSE t = s
  BY Promoted
<1> HIDE DEF t
<1>2. \A j \in 1 .. k : j \in 1 .. k - 1 \/ j = k
  OBVIOUS
<1>3. CASE MayTake(s, k, w)
  <2>1. t.gone = s.gone \cup {k} /\ MayPromote(s, w.match, w.provider, w.n)
    BY <1>1, <1>3 DEF IsTaken, MayTake
  <2>2. AllTaken(t, k, w)
    BY <1>1, <1>2, <2>1 DEF AllTaken
  <2> QED
    BY <2>2 DEF t
<1>4. CASE ~MayTake(s, k, w)
  <2>1. t = s
    BY <1>1, <1>4
  <2>2. AllTaken(s, k, w)
    BY <1>2, <1>4 DEF AllTaken, MayTake
  <2> QED
    BY <2>1, <2>2 DEF t
<1> QED
  BY <1>3, <1>4

LEMMA PromotedAll ==
    ASSUME talk \in Talks, NEW old, IsSession(old), NEW w, IsHeard(w, old), NEW s, IsStage(s, old, w)
    PROVE  LET t == PromoteAll(s, w)
           IN  /\ IsStage(t, old, w) /\ DOMAIN s.snapshot \subseteq DOMAIN t.snapshot
               /\ AllTaken(t, Len(t.candidates), w)
               /\ IsSpoken(s, old, w) => IsSpoken(t, old, w)
               /\ KeepsVoices(s, t, old, w)
<1> DEFINE n == Len(s.candidates)
           L == [k \in DOMAIN s.candidates |-> k]
           Speaks(t) == IsSpoken(s, old, w) => IsSpoken(t, old, w)
           T(run) == {k \in 0 .. n : /\ IsStage(run[k], old, w) /\ run[k].candidates = s.candidates
                                     /\ DOMAIN s.snapshot \subseteq DOMAIN run[k].snapshot
                                     /\ AllTaken(run[k], k, w) /\ Speaks(run[k])
                                     /\ KeepsVoices(s, run[k], old, w)}
<1>1. n \in Nat /\ DOMAIN s.candidates = 1 .. n
  BY DEF IsStage, IsSession
<1>2. PromoteAll(s, w) = PromoteLoop!Fold(w, s, L)
  BY DEF PromoteAll, FoldLeft, MapThenFoldSet, PromoteLoop!Fold, Max, PromoteLoop!Top
<1> HIDE DEF n
<1>3. PromoteLoop!IsList(L) /\ Len(L) = n /\ \A k \in 1 .. n : L[k] = k
  <2>1. L \in Seq(Int) /\ Len(L) = n /\ \A k \in 1 .. n : L[k] = k
    BY <1>1
  <2> HIDE DEF L
  <2> QED
    BY <2>1 DEF PromoteLoop!IsList
<1> HIDE DEF L
<1>4. PICK run : PromoteLoop!IsRun(run, w, s, L) /\ run[n] = PromoteLoop!Fold(w, s, L)
  BY <1>3, PromoteLoop!FoldRuns
<1>5. run[0] = s /\ \A k \in 1 .. n : run[k] = Promote(run[k - 1], k, w)
  BY <1>3, <1>4 DEF PromoteLoop!IsRun
<1>6. 0 \in T(run)
  <2>1. AllTaken(run[0], 0, w)
    BY DEF AllTaken
  <2>2. KeepsVoices(s, s, old, w)
    BY DEF KeepsVoices
  <2> QED
    BY <1>1, <1>5, <2>1, <2>2
<1>7. ASSUME NEW k \in 1 .. n, k - 1 \in T(run) PROVE k \in T(run)
  <2>1. /\ IsStage(run[k - 1], old, w) /\ run[k - 1].candidates = s.candidates
        /\ DOMAIN s.snapshot \subseteq DOMAIN run[k - 1].snapshot
        /\ AllTaken(run[k - 1], k - 1, w) /\ Speaks(run[k - 1])
        /\ KeepsVoices(s, run[k - 1], old, w)
    BY <1>7
  <2> DEFINE r == run[k - 1]
             t == Promote(r, k, w)
  <2>2. k \in DOMAIN r.candidates
    BY <1>1, <2>1
  <2>3. /\ IsStage(r, old, w) /\ AllTaken(r, k - 1, w) /\ Speaks(r) /\ k \in Nat \ {0}
        /\ KeepsVoices(s, r, old, w)
    BY <1>1, <2>1
  <2> HIDE DEF r
  <2>4. /\ IsStage(t, old, w) /\ t.candidates = r.candidates
        /\ DOMAIN r.snapshot \subseteq DOMAIN t.snapshot
    BY <2>2, <2>3, Promoted
  <2>7. AllTaken(t, k, w)
    BY <2>2, <2>3, NextTaken
  <2>8. Speaks(t)
    BY <2>2, <2>3, SpeechPromoted
  <2>9. KeepsVoices(s, t, old, w)
    BY <2>2, <2>3, VoicesPromoted, ThenKeeps
  <2>5. run[k] = t
    BY <1>5 DEF r
  <2>6. k \in 0 .. n
    OBVIOUS
  <2> HIDE DEF t
  <2> QED
    BY <2>1, <2>4, <2>5, <2>6, <2>7, <2>8, <2>9 DEF r
<1>8. n \in T(run)
  <2> HIDE DEF T
  <2> QED
    BY <1>1, <1>6, <1>7, PromoteLoop!Induct
<1>9. /\ IsStage(run[n], old, w) /\ DOMAIN s.snapshot \subseteq DOMAIN run[n].snapshot
      /\ AllTaken(run[n], n, w) /\ Speaks(run[n]) /\ run[n].candidates = s.candidates
      /\ KeepsVoices(s, run[n], old, w)
  BY <1>8
<1>10. n = Len(run[n].candidates)
  BY <1>9 DEF n
<1> QED
  BY <1>2, <1>4, <1>9, <1>10

LEMMA Dropped ==
    ASSUME NEW s, IsSession(s)
    PROVE  /\ IsSession(DropPromoted(s))
           /\ DropPromoted(s).speakers = s.speakers /\ DropPromoted(s).snapshot = s.snapshot
           /\ DropPromoted(s).shown = s.shown /\ DropPromoted(s).confirmed = s.confirmed
           /\ DropPromoted(s).candidates \in Seq({s.candidates[j] : j \in DOMAIN s.candidates \ s.gone})
<1> DEFINE list == s.candidates
           lists == [k \in DOMAIN list |-> IF k \in s.gone THEN <<>> ELSE <<list[k]>>]
           kept == FlattenSeq(lists)
           t == DropPromoted(s)
           left == {list[j] : j \in DOMAIN list \ s.gone}
<1>1. t = [s EXCEPT !.candidates = kept]
  BY DEF DropPromoted
<1>2. kept \in Seq(left) /\ left \subseteq Waiting
  <2>1. list \in Seq(Waiting)
    BY DEF IsSession
  <2>2. Len(list) \in Nat /\ DOMAIN list = 1 .. Len(list) /\ left \subseteq Waiting
    BY <2>1
  <2>3. ASSUME NEW k \in DOMAIN list
        PROVE  (IF k \in s.gone THEN <<>> ELSE <<list[k]>>) \in Seq(left)
    <3>1. k \notin s.gone => list[k] \in left
      OBVIOUS
    <3> DEFINE x == list[k]
    <3> HIDE DEF list, x, left
    <3>2. <<>> \in Seq(left) /\ (k \notin s.gone => <<x>> \in Seq(left))
      BY <3>1 DEF x
    <3> QED
      BY <3>2 DEF x
  <2> HIDE DEF left
  <2>4. lists \in [1 .. Len(list) -> Seq(left)]
    <3> HIDE DEF list
    <3> QED
      BY <2>2, <2>3
  <2>5. lists \in Seq(Seq(left))
    <3> HIDE DEF lists, list
    <3> QED
      BY <2>2, <2>4
  <2> HIDE DEF lists
  <2> QED
    BY <2>2, <2>5, Flattened
<1> HIDE DEF kept
<1>3. /\ t.speakers = s.speakers /\ t.snapshot = s.snapshot /\ t.confirmed = s.confirmed
      /\ t.candidates = kept /\ t.origin = s.origin /\ DOMAIN t = DOMAIN s /\ t.shown = s.shown
  BY <1>1 DEF IsSession
<1> HIDE DEF t
<1>4. IsSession(t)
  <2> HIDE DEF left
  <2>1. kept \in Seq(Waiting)
    BY <1>2, Widened
  <2> QED
    BY <1>3, <2>1 DEF IsSession
<1> QED
  BY <1>2, <1>3, <1>4 DEF t

\* What a window shows as confirmed: each label once.
OneEach(pairs) == \A a, b \in pairs : a[2] = b[2] => a = b

LEMMA ShownOnce ==
    ASSUME NEW old, NEW w, IsHeard(w, old), NEW canonical, NEW links, NEW edges,
           IsLinking(links, edges), IsMatch(w.match, canonical, w.provider, links), NEW s
    PROVE  OneEach(Shown(s, old.speakers, w.match, w.stable))
<1> DEFINE label == w.match.label
           sure == {r \in DOMAIN label : w.stable[r] # <<>> /\ IsConfirmed(w.match, r)}
           fresh == (DOMAIN s.speakers \ DOMAIN old.speakers) \cap s.confirmed
           shows == Shown(s, old.speakers, w.match, w.stable)
<1>1. shows = {<<q, label[q]>> : q \in sure} \cup {<<0, l>> : l \in fresh}
  BY DEF Shown
<1>2. \A q \in sure : /\ q \in DOMAIN label /\ label[q] \in DOMAIN old.speakers
                      /\ q \in DOMAIN links /\ links[q] = label[q]
  BY DEF IsConfirmed, IsHeard, IsMatch
<1>3. \A l \in fresh : l \notin DOMAIN old.speakers
  OBVIOUS
<1> HIDE DEF sure, fresh, shows, label
<1>4. \A q, r \in sure : label[q] = label[r] => q = r
  BY <1>2 DEF IsLinking
<1> SUFFICES ASSUME NEW a \in shows, NEW b \in shows, a[2] = b[2] PROVE a = b
  BY DEF OneEach, shows
<1>5. (\E q \in sure : a = <<q, label[q]>>) \/ (\E l \in fresh : a = <<0, l>>)
  BY <1>1
<1>6. (\E q \in sure : b = <<q, label[q]>>) \/ (\E l \in fresh : b = <<0, l>>)
  BY <1>1
<1> QED
  BY <1>2, <1>3, <1>4, <1>5, <1>6

LEMMA ShownAre ==
    ASSUME NEW s, NEW old, NEW match, NEW stable, NEW p \in Shown(s, old, match, stable), p[1] # 0
    PROVE  p[1] \in DOMAIN match.label /\ p[2] = match.label[p[1]]
<1> DEFINE sure == {r \in DOMAIN match.label : stable[r] # <<>> /\ IsConfirmed(match, r)}
           fresh == (DOMAIN s.speakers \ DOMAIN old) \cap s.confirmed
<1>1. Shown(s, old, match, stable) = {<<q, match.label[q]>> : q \in sure} \cup {<<0, l>> : l \in fresh}
  BY DEF Shown
<1>2. \A q \in sure : q \in DOMAIN match.label
  OBVIOUS
<1> HIDE DEF sure, fresh
<1>3. (\E q \in sure : p = <<q, match.label[q]>>) \/ (\E l \in fresh : p = <<0, l>>)
  BY <1>1
<1> QED
  BY <1>2, <1>3

LEMMA MatchedInWindow ==
    ASSUME NEW canonical, DOMAIN canonical \in SUBSET Int, IsFiniteSet(DOMAIN canonical),
           NEW provider, DOMAIN provider \in SUBSET Int, IsFiniteSet(DOMAIN provider), NEW w
    PROVE  \E links, edges : /\ IsLinking(links, edges)
                             /\ IsMatch(MatchWindow(canonical, provider, w), canonical, provider, links)
<1> DEFINE cf == [x \in DOMAIN canonical |-> Clip(canonical[x], w)]
           pf == [x \in DOMAIN provider |-> Clip(provider[x], w)]
           ct == Table(cf)
           pt == Table(pf)
           scores == Scores(ct, pt)
<1>1. MatchWindow(canonical, provider, w) = MatchOn(scores, canonical, provider, TRUE)
  BY DEF MatchWindow
<1>2. DOMAIN ct = DOMAIN canonical /\ DOMAIN pt = DOMAIN provider
  <2>1. DOMAIN cf = DOMAIN canonical /\ DOMAIN pf = DOMAIN provider
    OBVIOUS
  <2> HIDE DEF cf, pf
  <2>2. DOMAIN ct = DOMAIN cf /\ DOMAIN pt = DOMAIN pf
    BY TableOf
  <2> QED
    BY <2>1, <2>2
<1> HIDE DEF ct, pt
<1>3. DOMAIN scores \subseteq (DOMAIN ct) \X (DOMAIN pt)
  BY ScoresOf
<1> HIDE DEF scores
<1>4. IsSides(scores, canonical, provider)
  BY <1>2, <1>3 DEF IsSides
<1>5. IsLinking(ByShared(scores, provider), Clear(scores, provider))
  BY <1>4, SharedLinks
<1>6. IsMatch(MatchOn(scores, canonical, provider, TRUE), canonical, provider, ByShared(scores, provider))
  BY <1>4, Matched
<1> QED
  BY <1>1, <1>5, <1>6

\* What holds of the session after a window, and of what the window shows.
IsApplied(t, s, n) ==
    /\ IsSession(t)
    /\ DOMAIN s.speakers \subseteq DOMAIN t.speakers
    /\ OneEach(t.shown)
    /\ \A l \in s.confirmed :
          (DOMAIN t.speakers # DOMAIN s.speakers /\ s.speakers[l] # <<>>) =>
              \/ Window(n)[1] - LatestEnd(s.speakers[l]) <= Horizon
              \/ l \in DOMAIN t.snapshot

\* Nothing is linked to a speaker that has been silent for long: the reference of the last
\* window does not have it, and without one it is too far from all that is heard.
Reference(s) == IF s.snapshot # <<>> THEN s.snapshot ELSE s.speakers

LEMMA SilentIsUnlinked ==
    ASSUME talk \in Talks, NEW s, IsSession(s), NEW provider, NEW n, IsClipped(provider, n),
           DOMAIN provider \in SUBSET Int, IsFiniteSet(DOMAIN provider),
           DOMAIN Reference(s) \in SUBSET Int, IsFiniteSet(DOMAIN Reference(s)),
           NEW l \in s.confirmed, IsSilent(s, l, n),
           NEW q \in DOMAIN MatchWindow(Reference(s), provider, Window(n)).label,
           MatchWindow(Reference(s), provider, Window(n)).label[q] \in DOMAIN Reference(s)
    PROVE  MatchWindow(Reference(s), provider, Window(n)).label[q] # l
<1>1. CASE s.snapshot # <<>>
  BY <1>1 DEF IsSilent, Reference
<1>2. CASE s.snapshot = <<>>
  <2> DEFINE canonical == Reference(s)
             spans == canonical[l]
             w == Window(n)
             a == w[1]
             v == LatestEnd(spans)
  <2>1. canonical = s.speakers
    BY <1>2 DEF Reference
  <2>2. l \in DOMAIN canonical /\ spans \in Spans /\ spans # <<>> /\ a - v > Horizon
    BY <2>1 DEF IsSession, IsSilent
  <2>3. n \in Nat \ {0} /\ n \in Int
    BY LiveAssumption DEF IsClipped
  <2>4. w \in Int \X Int /\ a \in Int
    BY <2>3, WindowsAre
  <2>5. \A r \in DOMAIN provider : provider[r] \in Seq(Within(w))
    BY DEF IsClipped
  <2>6. DOMAIN canonical \in SUBSET Int /\ IsFiniteSet(DOMAIN canonical)
    OBVIOUS
  <2>7. q \in DOMAIN MatchWindow(canonical, provider, w).label
    OBVIOUS
  <2> HIDE DEF canonical, w
  <2>8. \A r \in DOMAIN provider : provider[r] \in Spans
    <3>1. Within(w) \subseteq Int \X Int
      BY DEF Within
    <3> SUFFICES ASSUME NEW r \in DOMAIN provider PROVE provider[r] \in Spans
      OBVIOUS
    <3> QED
      BY <2>5, <3>1, Widened DEF Spans
  <2>9. v \in Int /\ \A i \in DOMAIN spans : spans[i][2] <= v
    BY <2>2, LatestIn
  <2> HIDE DEF spans, v, a
  <2>10. \A i \in DOMAIN spans : spans[i] \in Int \X Int /\ spans[i][2] <= v
    BY <2>2, <2>9 DEF Spans
  <2>11. v < a - 120
    BY <2>2, <2>4, <2>9 DEF Horizon
  <2>12. IsFarFrom(spans, provider)
    <3> SUFFICES ASSUME NEW r \in DOMAIN provider, NEW i \in DOMAIN provider[r], NEW j \in DOMAIN spans
                 PROVE  Gap(provider[r][i], spans[j]) > GapTolerance
      BY DEF IsFarFrom
    <3> DEFINE x == provider[r][i]
               y == spans[j]
    <3>1. x \in Within(w)
      BY <2>5
    <3>2. x \in Int \X Int /\ x[1] >= a
      <4> HIDE DEF x
      <4> QED
        BY <3>1 DEF Within, a
    <3>3. y \in Int \X Int /\ y[2] <= v
      BY <2>10
    <3> HIDE DEF x, y
    <3>4. ~(x[1] - y[2] <= 20)
      BY <2>4, <2>9, <2>11, <3>2, <3>3
    <3>5. Gap(x, y) \in Nat /\ ~(Gap(x, y) <= 20)
      BY <3>2, <3>3, <3>4, GapIs
    <3>6. Gap(x, y) > GapTolerance
      BY <3>5 DEF GapTolerance
    <3> QED
      BY <3>6 DEF x, y
  <2>13. Clip(spans, w) = <<>>
    <3>1. ASSUME NEW j \in DOMAIN spans PROVE ~(Overlap(spans[j], w) > 0)
      <4> DEFINE y == spans[j]
      <4>1. y \in Int \X Int /\ y[2] <= v
        BY <2>10
      <4> HIDE DEF y
      <4>2. ~(a < y[2])
        BY <2>4, <2>9, <2>11, <4>1
      <4>3. ~(Overlap(y, w) > 0)
        BY <2>4, <4>1, <4>2, OverlapIs DEF a
      <4> QED
        BY <4>3 DEF y
    <3> QED
      BY <2>2, <2>4, <3>1, SomeLeft
  <2>14. MatchWindow(canonical, provider, w).label[q] # l
    BY <2>2, <2>6, <2>7, <2>8, <2>12, <2>13, FarIsNotLinked DEF spans
  <2> QED
    BY <2>14 DEF canonical, w
<1> QED
  BY <1>1, <1>2

\* From one window to the next: what holds of the session when the window comes, and when
\* it has been applied.
LEMMA SpeechStarts ==
    ASSUME talk \in Talks, NEW s, IsSession(s), NEW w, IsClipped(w.provider, w.n),
           NEW m \in 0 .. w.n, HasSpeech(s, m),
           \A l \in s.confirmed : IsSilent(s, l, w.n) => ~IsLinkedTo(l, w)
    PROVE  IsSpoken([s EXCEPT !.snapshot = <<>>], s, w)
<1> DEFINE t == [s EXCEPT !.snapshot = <<>>]
           n == w.n
<1>1. t.speakers = s.speakers /\ t.snapshot = <<>> /\ t.candidates = s.candidates
  BY DEF IsSession
<1> HIDE DEF t
<1>2. n \in Nat \ {0}
  BY LiveAssumption DEF IsClipped
<1>3. ASSUME NEW k \in DOMAIN s.candidates PROVE IsReady(s.candidates[k], s, n)
  <2> DEFINE c == s.candidates[k]
  <2>1. IsCandidate(c, m) /\ (c.seen >= MinSnapshots => IsClosed(s, m))
    BY DEF HasSpeech
  <2> HIDE DEF c
  <2>2. m \in Nat \ {0} /\ m <= n /\ c.last \in 1 .. n
    BY <1>2, <2>1 DEF IsCandidate
  <2>3. IsCandidate(c, n)
    BY <2>1, <2>2 DEF IsCandidate
  <2>4. IsClosed(s, m) => IsClosed(s, n)
    <3>1. ASSUME NEW l \in s.confirmed, IsSilent(s, l, m) PROVE IsSilent(s, l, n)
      <4> DEFINE v == LatestEnd(s.speakers[l])
                 a == Window(m)[1]
                 b == Window(n)[1]
      <4>1. a \in Int /\ a \in {0, 40 * m - 80}
        BY <2>2, WindowIs
      <4>2. b \in Int /\ 0 <= b /\ 40 * n - 80 <= b
        BY <1>2, WindowIs
      <4>3. a <= b
        BY <1>2, <2>2, <4>1, <4>2
      <4>4. v \in Int
        BY <3>1, LatestIn DEF IsSession, IsSilent
      <4>5. a - v > 120
        BY <3>1 DEF IsSilent, Horizon
      <4> HIDE DEF a, b, v
      <4>6. b - v > 120
        BY <4>1, <4>2, <4>3, <4>4, <4>5
      <4> QED
        BY <3>1, <4>6 DEF IsSilent, Horizon, b, v
    <3> QED
      BY <3>1 DEF IsClosed
  <2>5. IsReady(c, s, n)
    BY <2>1, <2>3, <2>4 DEF IsReady
  <2> QED
    BY <2>5 DEF c
<1>4. \A l \in DOMAIN s.speakers : s.speakers[l] # <<>>
  BY DEF HasSpeech
<1>5. DOMAIN <<>> = {}
  OBVIOUS
<1>6. IsSpoken(t, s, w)
  BY <1>1, <1>3, <1>4, <1>5 DEF IsSpoken
<1> QED
  BY <1>6 DEF t

LEMMA SpeechStays ==
    ASSUME talk \in Talks, NEW old, IsSession(old), NEW w, IsHeard(w, old), NEW s, IsStage(s, old, w),
           IsSpoken(s, old, w), AllTaken(s, Len(s.candidates), w), NEW t,
           t.speakers = s.speakers, t.snapshot = s.snapshot, t.confirmed = s.confirmed,
           t.candidates \in Seq({s.candidates[j] : j \in DOMAIN s.candidates \ s.gone})
    PROVE  HasSpeech(t, w.n)
<1>1. ASSUME NEW k \in DOMAIN t.candidates
      PROVE  /\ IsCandidate(t.candidates[k], w.n)
             /\ t.candidates[k].seen >= MinSnapshots => IsClosed(t, w.n)
  <2> DEFINE left == {s.candidates[j] : j \in DOMAIN s.candidates \ s.gone}
             c == t.candidates[k]
  <2>1. c \in left
    OBVIOUS
  <2>2. PICK j \in DOMAIN s.candidates \ s.gone : c = s.candidates[j]
    BY <2>1
  <2> HIDE DEF c, left
  <2>3. IsCandidate(c, w.n)
    BY <2>2 DEF IsSpoken, IsReady
  <2>4. ASSUME c.seen >= MinSnapshots PROVE IsClosed(t, w.n)
    <3>1. DOMAIN s.candidates = 1 .. Len(s.candidates)
      BY DEF IsStage, IsSession
    <3>2. ~MayPromote(s, w.match, w.provider, w.n)
      BY <2>2, <2>4, <3>1 DEF AllTaken
    <3>3. IsClosed(s, w.n)
      BY <3>2, PromotionEnds
    <3> QED
      BY <3>3 DEF IsClosed, IsSilent
  <2> QED
    BY <2>3, <2>4 DEF c
<1> QED
  BY <1>1 DEF HasSpeech, IsSpoken

LEMMA MatchApplied ==
    ASSUME talk \in Talks, NEW s, IsSession(s), NEW w, IsHeard(w, s), NEW canonical, NEW links,
           NEW edges, IsLinking(links, edges), IsMatch(w.match, canonical, w.provider, links)
    PROVE  /\ IsApplied(AppliedMatch(s, w), s, w.n)
           /\ IsSpoken([s EXCEPT !.snapshot = <<>>], s, w) => HasSpeech(AppliedMatch(s, w), w.n)
           /\ KeepsVoices(s, AppliedMatch(s, w), s, w)
           /\ \A p \in AppliedMatch(s, w).shown :
                 p[1] # 0 => p[1] \in DOMAIN w.match.label /\ p[2] = w.match.label[p[1]]
<1> DEFINE start == [s EXCEPT !.snapshot = <<>>]
           linked == CommitAll(start, w)
           waited == RegisterAll(linked, w)
           promoted == PromoteAll(waited, w)
           shows == Shown(promoted, s.speakers, w.match, w.stable)
           last == [promoted EXCEPT !.shown = shows]
           t == AppliedMatch(s, w)
<1>1. t = DropPromoted(last)
  BY DEF AppliedMatch
<1>2. IsStage(start, s, w) /\ KeepsVoices(s, start, s, w)
  <2>1. /\ start.speakers = s.speakers /\ start.snapshot = <<>> /\ start.confirmed = s.confirmed
        /\ start.candidates = s.candidates /\ start.origin = s.origin /\ DOMAIN start = DOMAIN s
    BY DEF IsSession
  <2>2. DOMAIN <<>> = {}
    OBVIOUS
  <2> HIDE DEF start
  <2>3. IsSession(start)
    BY <2>1, <2>2 DEF IsSession
  <2>4. KeepsVoices(s, start, s, w)
    BY <2>1, <2>2 DEF KeepsVoices, Sounds, SpeaksAs, IsOf
  <2> QED
    BY <2>1, <2>3, <2>4 DEF IsStage
<1> HIDE DEF start
<1>3. /\ IsStage(linked, s, w)
      /\ IsSpoken(start, s, w) => IsSpoken(linked, s, w)
      /\ \A q \in DOMAIN w.match.label : w.match.label[q] \in DOMAIN linked.snapshot
      /\ KeepsVoices(start, linked, s, w)
  BY <1>2, CommittedAll
<1> HIDE DEF linked
<1>4. /\ IsStage(waited, s, w) /\ waited.snapshot = linked.snapshot
      /\ IsSpoken(linked, s, w) => IsSpoken(waited, s, w)
      /\ KeepsVoices(linked, waited, s, w)
  BY <1>3, RegisteredAll
<1> HIDE DEF waited
<1>5. /\ IsStage(promoted, s, w) /\ DOMAIN waited.snapshot \subseteq DOMAIN promoted.snapshot
      /\ AllTaken(promoted, Len(promoted.candidates), w)
      /\ IsSpoken(waited, s, w) => IsSpoken(promoted, s, w)
      /\ KeepsVoices(waited, promoted, s, w)
  BY <1>4, PromotedAll
<1> HIDE DEF promoted
<1>6. /\ OneEach(shows)
      /\ \A p \in shows : p[1] # 0 => p[1] \in DOMAIN w.match.label /\ p[2] = w.match.label[p[1]]
  <2>1. OneEach(shows)
    BY ShownOnce
  <2>2. ASSUME NEW p \in shows, p[1] # 0
        PROVE  p[1] \in DOMAIN w.match.label /\ p[2] = w.match.label[p[1]]
    BY <2>2, ShownAre
  <2> QED
    BY <2>1, <2>2
<1> HIDE DEF shows
<1>7. IsSession(promoted)
  BY <1>5 DEF IsStage
<1>8. /\ last.speakers = promoted.speakers /\ last.snapshot = promoted.snapshot
      /\ last.confirmed = promoted.confirmed /\ last.candidates = promoted.candidates
      /\ last.origin = promoted.origin /\ DOMAIN last = DOMAIN promoted /\ last.shown = shows
      /\ last.gone = promoted.gone
  BY <1>7 DEF IsSession
<1> HIDE DEF last
<1>9. IsSession(last)
  BY <1>7, <1>8 DEF IsSession
<1>10. /\ IsSession(t) /\ t.speakers = last.speakers /\ t.snapshot = last.snapshot
       /\ t.shown = last.shown /\ t.confirmed = last.confirmed
       /\ t.candidates \in Seq({last.candidates[j] : j \in DOMAIN last.candidates \ last.gone})
  BY <1>1, <1>9, Dropped
<1> HIDE DEF t
<1>11. ASSUME NEW l \in s.confirmed, DOMAIN t.speakers # DOMAIN s.speakers, s.speakers[l] # <<>>
       PROVE  \/ Window(w.n)[1] - LatestEnd(s.speakers[l]) <= Horizon
              \/ l \in DOMAIN t.snapshot
  <2>1. NobodySilent(s, w)
    BY <1>5, <1>8, <1>10, <1>11 DEF IsStage
  <2>2. IsLinkedTo(l, w) => l \in DOMAIN t.snapshot
    BY <1>3, <1>4, <1>5, <1>8, <1>10 DEF IsLinkedTo
  <2> QED
    BY <1>11, <2>1, <2>2 DEF NobodySilent
<1>12. IsApplied(t, s, w.n)
  <2>1. DOMAIN s.speakers \subseteq DOMAIN t.speakers
    BY <1>5, <1>8, <1>10 DEF IsStage
  <2> QED
    BY <1>6, <1>8, <1>10, <1>11, <2>1 DEF IsApplied
<1>13. ASSUME IsSpoken(start, s, w) PROVE HasSpeech(t, w.n)
  <2>1. IsSpoken(promoted, s, w)
    BY <1>3, <1>4, <1>5, <1>13
  <2>2. t.candidates \in Seq({promoted.candidates[j] : j \in DOMAIN promoted.candidates \ promoted.gone})
    BY <1>8, <1>10
  <2> QED
    BY <1>5, <1>8, <1>10, <2>1, <2>2, SpeechStays
<1>14. KeepsVoices(promoted, t, s, w)
  <2>1. t.speakers = promoted.speakers /\ t.snapshot = promoted.snapshot
    BY <1>8, <1>10
  <2>2. ASSUME NEW k \in DOMAIN t.candidates
        PROVE  \E j \in DOMAIN promoted.candidates : t.candidates[k] = promoted.candidates[j]
    BY <1>8, <1>10
  <2> QED
    BY <2>1, <2>2 DEF KeepsVoices, Sounds, SpeaksAs, IsOf
<1>15. KeepsVoices(s, t, s, w)
  <2>1. KeepsVoices(s, linked, s, w)
    BY <1>2, <1>3, ThenKeeps
  <2>2. KeepsVoices(s, waited, s, w)
    BY <1>4, <2>1, ThenKeeps
  <2>3. KeepsVoices(s, promoted, s, w)
    BY <1>5, <2>2, ThenKeeps
  <2> QED
    BY <1>14, <2>3, ThenKeeps
<1>16. \A p \in t.shown : p[1] # 0 => p[1] \in DOMAIN w.match.label /\ p[2] = w.match.label[p[1]]
  BY <1>6, <1>8, <1>10
<1> QED
  BY <1>12, <1>13, <1>15, <1>16 DEF t, start

\* A window whose clusters are of one voice each, applied to a session whose labels are,
\* leaves a session whose labels are, and shows no cluster under a label of another voice.
TellsApart(t, s, provider) ==
    \A said, ov, pv :
        IsTalk(said) /\ IsVoiced(provider, pv, said) /\ Sounds(s, s, ov, said) =>
            /\ Sounds(t, s, ov, said)
            /\ \A p \in t.shown :
                  p[1] # 0 => /\ p[1] \in DOMAIN provider /\ p[2] \in DOMAIN s.speakers
                              /\ pv[p[1]] = ov[p[2]]

LEMMA WindowApplied ==
    ASSUME talk \in Talks, NEW s, IsSession(s), NEW n \in Int,
           NEW provider, DOMAIN provider \in SUBSET (1 .. Clusters),
           \A q \in DOMAIN provider : provider[q] \in Spans
    PROVE  /\ IsApplied(Applied(s, provider, n), s, n)
           /\ \A m \in 0 .. n : HasSpeech(s, m) /\ IsClipped(provider, n) =>
                                    HasSpeech(Applied(s, provider, n), n)
           /\ TellsApart(Applied(s, provider, n), s, provider)
<1> DEFINE canonical == Reference(s)
           match == MatchWindow(canonical, provider, Window(n))
           cut == [q \in DOMAIN provider |-> Clip(provider[q], StablePart(n))]
           stable == Table(cut)
           w == [match |-> match, provider |-> provider, stable |-> stable, n |-> n]
<1>1. Applied(s, provider, n) = AppliedMatch(s, w)
  BY DEF Applied, Reference
<1>2. \A q \in DOMAIN provider : stable[q] = Clip(provider[q], StablePart(n)) /\ stable[q] \in Spans
  <2>1. \A q \in DOMAIN provider : Clip(provider[q], StablePart(n)) \in Spans
    BY Clipped, WindowsAre
  <2>2. /\ DOMAIN cut = DOMAIN provider
        /\ \A q \in DOMAIN provider : cut[q] = Clip(provider[q], StablePart(n)) /\ cut[q] \in Spans
    BY <2>1
  <2> HIDE DEF cut
  <2> QED
    BY <2>2, TableOf
<1>3. DOMAIN provider \in SUBSET Int /\ IsFiniteSet(DOMAIN provider)
  <2>1. IsFiniteSet(1 .. Clusters) /\ 1 .. Clusters \in SUBSET Int
    BY LiveAssumption, FS_Interval
  <2> QED
    BY <2>1, FS_Subset
<1>4. DOMAIN canonical \subseteq DOMAIN s.speakers
  BY DEF IsSession, Reference
<1>5. DOMAIN canonical \in SUBSET Int /\ IsFiniteSet(DOMAIN canonical)
  <2>1. PICK m \in 0 .. talk.maxSpeakers : DOMAIN s.speakers = 1 .. m
    BY DEF IsSession
  <2>2. IsFiniteSet(1 .. m) /\ 1 .. m \in SUBSET Int
    BY LiveAssumption, FS_Interval
  <2> HIDE DEF canonical
  <2>3. DOMAIN canonical \in SUBSET (1 .. m)
    BY <1>4, <2>1
  <2> QED
    BY <2>2, <2>3, FS_Subset
<1> HIDE DEF canonical, stable
<1>6. PICK links, edges : IsLinking(links, edges) /\ IsMatch(match, canonical, provider, links)
  BY <1>3, <1>5, MatchedInWindow
<1>7. w.match = match /\ w.provider = provider /\ w.stable = stable /\ w.n = n
  OBVIOUS
<1> HIDE DEF w, match
<1>8. IsHeard(w, s)
  BY <1>2, <1>4, <1>6, <1>7 DEF IsHeard, IsMatch
<1>9. /\ IsApplied(AppliedMatch(s, w), s, w.n)
      /\ IsSpoken([s EXCEPT !.snapshot = <<>>], s, w) => HasSpeech(AppliedMatch(s, w), w.n)
      /\ KeepsVoices(s, AppliedMatch(s, w), s, w)
      /\ \A p \in AppliedMatch(s, w).shown :
            p[1] # 0 => p[1] \in DOMAIN w.match.label /\ p[2] = w.match.label[p[1]]
  <2>1. IsMatch(w.match, canonical, w.provider, links) /\ IsLinking(links, edges)
    BY <1>6, <1>7
  <2> QED
    BY <1>8, <2>1, MatchApplied
<1>10. ASSUME NEW m \in 0 .. n, HasSpeech(s, m), IsClipped(provider, n)
       PROVE  IsSpoken([s EXCEPT !.snapshot = <<>>], s, w)
  <2>1. ASSUME NEW l \in s.confirmed, IsSilent(s, l, n), IsLinkedTo(l, w) PROVE FALSE
    <3>1. PICK q \in DOMAIN match.label : match.label[q] = l
      BY <1>7, <2>1 DEF IsLinkedTo
    <3>2. match.label[q] \in DOMAIN canonical
      BY <1>6 DEF IsMatch
    <3>3. match.label[q] # l
      BY <1>3, <1>5, <1>10, <2>1, <3>1, <3>2, SilentIsUnlinked DEF canonical, match
    <3> QED
      BY <3>1, <3>3
  <2> QED
    BY <1>7, <1>10, <2>1, SpeechStarts
<1>11. TellsApart(AppliedMatch(s, w), s, provider)
  <2> DEFINE t == AppliedMatch(s, w)
  <2> HIDE DEF t
  <2> SUFFICES ASSUME NEW said, NEW ov, NEW pv, IsTalk(said), IsVoiced(provider, pv, said),
                      Sounds(s, s, ov, said)
               PROVE  /\ Sounds(t, s, ov, said)
                      /\ \A p \in t.shown :
                            p[1] # 0 => /\ p[1] \in DOMAIN provider /\ p[2] \in DOMAIN s.speakers
                                        /\ pv[p[1]] = ov[p[2]]
    BY DEF TellsApart, t
  <2>1. IsVoiced(canonical, ov, said)
    <3>1. \A l \in DOMAIN s.speakers : IsOf(s, l, ov[l], said)
      BY DEF Sounds, SpeaksAs
    <3>2. DOMAIN s.snapshot \subseteq DOMAIN s.speakers
      BY DEF IsSession
    <3>3. IsVoiced(s.speakers, ov, said)
      BY <3>1 DEF IsOf, IsVoiced
    <3>4. IsVoiced(s.snapshot, ov, said)
      BY <3>1, <3>2 DEF IsOf, IsVoiced
    <3> QED
      BY <3>3, <3>4 DEF canonical, Reference
  <2>2. \A q \in DOMAIN match.label : pv[q] = ov[match.label[q]]
    <3>1. Window(n) \in Int \X Int
      BY WindowsAre
    <3> QED
      BY <1>3, <1>5, <2>1, <3>1, MatchIsOne DEF match
  <2>3. \A q \in DOMAIN provider : /\ pv[q] \in DOMAIN said /\ provider[q] \in Seq(said[pv[q]])
                                   /\ stable[q] \in Seq(said[pv[q]])
    <3>1. StablePart(n) \in Int \X Int
      BY WindowsAre
    <3> SUFFICES ASSUME NEW q \in DOMAIN provider
                 PROVE  /\ pv[q] \in DOMAIN said /\ provider[q] \in Seq(said[pv[q]])
                        /\ stable[q] \in Seq(said[pv[q]])
      OBVIOUS
    <3>2. pv[q] \in DOMAIN said /\ provider[q] \in Seq(said[pv[q]])
      BY DEF IsVoiced
    <3>3. Clip(provider[q], StablePart(n)) \in Seq(said[pv[q]])
      BY <3>1, <3>2, CutIsSaid
    <3> QED
      BY <1>2, <3>2, <3>3
  <2>4. BringsVoices(w, s, ov, pv, said)
    BY <1>7, <2>2, <2>3 DEF BringsVoices
  <2>5. Sounds(t, s, ov, said)
    BY <1>9, <2>4 DEF KeepsVoices, t
  <2>6. \A p \in t.shown : p[1] # 0 => p[1] \in DOMAIN match.label /\ p[2] = match.label[p[1]]
    BY <1>7, <1>9 DEF t
  <2>7. \A q \in DOMAIN match.label : q \in DOMAIN provider /\ match.label[q] \in DOMAIN s.speakers
    BY <1>7, <1>8 DEF IsHeard
  <2> QED
    BY <2>2, <2>5, <2>6, <2>7
<1> QED
  BY <1>1, <1>7, <1>9, <1>10, <1>11

-----------------------------------------------------------------------------
(* The live registry.                                                       *)

Session == [speakers |-> speakers, confirmed |-> confirmed, candidates |-> candidates,
            snapshot |-> snapshot, origin |-> origin, gone |-> {}, shown |-> {}]

\* The inductive invariant.
RegistryInv ==
    /\ talk \in Talks
    /\ sequence \in 0 .. talk.windows
    /\ IsSession(Session)
    /\ OneEach(shown)

LEMMA HeardAre ==
    ASSUME talk \in Talks, NEW n \in 1 .. talk.windows, NEW g \in Groupings[talk][n]
    PROVE  /\ DOMAIN Heard(g, n) \in SUBSET (1 .. Clusters)
           /\ \A q \in DOMAIN Heard(g, n) : Heard(g, n)[q] \in Spans
<1> DEFINE piece(q, t) == IF t \in DOMAIN g /\ g[t] = q THEN <<talk.turns[t]>> ELSE <<>>
           Lists(q) == [t \in DOMAIN talk.turns |-> piece(q, t)]
           heard == [q \in Range(g) \ {0} |-> Clip(FlattenSeq(Lists(q)), Window(n))]
<1>1. Heard(g, n) = Table(heard)
  BY DEF Heard
<1>2. talk.turns \in Seq(Int \X Int) /\ talk.windows \in Nat /\ n \in Int
  BY LiveAssumption
<1>3. g \in GroupingsOf(talk.turns, n)
  BY DEF Groupings
<1>4. Range(g) \ {0} \in SUBSET (1 .. Clusters)
  <2>1. g \in [InWindow(talk.turns, n) -> 0 .. Clusters]
    BY <1>3 DEF GroupingsOf
  <2>2. Clusters \in Nat
    BY LiveAssumption
  <2> QED
    BY <2>1, <2>2 DEF Range
<1>5. ASSUME NEW q PROVE Clip(FlattenSeq(Lists(q)), Window(n)) \in Spans
  <2> DEFINE turns0 == talk.turns
             lists == [t \in DOMAIN turns0 |-> piece(q, t)]
  <2>1. Len(turns0) \in Nat /\ DOMAIN turns0 = 1 .. Len(turns0) /\ turns0 \in Seq(Int \X Int)
    BY <1>2
  <2>2. ASSUME NEW t \in DOMAIN turns0 PROVE piece(q, t) \in Spans
    <3> DEFINE x == talk.turns[t]
    <3>1. x \in Int \X Int
      BY <1>2
    <3> HIDE DEF x
    <3>2. <<x>> \in Seq(Int \X Int) /\ <<>> \in Seq(Int \X Int)
      BY <3>1
    <3>3. piece(q, t) = <<x>> \/ piece(q, t) = <<>>
      BY DEF x
    <3> HIDE DEF piece
    <3> QED
      BY <3>2, <3>3 DEF Spans
  <2> HIDE DEF piece, turns0
  <2>3. lists \in [1 .. Len(turns0) -> Spans]
    BY <2>1, <2>2
  <2>4. lists = Lists(q)
    BY DEF turns0
  <2> HIDE DEF lists
  <2>5. lists \in Seq(Seq(Int \X Int))
    <3> DEFINE m == Len(turns0)
    <3>1. m \in Nat /\ lists \in [1 .. m -> Spans]
      BY <2>1, <2>3
    <3> HIDE DEF m
    <3>2. lists \in Seq(Spans)
      BY <3>1
    <3> QED
      BY <3>2 DEF Spans
  <2>6. FlattenSeq(lists) \in Spans
    BY <2>5, Flattened DEF Spans
  <2> QED
    BY <1>2, <2>4, <2>6, Clipped, WindowsAre
<1> HIDE DEF Lists
<1>6. DOMAIN heard = Range(g) \ {0} /\ \A q \in DOMAIN heard : heard[q] \in Spans
  BY <1>5
<1> HIDE DEF heard
<1> QED
  BY <1>1, <1>4, <1>6, TableOf

\* Each cluster of a window has speech in it, and no more spans than there are turns.
LEMMA HeardClipped ==
    ASSUME talk \in Talks, HasRoom(talk), NEW n \in 1 .. talk.windows, NEW g \in Groupings[talk][n]
    PROVE  IsClipped(Heard(g, n), n)
<1> DEFINE all == talk.turns
           Own(q) == {t \in DOMAIN all : t \in DOMAIN g /\ g[t] = q}
           Lists(q) == [t \in DOMAIN all |-> IF t \in DOMAIN g /\ g[t] = q THEN <<all[t]>> ELSE <<>>]
           heard == [q \in Range(g) \ {0} |-> Clip(FlattenSeq(Lists(q)), Window(n))]
           w == Window(n)
<1>1. Heard(g, n) = Table(heard)
  BY DEF Heard
<1>2. all \in Seq(Int \X Int) /\ n \in Int /\ w \in Int \X Int
  <2>1. talk.windows \in Nat /\ n \in Int
    BY LiveAssumption
  <2>2. w \in Int \X Int
    BY <2>1, WindowsAre
  <2> QED
    BY <2>1, <2>2, LiveAssumption
<1>3. g \in [InWindow(all, n) -> 0 .. Clusters]
  BY DEF Groupings, GroupingsOf
<1>4. /\ InWindow(all, n) \subseteq DOMAIN all /\ IsFiniteSet(InWindow(all, n))
      /\ \A t \in InWindow(all, n) : Overlap(all[t], w) > 0
  <2> DEFINE m == Len(all)
  <2>1. m \in Nat /\ DOMAIN all = 1 .. m
    BY <1>2
  <2> HIDE DEF m
  <2>2. InWindow(all, n) \in SUBSET (1 .. m) /\ IsFiniteSet(1 .. m)
    BY <2>1, FS_Interval DEF InWindow
  <2>3. IsFiniteSet(InWindow(all, n))
    BY <2>2, FS_Subset
  <2> QED
    BY <2>3 DEF InWindow
<1> DEFINE IsPart(x) == /\ x \in Seq(Within(w)) /\ x # <<>>
                        /\ Len(x) <= Cardinality(InWindow(all, n))
<1>5. ASSUME NEW q \in Range(g) \ {0} PROVE IsPart(Clip(FlattenSeq(Lists(q)), w))
  <2> DEFINE S == {all[t] : t \in Own(q)}
             lists == Lists(q)
             flat == FlattenSeq(lists)
             own == Own(q)
             x == Clip(flat, w)
  <2>1. /\ own \subseteq InWindow(all, n) /\ own # {}
        /\ S \subseteq Int \X Int /\ \A y \in S : Overlap(y, w) > 0
    <3>1. own \subseteq InWindow(all, n)
      BY <1>3
    <3>2. PICK t \in DOMAIN g : g[t] = q
      BY DEF Range
    <3>3. t \in own
      BY <1>3, <1>4, <3>2
    <3>4. \A t0 \in own : all[t0] \in Int \X Int /\ Overlap(all[t0], w) > 0
      BY <1>2, <1>4, <3>1
    <3> QED
      BY <3>1, <3>3, <3>4
  <2>2. Len(all) \in Nat /\ DOMAIN all = 1 .. Len(all) /\ DOMAIN lists = DOMAIN all
    BY <1>2
  <2>3. ASSUME NEW t \in DOMAIN all
        PROVE  lists[t] \in Seq(S) /\ Len(lists[t]) <= 1 /\ (lists[t] # <<>> <=> t \in own)
    <3>1. CASE t \in own
      <4>1. lists[t] = <<all[t]>> /\ all[t] \in S
        BY <3>1
      <4> DEFINE y == all[t]
                 z == lists[t]
      <4>2. z = <<y>> /\ y \in S
        BY <4>1
      <4> HIDE DEF z, S, y, own
      <4>3. z \in Seq(S) /\ Len(z) <= 1 /\ z # <<>>
        BY <4>2
      <4> QED
        BY <3>1, <4>3 DEF z
    <3>2. CASE t \notin own
      <4>1. lists[t] = <<>>
        BY <3>2
      <4> HIDE DEF S, lists, own
      <4> QED
        BY <3>2, <4>1
    <3> QED
      BY <3>1, <3>2
  <2>4. own = {t \in DOMAIN lists : lists[t] # <<>>}
    <3>1. own \subseteq DOMAIN all
      OBVIOUS
    <3> HIDE DEF own, lists
    <3> QED
      BY <2>2, <2>3, <3>1
  <2> HIDE DEF S, lists, own
  <2>5. lists \in Seq(Seq(S))
    <3> DEFINE m == Len(all)
    <3>1. m \in Nat /\ DOMAIN lists = 1 .. m /\ \A t \in 1 .. m : lists[t] \in Seq(S)
      BY <2>2, <2>3
    <3>2. lists = [t \in DOMAIN lists |-> lists[t]]
      BY DEF lists
    <3> HIDE DEF m
    <3>3. lists \in [1 .. m -> Seq(S)]
      BY <3>1, <3>2
    <3> QED
      BY <3>1, <3>3
  <2>6. flat \in Seq(S) /\ Len(flat) = Cardinality(own)
    BY <2>2, <2>3, <2>4, <2>5, Flattened, Counted
  <2> HIDE DEF flat
  <2>7. Cardinality(own) <= Cardinality(InWindow(all, n)) /\ Cardinality(own) \in Nat \ {0}
        /\ Cardinality(InWindow(all, n)) \in Nat
    BY <1>4, <2>1, FS_Subset, FS_EmptySet, FS_CardinalityType
  <2>8. flat \in Spans
    BY <2>1, <2>6, Widened DEF Spans
  <2>9. 1 \in DOMAIN flat /\ flat[1] \in S
    BY <2>6, <2>7
  <2>10. x # <<>>
    BY <1>2, <2>1, <2>8, <2>9, SomeLeft
  <2>11. x \in Seq(Within(w)) /\ Len(x) <= Len(flat)
    BY <1>2, <2>8, Pieces, Clipped
  <2> HIDE DEF x
  <2>12. Len(x) \in Nat
    BY <2>11
  <2>13. Len(x) <= Cardinality(InWindow(all, n))
    BY <2>6, <2>7, <2>11, <2>12
  <2> QED
    BY <2>10, <2>11, <2>13 DEF x, flat, lists
<1> HIDE DEF Lists, IsPart
<1>6. DOMAIN heard = Range(g) \ {0} /\ \A q \in DOMAIN heard : IsPart(heard[q])
  BY <1>5
<1> HIDE DEF heard
<1>7. DOMAIN Heard(g, n) = DOMAIN heard /\ \A q \in DOMAIN heard : Heard(g, n)[q] = heard[q]
  BY <1>1, TableOf
<1> QED
  BY <1>6, <1>7 DEF IsClipped, IsPart

\* A window that is applied.
LEMMA FoldApplies ==
    ASSUME RegistryInv, NEW n \in 1 .. talk.windows, NEW g \in Groupings[talk][n],
           Fold(n, Heard(g, n))
    PROVE  /\ talk' = talk => IsSession(Session)' /\ OneEach(shown')
           /\ \A l \in confirmed :
                 (DOMAIN speakers' # DOMAIN speakers /\ speakers[l] # <<>>) =>
                     \/ Window(n)[1] - LatestEnd(speakers[l]) <= Horizon
                     \/ l \in DOMAIN snapshot'
           /\ \A m \in 0 .. n : HasRoom(talk) /\ HasSpeech(Session, m) /\ talk' = talk =>
                                    HasSpeech(Session, n)'
<1> DEFINE s == Session
           t == Applied(s, Heard(g, n), n)
<1>1. talk \in Talks /\ IsSession(s)
  BY DEF RegistryInv
<1>2. n \in Int
  <2>1. talk.windows \in Nat
    BY <1>1, LiveAssumption
  <2> QED
    BY <2>1
<1>3. s.speakers = speakers /\ s.confirmed = confirmed
  BY DEF Session
<1>4. Become(t)
  BY DEF Fold, Session
<1> HIDE DEF s
<1>5. IsApplied(t, s, n)
  BY <1>1, <1>2, HeardAre, WindowApplied
<1> HIDE DEF t
<1>6. IsSession(t) /\ OneEach(t.shown)
  BY <1>5 DEF IsApplied
<1>7. ASSUME talk' = talk PROVE IsSession(Session)' /\ OneEach(shown')
  <2>1. /\ Session'.speakers = t.speakers /\ Session'.confirmed = t.confirmed
        /\ Session'.candidates = t.candidates /\ Session'.snapshot = t.snapshot
        /\ Session'.origin = t.origin
        /\ DOMAIN Session' = {"speakers", "confirmed", "candidates", "snapshot", "origin", "gone", "shown"}
    BY <1>4 DEF Become, Session
  <2>2. Waiting' = Waiting
    BY <1>7 DEF Waiting, Spans
  <2>3. IsSession(Session)'
    BY <1>6, <1>7, <2>1, <2>2 DEF IsSession
  <2> QED
    BY <1>4, <1>6, <2>3 DEF Become
<1>9. ASSUME NEW m \in 0 .. n, HasRoom(talk), HasSpeech(s, m), talk' = talk
      PROVE  HasSpeech(Session, n)'
  <2>1. HasSpeech(t, n)
    BY <1>1, <1>2, <1>9, HeardAre, HeardClipped, WindowApplied DEF t
  <2>2. /\ Session'.speakers = t.speakers /\ Session'.confirmed = t.confirmed
        /\ Session'.candidates = t.candidates /\ Session'.snapshot = t.snapshot
    BY <1>4 DEF Become, Session
  <2> QED
    BY <1>9, <2>1, <2>2 DEF HasSpeech, IsCandidate, IsClosed, IsSilent
<1>8. DOMAIN speakers' = DOMAIN t.speakers /\ snapshot' = t.snapshot
  BY <1>4 DEF Become
<1> QED
  BY <1>3, <1>5, <1>7, <1>8, <1>9 DEF IsApplied, s

LEMMA FoldTells ==
    ASSUME RegistryInv, NEW n \in 1 .. talk.windows, NEW g \in Groupings[talk][n],
           Fold(n, Heard(g, n))
    PROVE  \E t : /\ Become(t) /\ DOMAIN speakers \subseteq DOMAIN t.speakers
                  /\ TellsApart(t, Session, Heard(g, n))
<1> DEFINE t == Applied(Session, Heard(g, n), n)
<1>1. talk \in Talks /\ IsSession(Session) /\ Session.speakers = speakers
  BY DEF RegistryInv, Session
<1>2. n \in Int
  <2>1. talk.windows \in Nat
    BY <1>1, LiveAssumption
  <2> QED
    BY <2>1
<1>3. Become(t)
  BY DEF Fold, Session
<1>4. IsApplied(t, Session, n) /\ TellsApart(t, Session, Heard(g, n))
  BY <1>1, <1>2, HeardAre, WindowApplied
<1> HIDE DEF t
<1> QED
  BY <1>1, <1>3, <1>4 DEF IsApplied

LEMMA RegistryInit == VoicesInit => RegistryInv
<1> SUFFICES ASSUME VoicesInit PROVE RegistryInv
  OBVIOUS
<1>1. /\ talk \in Talks /\ sequence = 0 /\ shown = {}
      /\ speakers = <<>> /\ confirmed = {} /\ candidates = <<>> /\ snapshot = <<>> /\ origin = <<>>
  BY DEF VoicesInit, Init
<1>2. talk.windows \in Nat /\ talk.maxSpeakers \in Nat
  BY <1>1, LiveAssumption
<1>3. DOMAIN <<>> = {} /\ {} = 1 .. 0 /\ 0 \in 0 .. talk.maxSpeakers /\ <<>> \in Seq(Waiting)
  BY <1>2
<1>4. /\ Session.speakers = <<>> /\ Session.confirmed = {} /\ Session.candidates = <<>>
      /\ Session.snapshot = <<>> /\ Session.origin = <<>>
      /\ DOMAIN Session = {"speakers", "confirmed", "candidates", "snapshot", "origin", "gone", "shown"}
  BY <1>1 DEF Session
<1>5. IsSession(Session)
  BY <1>3, <1>4 DEF IsSession
<1> QED
  BY <1>1, <1>2, <1>5 DEF RegistryInv, OneEach

\* The window that the step applies.
Applies(n) == \E g \in Groupings[talk][n] : Fold(n, Heard(g, n))

LEMMA StepApplies ==
    ASSUME RegistryInv, Next
    PROVE  /\ talk' = talk /\ sequence' \in 1 .. talk.windows
           /\ Applies(sequence')
<1>1. talk.windows \in Nat /\ sequence \in 0 .. talk.windows
  BY LiveAssumption DEF RegistryInv
<1>2. CASE HearNext
  BY <1>1, <1>2 DEF HearNext, ApplyNext, Applies
<1>3. CASE HearAgain
  BY <1>1, <1>3 DEF HearAgain, ApplyAgain, Applies
<1> QED
  BY <1>2, <1>3 DEF Next

\* The inductive invariant of the registry.
THEOREM RegistryTheorem == Spec => []RegistryInv
<1>1. RegistryInv /\ [Next]_allVars => RegistryInv'
  <2> SUFFICES ASSUME RegistryInv, [Next]_allVars PROVE RegistryInv'
    OBVIOUS
  <2>1. CASE Next
    <3>1. talk' = talk /\ sequence' \in 1 .. talk.windows /\ Applies(sequence')
      BY <2>1, StepApplies
    <3>2. IsSession(Session)' /\ OneEach(shown')
      BY <3>1, FoldApplies DEF Applies
    <3>3. talk.windows \in Nat
      BY LiveAssumption DEF RegistryInv
    <3> QED
      BY <3>1, <3>2, <3>3 DEF RegistryInv, OneEach
  <2>2. CASE UNCHANGED allVars
    <3>1. /\ UNCHANGED talk /\ UNCHANGED sequence /\ UNCHANGED shown /\ Session' = Session
      BY <2>2 DEF allVars, vars, Session
    <3>2. Waiting' = Waiting
      BY <3>1 DEF Waiting, Spans
    <3>3. IsSession(Session)'
      BY <3>1, <3>2 DEF RegistryInv, IsSession
    <3> QED
      BY <3>1, <3>3 DEF RegistryInv, OneEach
  <2> QED
    BY <2>1, <2>2
<1> QED
  BY <1>1, RegistryInit, PTL DEF Spec

\* The speakers are Kişi 1 to Kişi n without a gap, never more than the user said there
\* are and none with more spans than the cap, for every recording and every grouping of
\* its turns (next_canonical_label, apply_window).
THEOREM DenseTheorem == Spec => []DenseAndBounded
<1>1. RegistryInv => DenseAndBounded
  <2> SUFFICES ASSUME RegistryInv PROVE DenseAndBounded
    OBVIOUS
  <2>1. /\ IsSession(Session) /\ Session.speakers = speakers
        /\ talk.maxSpeakers \in Nat
    BY LiveAssumption DEF RegistryInv, Session
  <2>2. PICK n \in 0 .. talk.maxSpeakers : DOMAIN speakers = 1 .. n
    BY <2>1 DEF IsSession
  <2>3. Cardinality(1 .. n) = n
    <3>1. Cardinality(1 .. n) = IF 1 > n THEN 0 ELSE n - 1 + 1
      BY <2>1, FS_Interval
    <3> QED
      BY <2>1, <3>1
  <2> QED
    BY <2>1, <2>2, <2>3 DEF DenseAndBounded, IsSession
<1> QED
  BY <1>1, RegistryTheorem, PTL

\* No speaker is made from one window alone, whatever is heard and also when a window is
\* applied twice (_register_candidate).
THEOREM TwoWindowsTheorem == Spec => []PromotedOnTwoWindows
<1>1. RegistryInv => PromotedOnTwoWindows
  BY DEF RegistryInv, IsSession, Session, PromotedOnTwoWindows
<1> QED
  BY <1>1, RegistryTheorem, PTL

\* A window never shows two clusters under one confirmed label: the links it confirms are
\* a one-to-one matching, and a label it makes is new (_is_confirmed).
THEOREM OneVoiceTheorem == Spec => []OneVoicePerLabel
<1>1. RegistryInv => OneVoicePerLabel
  BY DEF RegistryInv, OneEach, OneVoicePerLabel
<1> QED
  BY <1>1, RegistryTheorem, PTL

\* A step that makes a new speaker while a confirmed one has fallen silent hears that one
\* again (_stale_confirmed_speakers, _may_promote).
THEOREM SilenceTheorem == Spec => NoNewSpeakerInSilence
<1>1. RegistryInv /\ [Next]_allVars =>
          [\A l \in confirmed :
              (DOMAIN speakers' # DOMAIN speakers /\ speakers[l] # <<>>) =>
                  \/ Window(sequence')[1] - LatestEnd(speakers[l]) <= Horizon
                  \/ l \in DOMAIN snapshot']_allVars
  <2> SUFFICES ASSUME RegistryInv, Next
               PROVE  \A l \in confirmed :
                         (DOMAIN speakers' # DOMAIN speakers /\ speakers[l] # <<>>) =>
                             \/ Window(sequence')[1] - LatestEnd(speakers[l]) <= Horizon
                             \/ l \in DOMAIN snapshot'
    OBVIOUS
  <2>1. talk' = talk /\ sequence' \in 1 .. talk.windows /\ Applies(sequence')
    BY StepApplies
  <2> QED
    BY <2>1, FoldApplies DEF Applies
<1> QED
  BY <1>1, RegistryTheorem, PTL DEF Spec, NoNewSpeakerInSilence

\* Whoever takes one of the places has committed speech, in every recording in which a
\* candidate can hold what is heard in two windows: the windows it is promoted on lie close
\* enough together for its speech to reach into the stable part of the second, and a
\* candidate that has to wait there waits for good. With less room the newest spans
\* displace the ones that reach that far (_register_candidate, apply_window).
SpeechInv == HasRoom(talk) => HasSpeech(Session, sequence)

THEOREM SpeechTheorem == Spec => [](HasRoom(talk) => SpeakersHaveSpeech)
<1>1. VoicesInit => SpeechInv
  <2> SUFFICES ASSUME VoicesInit PROVE HasSpeech(Session, sequence)
    BY DEF SpeechInv
  <2>1. Session.speakers = <<>> /\ Session.candidates = <<>> /\ DOMAIN <<>> = {}
    BY DEF VoicesInit, Init, Session
  <2> QED
    BY <2>1 DEF HasSpeech
<1>2. RegistryInv /\ SpeechInv /\ [Next]_allVars => SpeechInv'
  <2> SUFFICES ASSUME RegistryInv, SpeechInv, [Next]_allVars PROVE SpeechInv'
    OBVIOUS
  <2>1. CASE Next
    <3>1. /\ talk' = talk /\ sequence' \in 1 .. talk.windows /\ Applies(sequence')
          /\ sequence \in 0 .. sequence'
      <4>1. sequence \in Nat /\ sequence' \in Nat
        BY <2>1, StepApplies, LiveAssumption DEF RegistryInv
      <4>2. sequence' = sequence \/ sequence' = sequence + 1
        BY <2>1 DEF Next, HearNext, HearAgain, ApplyNext, ApplyAgain
      <4> QED
        BY <2>1, <4>1, <4>2, StepApplies
    <3>2. HasRoom(talk) => HasSpeech(Session, sequence)'
      <4> DEFINE n == sequence'
      <4>1. PICK g \in Groupings[talk][n] : Fold(n, Heard(g, n))
        BY <3>1 DEF Applies
      <4> SUFFICES ASSUME HasRoom(talk) PROVE HasSpeech(Session, sequence)'
        OBVIOUS
      <4>2. HasSpeech(Session, sequence)
        BY DEF SpeechInv
      <4> QED
        BY <3>1, <4>1, <4>2, FoldApplies
    <3> QED
      BY <3>1, <3>2 DEF SpeechInv, HasRoom
  <2>2. CASE UNCHANGED allVars
    <3>1. UNCHANGED talk /\ UNCHANGED sequence /\ Session' = Session
      BY <2>2 DEF allVars, vars, Session
    <3> QED
      BY <3>1 DEF SpeechInv, HasRoom, HasSpeech, IsCandidate, IsClosed, IsSilent
  <2> QED
    BY <2>1, <2>2
<1>3. SpeechInv => (HasRoom(talk) => SpeakersHaveSpeech)
  BY DEF SpeechInv, HasSpeech, Session, SpeakersHaveSpeech
<1> QED
  BY <1>1, <1>2, <1>3, RegistryTheorem, PTL DEF Spec

-----------------------------------------------------------------------------
(* The voices of the live registry.                                         *)

\* The breaks between the turns of a recording are longer than the gap tolerance.
Breaks(t) == \A i, j \in DOMAIN t.turns : i # j => Gap(t.turns[i], t.turns[j]) > GapTolerance

\* What each voice of the recording says: the pieces of its turns.
SaidBy ==
    [x \in Voices \cup {Nobody} |->
        {a \in Int \X Int : \E t \in DOMAIN talk.turns : voice[t] = x /\ a \in Within(talk.turns[t])}]

\* The voices of the clusters of grouping g.
VoicesOf(g) == [q \in Range(g) |-> voice[CHOOSE t \in DOMAIN g : g[t] = q]]

LEMMA TalkIs ==
    ASSUME talk \in Talks, Breaks(talk)
    PROVE  IsTalk(SaidBy)
<1> DEFINE said == SaidBy
<1>1. \A x \in DOMAIN said :
         said[x] = {a \in Int \X Int : \E t \in DOMAIN talk.turns :
                                           voice[t] = x /\ a \in Within(talk.turns[t])}
  BY DEF SaidBy
<1> HIDE DEF said
<1>2. \A t \in DOMAIN talk.turns : talk.turns[t] \in Int \X Int
  BY LiveAssumption
<1>3. ASSUME NEW x \in DOMAIN said, NEW a \in said[x], NEW b \in Within(a) PROVE b \in said[x]
  <2>1. PICK t \in DOMAIN talk.turns : voice[t] = x /\ a \in Within(talk.turns[t])
    BY <1>1
  <2> DEFINE w == talk.turns[t]
  <2>2. w \in Int \X Int /\ a \in Within(w)
    BY <1>2, <2>1
  <2> HIDE DEF w
  <2>3. a \in Int \X Int /\ b \in Int \X Int
    BY <2>2 DEF Within
  <2>4. b \in Within(w)
    <3> DEFINE a1 == a[1]
               a2 == a[2]
               b1 == b[1]
               b2 == b[2]
    <3>1. /\ a1 \in Int /\ a2 \in Int /\ b1 \in Int /\ b2 \in Int /\ w[1] \in Int /\ w[2] \in Int
          /\ w[1] <= a1 /\ a2 <= w[2] /\ a1 <= b1 /\ b1 < b2 /\ b2 <= a2
      BY <2>2, <2>3 DEF Within
    <3> HIDE DEF a1, a2, b1, b2
    <3>2. w[1] <= b1 /\ b1 < b2 /\ b2 <= w[2]
      BY <3>1
    <3> QED
      BY <2>3, <3>2 DEF Within, b1, b2
  <2> QED
    BY <1>1, <2>1, <2>3, <2>4 DEF w
<1>4. ASSUME NEW x \in DOMAIN said, NEW y \in DOMAIN said, NEW a \in said[x], NEW b \in said[y],
             Gap(a, b) <= GapTolerance
      PROVE  x = y
  <2>1. PICK t \in DOMAIN talk.turns : voice[t] = x /\ a \in Within(talk.turns[t])
    BY <1>1
  <2>2. PICK u \in DOMAIN talk.turns : voice[u] = y /\ b \in Within(talk.turns[u])
    BY <1>1
  <2> DEFINE l == talk.turns[t]
             r == talk.turns[u]
  <2>3. l \in Int \X Int /\ r \in Int \X Int /\ a \in Within(l) /\ b \in Within(r)
    BY <1>2, <2>1, <2>2
  <2> HIDE DEF l, r
  <2>4. Gap(l, r) <= GapTolerance /\ Gap(l, r) \in Nat
    <3>1. a \in Int \X Int /\ b \in Int \X Int /\ GapTolerance \in Nat
      BY <2>3 DEF Within, GapTolerance
    <3>2. b[1] - a[2] <= 20 /\ a[1] - b[2] <= 20
      BY <1>4, <3>1, GapIs DEF GapTolerance
    <3> DEFINE a1 == a[1]
               a2 == a[2]
               b1 == b[1]
               b2 == b[2]
               l1 == l[1]
               l2 == l[2]
               r1 == r[1]
               r2 == r[2]
    <3>3. /\ a1 \in Int /\ a2 \in Int /\ b1 \in Int /\ b2 \in Int
          /\ l1 \in Int /\ l2 \in Int /\ r1 \in Int /\ r2 \in Int
          /\ l1 <= a1 /\ a2 <= l2 /\ r1 <= b1 /\ b2 <= r2
          /\ b1 - a2 <= 20 /\ a1 - b2 <= 20
      BY <2>3, <3>1, <3>2 DEF Within
    <3> HIDE DEF a1, a2, b1, b2, l1, l2, r1, r2
    <3>4. r1 - l2 <= 20 /\ l1 - r2 <= 20
      BY <3>3
    <3> QED
      BY <2>3, <3>1, <3>4, GapIs DEF GapTolerance, l1, l2, r1, r2
  <2>5. t = u
    BY <2>4 DEF Breaks, GapTolerance, l, r
  <2> QED
    BY <2>1, <2>2, <2>5
<1>5. \A x \in DOMAIN said : said[x] \subseteq Int \X Int
  BY <1>1
<1>6. IsTalk(said)
  BY <1>3, <1>4, <1>5 DEF IsTalk
<1> QED
  BY <1>6 DEF said

LEMMA HeardIsOne ==
    ASSUME talk \in Talks, Breaks(talk), talk.faithful,
           voice \in [DOMAIN talk.turns -> Voices \cup {Nobody}],
           NEW n \in 1 .. talk.windows, NEW g \in Groupings[talk][n], Faithful(g)
    PROVE  /\ IsVoiced(Heard(g, n), VoicesOf(g), SaidBy)
           /\ \A q \in DOMAIN Heard(g, n) : \A v \in StableVoices(g, q, n) : v = VoicesOf(g)[q]
<1> DEFINE all == talk.turns
           said == SaidBy
           Lists(q) == [t \in DOMAIN all |-> IF t \in DOMAIN g /\ g[t] = q THEN <<all[t]>> ELSE <<>>]
           heard == [q \in Range(g) \ {0} |-> Clip(FlattenSeq(Lists(q)), Window(n))]
           w == Window(n)
<1>1. Heard(g, n) = Table(heard)
  BY DEF Heard
<1>2. all \in Seq(Int \X Int) /\ n \in Int /\ w \in Int \X Int
  <2>1. talk.windows \in Nat /\ n \in Int
    BY LiveAssumption
  <2>2. w \in Int \X Int
    BY <2>1, WindowsAre
  <2> QED
    BY <2>1, <2>2, LiveAssumption
<1>3. /\ DOMAIN g = InWindow(all, n) /\ InWindow(all, n) \subseteq DOMAIN all
      /\ \A t \in InWindow(all, n) : Overlap(all[t], w) > 0
  BY DEF Groupings, GroupingsOf, InWindow
<1>4. ASSUME NEW q \in Range(g)
      PROVE  /\ VoicesOf(g)[q] \in DOMAIN said
             /\ \A t \in DOMAIN g : g[t] = q => voice[t] = VoicesOf(g)[q]
  <2> DEFINE u == CHOOSE t \in DOMAIN g : g[t] = q
  <2>1. u \in DOMAIN g /\ g[u] = q
    <3>1. \E t \in DOMAIN g : g[t] = q
      BY DEF Range
    <3> QED
      BY <3>1
  <2>2. VoicesOf(g)[q] = voice[u]
    BY DEF VoicesOf
  <2> HIDE DEF u
  <2>3. \A t \in DOMAIN g : g[t] = q => voice[t] = voice[u]
    BY <2>1 DEF Faithful
  <2>4. voice[u] \in DOMAIN said
    BY <1>3, <2>1 DEF SaidBy
  <2> QED
    BY <2>2, <2>3, <2>4
<1>5. \A t \in DOMAIN g : all[t] \in said[voice[t]]
  <2> SUFFICES ASSUME NEW t \in DOMAIN g PROVE all[t] \in said[voice[t]]
    OBVIOUS
  <2>1. t \in DOMAIN all /\ Overlap(all[t], w) > 0 /\ all[t] \in Int \X Int
    BY <1>2, <1>3
  <2>2. all[t][1] < all[t][2]
    BY <1>2, <2>1, OverlapIs
  <2>3. all[t] \in Within(all[t])
    BY <2>1, <2>2 DEF Within
  <2>4. voice[t] \in Voices \cup {Nobody}
    BY <2>1
  <2> QED
    BY <2>1, <2>3, <2>4 DEF SaidBy
<1>6. ASSUME NEW q \in Range(g) PROVE Clip(FlattenSeq(Lists(q)), w) \in Seq(said[VoicesOf(g)[q]])
  <2> DEFINE x == VoicesOf(g)[q]
             S == said[x]
             lists == Lists(q)
             flat == FlattenSeq(lists)
  <2>1. ASSUME NEW t \in DOMAIN all PROVE lists[t] \in Seq(S)
    <3>1. CASE t \in DOMAIN g /\ g[t] = q
      <4> DEFINE y == all[t]
                 z == lists[t]
      <4>1. z = <<y>> /\ y \in S
        BY <1>4, <1>5, <3>1
      <4> HIDE DEF z, S, y
      <4>2. z \in Seq(S)
        BY <4>1
      <4> QED
        BY <4>2 DEF z
    <3>2. CASE ~(t \in DOMAIN g /\ g[t] = q)
      <4>1. lists[t] = <<>>
        BY <3>2
      <4> HIDE DEF S, lists
      <4> QED
        BY <4>1
    <3> QED
      BY <3>1, <3>2
  <2>2. Len(all) \in Nat /\ DOMAIN all = 1 .. Len(all) /\ DOMAIN lists = DOMAIN all
    BY <1>2
  <2> HIDE DEF S
  <2>3. lists \in Seq(Seq(S))
    <3> DEFINE m == Len(all)
    <3>1. m \in Nat /\ DOMAIN lists = 1 .. m /\ \A t \in 1 .. m : lists[t] \in Seq(S)
      BY <2>1, <2>2
    <3>2. lists = [t \in DOMAIN lists |-> lists[t]]
      OBVIOUS
    <3> HIDE DEF m, lists
    <3>3. lists \in [1 .. m -> Seq(S)]
      BY <3>1, <3>2
    <3> QED
      BY <3>1, <3>3
  <2> HIDE DEF lists
  <2>4. flat \in Seq(said[x])
    BY <2>3, Flattened DEF S
  <2> HIDE DEF flat
  <2>5. x \in DOMAIN said /\ IsTalk(said)
    BY <1>4, TalkIs
  <2> HIDE DEF x, said
  <2>6. Clip(flat, w) \in Seq(said[x])
    BY <1>2, <2>4, <2>5, CutIsSaid
  <2> QED
    BY <2>6 DEF flat, lists, x, said
<1> HIDE DEF Lists
<1>7. DOMAIN heard = Range(g) \ {0} /\ \A q \in DOMAIN heard : heard[q] \in Seq(said[VoicesOf(g)[q]])
  BY <1>6
<1> HIDE DEF heard
<1>8. DOMAIN Heard(g, n) = DOMAIN heard /\ \A q \in DOMAIN heard : Heard(g, n)[q] = heard[q]
  BY <1>1, TableOf
<1> HIDE DEF said
<1>9. IsVoiced(Heard(g, n), VoicesOf(g), said)
  BY <1>4, <1>7, <1>8 DEF IsVoiced
<1>10. \A q \in DOMAIN Heard(g, n) : \A v \in StableVoices(g, q, n) : v = VoicesOf(g)[q]
  BY <1>4, <1>7, <1>8 DEF StableVoices
<1> QED
  BY <1>9, <1>10 DEF said

\* A session whose labels and candidates are of one voice each gives its labels voices, and
\* the labels of before keep theirs.
LEMMA NewVoices ==
    ASSUME NEW s, NEW t, NEW ov, NEW said, Sounds(t, s, ov, said)
    PROVE  \E nv : /\ Sounds(t, t, nv, said)
                   /\ \A l \in DOMAIN t.speakers : l \in DOMAIN s.speakers => nv[l] = ov[l]
<1> DEFINE Fits(l, x) == IsOf(t, l, x, said) /\ (l \in DOMAIN s.speakers => x = ov[l])
           nv == [l \in DOMAIN t.speakers |-> CHOOSE x \in DOMAIN said : Fits(l, x)]
<1>1. ASSUME NEW l \in DOMAIN t.speakers PROVE nv[l] \in DOMAIN said /\ Fits(l, nv[l])
  <2>1. \E x \in DOMAIN said : Fits(l, x)
    BY DEF Sounds, SpeaksAs
  <2> HIDE DEF Fits
  <2> QED
    BY <2>1
<1> HIDE DEF nv
<1>2. \A l \in DOMAIN t.speakers : SpeaksAs(t, l, t, nv, said)
  BY <1>1 DEF SpeaksAs
<1>3. Sounds(t, t, nv, said)
  BY <1>2 DEF Sounds
<1> QED
  BY <1>1, <1>3

\* The invariant: every label, with all that was shown under it, is of one voice.
VoiceInv ==
    IF talk.faithful
    THEN /\ voice \in [DOMAIN talk.turns -> Voices \cup {Nobody}]
         /\ Breaks(talk) =>
               \E ov : /\ Sounds(Session, Session, ov, SaidBy)
                       /\ \A p \in shownAs : p[2] \in DOMAIN speakers /\ p[1] = ov[p[2]]
    ELSE shownAs = {}

\* A window of a faithful recording with breaks.
LEMMA VoicesStay ==
    ASSUME RegistryInv, VoiceInv, talk.faithful, Breaks(talk), talk' = talk,
           NEW n \in 1 .. talk.windows, NEW g \in Groupings[talk][n], Faithful(g),
           Fold(n, Heard(g, n)), Shows(g, n)
    PROVE  \E nv : /\ Sounds(Session, Session, nv, SaidBy)'
                   /\ \A p \in shownAs' : p[2] \in DOMAIN speakers' /\ p[1] = nv[p[2]]
<1> DEFINE s == Session
           said == SaidBy
           pv == VoicesOf(g)
           provider == Heard(g, n)
<1>1. talk \in Talks /\ voice \in [DOMAIN talk.turns -> Voices \cup {Nobody}]
  BY DEF RegistryInv, VoiceInv
<1>2. PICK ov : /\ Sounds(s, s, ov, said)
                /\ \A p \in shownAs : p[2] \in DOMAIN speakers /\ p[1] = ov[p[2]]
  BY DEF VoiceInv
<1>3. PICK t : /\ Become(t) /\ DOMAIN speakers \subseteq DOMAIN t.speakers
               /\ TellsApart(t, s, provider)
  BY FoldTells
<1>4. /\ IsTalk(said) /\ IsVoiced(provider, pv, said)
      /\ \A q \in DOMAIN provider : \A v \in StableVoices(g, q, n) : v = pv[q]
  BY <1>1, TalkIs, HeardIsOne
<1>5. SaidBy' = said
  BY DEF SaidBy, Shows
<1>6. s.speakers = speakers
  BY DEF Session
<1> HIDE DEF s, said, pv, provider
<1>7. /\ Sounds(t, s, ov, said)
      /\ \A p \in t.shown :
            p[1] # 0 => /\ p[1] \in DOMAIN provider /\ p[2] \in DOMAIN s.speakers
                        /\ pv[p[1]] = ov[p[2]]
  BY <1>2, <1>3, <1>4 DEF TellsApart
<1>8. PICK nv : /\ Sounds(t, t, nv, said)
                /\ \A l \in DOMAIN t.speakers : l \in DOMAIN s.speakers => nv[l] = ov[l]
  BY <1>7, NewVoices
<1>9. Sounds(Session, Session, nv, SaidBy)'
  <2>1. /\ Session'.speakers = t.speakers /\ Session'.snapshot = t.snapshot
        /\ Session'.candidates = t.candidates
    BY <1>3 DEF Become, Session
  <2> QED
    BY <1>5, <1>8, <2>1 DEF Sounds, SpeaksAs, IsOf, IsSaid
<1>10. ASSUME NEW p \in shownAs' PROVE p[2] \in DOMAIN speakers' /\ p[1] = nv[p[2]]
  <2>1. speakers' = t.speakers /\ shown' = t.shown
    BY <1>3 DEF Become
  <2>2. p[2] \in DOMAIN speakers /\ p[1] = ov[p[2]]
    <3>1. CASE p \in shownAs
      BY <1>2, <3>1
    <3>2. CASE p \notin shownAs
      <4>1. PICK r \in shown' : r[1] # 0 /\ \E v \in StableVoices(g, r[1], n) : p = <<v, r[2]>>
        BY <3>2 DEF Shows
      <4>2. PICK v \in StableVoices(g, r[1], n) : p = <<v, r[2]>>
        BY <4>1
      <4>3. r[1] \in DOMAIN provider /\ r[2] \in DOMAIN s.speakers /\ pv[r[1]] = ov[r[2]]
        BY <1>7, <2>1, <4>1
      <4>4. v = pv[r[1]]
        BY <1>4, <4>3
      <4> QED
        BY <1>6, <4>2, <4>3, <4>4
    <3> QED
      BY <3>1, <3>2
  <2> QED
    BY <1>3, <1>6, <1>8, <2>1, <2>2
<1> QED
  BY <1>9, <1>10

LEMMA StepHears ==
    ASSUME RegistryInv, Next
    PROVE  \E n \in 1 .. talk.windows : \E g \in Groupings[talk][n] :
               Faithful(g) /\ Fold(n, Heard(g, n)) /\ Shows(g, n)
<1>1. talk.windows \in Nat /\ sequence \in 0 .. talk.windows
  BY LiveAssumption DEF RegistryInv
<1>2. CASE HearNext
  <2>1. PICK g \in Groupings[talk][sequence + 1] :
            Faithful(g) /\ ApplyNext(g) /\ Shows(g, sequence + 1)
    BY <1>2 DEF HearNext
  <2>2. sequence + 1 \in 1 .. talk.windows /\ Fold(sequence + 1, Heard(g, sequence + 1))
    BY <1>1, <1>2, <2>1 DEF HearNext, ApplyNext
  <2> QED
    BY <2>1, <2>2
<1>3. CASE HearAgain
  <2>1. PICK g \in Groupings[talk][sequence] : Faithful(g) /\ ApplyAgain(g) /\ Shows(g, sequence)
    BY <1>3 DEF HearAgain
  <2>2. sequence \in 1 .. talk.windows /\ Fold(sequence, Heard(g, sequence))
    BY <1>1, <1>3, <2>1 DEF HearAgain, ApplyAgain
  <2> QED
    BY <2>1, <2>2
<1> QED
  BY <1>2, <1>3 DEF Next

\* A label never changes hands: in every recording whose breaks are longer than the gap
\* tolerance, the speech confirmed under one label is of one voice, whatever the registry
\* has closed, capped or refused in the meantime. The speech of two voices lies further apart
\* than the tolerance, so neither an overlap, nor a gap link, nor a candidate can join
\* them (_match_known, _register_candidate, apply_window).
THEOREM VoiceTheorem == Spec => [](Breaks(talk) => PureLabels)
<1>1. VoicesInit => VoiceInv
  <2> SUFFICES ASSUME VoicesInit PROVE VoiceInv
    OBVIOUS
  <2>1. /\ shownAs = {}
        /\ talk.faithful => voice \in [DOMAIN talk.turns -> Voices \cup {Nobody}]
    BY DEF VoicesInit
  <2>2. Sounds(Session, Session, <<>>, SaidBy)
    <3>1. Session.speakers = <<>> /\ Session.candidates = <<>> /\ DOMAIN <<>> = {}
      BY DEF VoicesInit, Init, Session
    <3> QED
      BY <3>1 DEF Sounds
  <2> QED
    BY <2>1, <2>2 DEF VoiceInv
<1>2. RegistryInv /\ VoiceInv /\ [Next]_allVars => VoiceInv'
  <2> SUFFICES ASSUME RegistryInv, VoiceInv, [Next]_allVars PROVE VoiceInv'
    OBVIOUS
  <2>1. CASE Next
    <3>1. talk' = talk
      BY <2>1, StepApplies
    <3>2. PICK n \in 1 .. talk.windows : \E g \in Groupings[talk][n] :
              Faithful(g) /\ Fold(n, Heard(g, n)) /\ Shows(g, n)
      BY <2>1, StepHears
    <3>3. PICK g \in Groupings[talk][n] : Faithful(g) /\ Fold(n, Heard(g, n)) /\ Shows(g, n)
      BY <3>2
    <3>4. voice' = voice /\ (~ talk.faithful => shownAs' = shownAs)
      BY <3>3 DEF Shows
    <3>5. CASE talk.faithful /\ Breaks(talk)
      <4>1. \E nv : /\ Sounds(Session, Session, nv, SaidBy)'
                    /\ \A p \in shownAs' : p[2] \in DOMAIN speakers' /\ p[1] = nv[p[2]]
        BY <3>1, <3>3, <3>5, VoicesStay
      <4> QED
        BY <3>1, <3>4, <3>5, <4>1 DEF VoiceInv
    <3>6. CASE ~(talk.faithful /\ Breaks(talk))
      BY <3>1, <3>4, <3>6 DEF VoiceInv, Breaks
    <3> QED
      BY <3>5, <3>6
  <2>2. CASE UNCHANGED allVars
    <3>1. /\ UNCHANGED talk /\ UNCHANGED voice /\ UNCHANGED shownAs /\ UNCHANGED speakers
          /\ Session' = Session
      BY <2>2 DEF allVars, vars, Session
    <3>2. SaidBy' = SaidBy
      BY <3>1 DEF SaidBy
    <3> QED
      BY <3>1, <3>2 DEF VoiceInv, Breaks, Sounds, SpeaksAs, IsOf, IsSaid
  <2> QED
    BY <2>1, <2>2
<1>3. VoiceInv => (Breaks(talk) => PureLabels)
  BY DEF VoiceInv, PureLabels
<1> QED
  BY <1>1, <1>2, <1>3, RegistryTheorem, PTL DEF Spec

-----------------------------------------------------------------------------
(* Numbers of the final pass.                                              *)

LEMMA FirstIn ==
    ASSUME NEW spans \in Spans
    PROVE  FirstSpeech(spans) \in Int
<1> DEFINE starts == [i \in DOMAIN spans |-> spans[i][1]]
<1>1. CASE spans = <<>>
  BY <1>1 DEF FirstSpeech
<1>2. CASE spans # <<>>
  <2>1. \A i \in DOMAIN spans : spans[i] \in Int \X Int
    BY DEF Spans
  <2>2. DOMAIN spans = 1 .. Len(spans) /\ Len(spans) \in Nat \ {0}
    BY <1>2 DEF Spans
  <2>3. starts \in Seq(Int) /\ starts # <<>> /\ DOMAIN starts = DOMAIN spans
    <3>1. starts \in [1 .. Len(spans) -> Int]
      BY <2>1, <2>2
    <3>2. DOMAIN starts = 1 .. Len(spans)
      BY <2>2
    <3> HIDE DEF starts
    <3>3. starts \in Seq(Int)
      BY <2>2, <3>1
    <3>4. 1 \in DOMAIN starts
      BY <2>2, <3>2
    <3> QED
      BY <2>2, <3>2, <3>3, <3>4
  <2>4. {spans[i][1] : i \in DOMAIN spans} = {starts[i] : i \in DOMAIN starts}
    BY <2>3
  <2> HIDE DEF starts
  <2>5. Min({starts[i] : i \in DOMAIN starts}) \in Int
    BY <2>3, Smallest
  <2> QED
    BY <1>2, <2>4, <2>5 DEF FirstSpeech
<1> QED
  BY <1>1, <1>2

-----------------------------------------------------------------------------
(* The final labels.                                                        *)

\* A one-to-one numbering with as many numbers as elements uses all of them.
LEMMA NumbersAll ==
    ASSUME NEW S, IsFiniteSet(S), NEW f \in [S -> 1 .. Cardinality(S)],
           \A a, b \in S : f[a] = f[b] => a = b
    PROVE  f \in Bijection(S, 1 .. Cardinality(S))
<1> DEFINE n == Cardinality(S)
<1>1. n \in Nat
  BY FS_CardinalityType
<1>2. f \in Injection(S, 1 .. n)
  BY DEF Injection, IsInjective
<1>3. IsFiniteSet(1 .. n) /\ Cardinality(1 .. n) = n
  <2> HIDE DEF n
  <2>1. IsFiniteSet(1 .. n) /\ Cardinality(1 .. n) = IF 1 > n THEN 0 ELSE n - 1 + 1
    BY <1>1, FS_Interval
  <2> QED
    BY <1>1, <2>1
<1>4. f \in Surjection(S, 1 .. n)
  <2>1. n = Cardinality(1 .. n)
    BY <1>3
  <2> QED
    BY <1>2, <1>3, <2>1, FS_Injection
<1> QED
  BY <1>2, <1>4 DEF Bijection

\* As many labels are free as speakers are without one.
LEMMA AsManyFree ==
    ASSUME NEW D, IsFiniteSet(D), NEW E \in SUBSET D,
           NEW own \in [E -> 1 .. Cardinality(D)], \A q, r \in E : own[q] = own[r] => q = r
    PROVE  /\ IsFiniteSet((1 .. Cardinality(D)) \ Range(own)) /\ IsFiniteSet(D \ E)
           /\ Cardinality((1 .. Cardinality(D)) \ Range(own)) = Cardinality(D \ E)
<1> DEFINE n == Cardinality(D)
           U == Range(own)
<1>1. n \in Nat
  BY FS_CardinalityType
<1>2. IsFiniteSet(1 .. n) /\ Cardinality(1 .. n) = n
  <2> HIDE DEF n
  <2>1. IsFiniteSet(1 .. n) /\ Cardinality(1 .. n) = IF 1 > n THEN 0 ELSE n - 1 + 1
    BY <1>1, FS_Interval
  <2> QED
    BY <1>1, <2>1
<1>3. IsFiniteSet(E)
  BY FS_Subset
<1>4. U \in SUBSET (1 .. n) /\ own \in Injection(E, U) /\ own \in Surjection(E, U)
  BY DEF Range, Injection, IsInjective, Surjection
<1> HIDE DEF U, n
<1>5. Cardinality(U) = Cardinality(E)
  BY <1>3, <1>4, FS_Surjection
<1>6. /\ IsFiniteSet(D \ E) /\ Cardinality(D \ E) = n - Cardinality(D \cap E)
      /\ IsFiniteSet((1 .. n) \ U) /\ Cardinality((1 .. n) \ U) = n - Cardinality((1 .. n) \cap U)
  BY <1>2, FS_Difference DEF n
<1>7. D \cap E = E /\ (1 .. n) \cap U = U
  BY <1>4
<1> QED
  BY <1>5, <1>6, <1>7 DEF n, U

LEMMA ByTime ==
    ASSUME NEW S, NEW t \in [S -> Int], NEW o \in [S -> Int], NEW R,
           \A a, b \in S : o[a] = o[b] => a = b,
           \A a, b \in S : <<a, b>> \in R <=> t[a] < t[b] \/ (t[a] = t[b] /\ o[a] <= o[b])
    PROVE  Orders(R, S)
<1>1. \A a \in S : o[a] \in Int /\ t[a] \in Int
  OBVIOUS
<1>2. \A a \in S : <<a, a>> \in R
  BY <1>1
<1>3. ASSUME NEW a \in S, NEW b \in S
      PROVE  /\ <<a, b>> \in R \/ <<b, a>> \in R
             /\ <<a, b>> \in R /\ <<b, a>> \in R => a = b
  <2> DEFINE ta == t[a]
             tb == t[b]
             oa == o[a]
             ob == o[b]
  <2>1. /\ ta \in Int /\ tb \in Int /\ oa \in Int /\ ob \in Int
        /\ oa = ob => a = b
        /\ <<a, b>> \in R <=> ta < tb \/ (ta = tb /\ oa <= ob)
        /\ <<b, a>> \in R <=> tb < ta \/ (tb = ta /\ ob <= oa)
    BY <1>1
  <2> HIDE DEF ta, tb, oa, ob
  <2>2. ta < tb \/ ta = tb \/ tb < ta
    BY <2>1
  <2>3. oa < ob \/ oa = ob \/ ob < oa
    BY <2>1
  <2> QED
    BY <2>1, <2>2, <2>3
<1>5. ASSUME NEW a \in S, NEW b \in S, NEW c \in S, <<a, b>> \in R, <<b, c>> \in R
      PROVE  <<a, c>> \in R
  <2> DEFINE ta == t[a]
             tb == t[b]
             tc == t[c]
             oa == o[a]
             ob == o[b]
             oc == o[c]
  <2>1. /\ ta \in Int /\ tb \in Int /\ tc \in Int /\ oa \in Int /\ ob \in Int /\ oc \in Int
        /\ ta < tb \/ (ta = tb /\ oa <= ob)
        /\ tb < tc \/ (tb = tc /\ ob <= oc)
    BY <1>1, <1>5
  <2> HIDE DEF ta, tb, tc, oa, ob, oc
  <2>2. ta < tc \/ (ta = tc /\ oa <= oc)
    BY <2>1
  <2> QED
    BY <2>2 DEF ta, tc, oa, oc
<1> QED
  BY <1>2, <1>3, <1>5 DEF Orders

\* The labels of the final pass are a numbering of its speakers, whichever of them keep
\* the label of the live session.
LEMMA Filled ==
    ASSUME NEW provider, IsFiniteSet(DOMAIN provider),
           \A q \in DOMAIN provider : provider[q] \in Spans,
           NEW place \in [DOMAIN provider -> Int],
           \A q, r \in DOMAIN provider : place[q] = place[r] => q = r,
           NEW own, DOMAIN own \in SUBSET DOMAIN provider,
           own \in [DOMAIN own -> 1 .. Cardinality(DOMAIN provider)],
           \A q, r \in DOMAIN own : own[q] = own[r] => q = r
    PROVE  FillLabels(own, provider, place) \in
               Bijection(DOMAIN provider, 1 .. Cardinality(DOMAIN provider))
<1> DEFINE D == DOMAIN provider
           n == Cardinality(D)
           free == (1 .. n) \ Range(own)
           rest == D \ DOMAIN own
           Place(q) == Cardinality({r \in rest : NotAfter(r, q, provider, place)})
           labels0 == FillLabels(own, provider, place)
           R == {ab \in D \X D : NotAfter(ab[1], ab[2], provider, place)}
<1>1. labels0 = [q \in D |-> IF q \in rest THEN InOrder(free)[Place(q)] ELSE own[q]]
  BY DEF FillLabels
<1>2. IsFiniteSet(free) /\ IsFiniteSet(rest) /\ Cardinality(free) = Cardinality(rest)
  BY AsManyFree
<1>3. \A a, b \in D : <<a, b>> \in R <=> NotAfter(a, b, provider, place)
  OBVIOUS
<1>4. \A q \in rest : Place(q) = Rank(q, rest, R)
  <2> SUFFICES ASSUME NEW q \in rest
               PROVE  {r \in rest : NotAfter(r, q, provider, place)} = {r \in rest : <<r, q>> \in R}
    BY DEF Rank
  <2> HIDE DEF R
  <2> QED
    BY <1>3
<1> HIDE DEF R
<1>5. Orders(R, rest)
  <2> DEFINE t == [q \in rest |-> FirstSpeech(provider[q])]
             o == [q \in rest |-> place[q]]
  <2>1. rest \in SUBSET D
    OBVIOUS
  <2>2. \A q \in D : FirstSpeech(provider[q]) \in Int
    BY FirstIn
  <2> HIDE DEF rest, D
  <2>3. t \in [rest -> Int] /\ \A q \in rest : t[q] = FirstSpeech(provider[q])
    BY <2>1, <2>2
  <2>4. o \in [rest -> Int] /\ \A q \in rest : o[q] = place[q]
    BY <2>1 DEF D
  <2>5. \A a, b \in rest : o[a] = o[b] => a = b
    BY <2>1, <2>4 DEF D
  <2>6. \A a, b \in rest : <<a, b>> \in R <=> t[a] < t[b] \/ (t[a] = t[b] /\ o[a] <= o[b])
    <3> SUFFICES ASSUME NEW a \in rest, NEW b \in rest
                 PROVE  <<a, b>> \in R <=> t[a] < t[b] \/ (t[a] = t[b] /\ o[a] <= o[b])
      OBVIOUS
    <3>1. <<a, b>> \in R <=> NotAfter(a, b, provider, place)
      BY <1>3, <2>1
    <3>2. /\ t[a] = FirstSpeech(provider[a]) /\ t[b] = FirstSpeech(provider[b])
          /\ o[a] = place[a] /\ o[b] = place[b]
      BY <2>3, <2>4
    <3> HIDE DEF t, o
    <3> QED
      BY <3>1, <3>2 DEF NotAfter
  <2> HIDE DEF t, o
  <2> QED
    BY <2>3, <2>4, <2>5, <2>6, ByTime
<1>6. /\ \A q \in rest : Place(q) \in 1 .. Cardinality(rest)
      /\ \A q, r \in rest : Place(q) = Place(r) => q = r
  <2> HIDE DEF Place, rest
  <2> QED
    BY <1>2, <1>4, <1>5, Ranks DEF Places
<1>7. free \in SUBSET (1 .. n) /\ \A x \in free : x \notin Range(own)
  OBVIOUS
<1>8. n \in Nat
  BY FS_CardinalityType
<1>9. free \in SUBSET Int
  <2> HIDE DEF free, n
  <2> QED
    BY <1>7, <1>8
<1> HIDE DEF free, Place
<1>10. /\ InOrder(free) \in [1 .. Cardinality(free) -> free]
       /\ \A j, k \in 1 .. Cardinality(free) : InOrder(free)[j] = InOrder(free)[k] => j = k
  BY <1>2, <1>9, Ordered
<1>11. \A q \in D \ rest : q \in DOMAIN own /\ own[q] \in 1 .. n /\ own[q] \in Range(own)
  BY DEF Range
<1>12. rest \in SUBSET D
  OBVIOUS
<1> HIDE DEF rest, D, n
<1> DEFINE At(q) == InOrder(free)[Place(q)]
<1>13. \A q \in rest : At(q) \in free
  BY <1>2, <1>6, <1>10
<1>14. \A q, r \in rest : At(q) = At(r) => q = r
  BY <1>2, <1>6, <1>10
<1> HIDE DEF At
<1>15. \A q \in D : labels0[q] = IF q \in rest THEN At(q) ELSE own[q]
  BY <1>1 DEF At
<1>16. \A q \in D : labels0[q] \in 1 .. n
  BY <1>7, <1>11, <1>13, <1>15
<1>17. labels0 \in [D -> 1 .. n]
  <2>1. labels0 = [q \in D |-> labels0[q]]
    BY <1>1
  <2> HIDE DEF labels0
  <2> QED
    BY <1>16, <2>1
<1>18. ASSUME NEW a \in D, NEW b \in D, labels0[a] = labels0[b] PROVE a = b
  <2>1. CASE a \in rest /\ b \in rest
    BY <1>14, <1>15, <1>18, <2>1
  <2>2. CASE a \in rest /\ b \notin rest
    BY <1>7, <1>11, <1>13, <1>15, <1>18, <2>2
  <2>3. CASE a \notin rest /\ b \in rest
    BY <1>7, <1>11, <1>13, <1>15, <1>18, <2>3
  <2>4. CASE a \notin rest /\ b \notin rest
    BY <1>11, <1>15, <1>18, <2>4
  <2> QED
    BY <2>1, <2>2, <2>3, <2>4
<1> HIDE DEF labels0
<1>19. labels0 \in Bijection(D, 1 .. n)
  <2>1. IsFiniteSet(D)
    BY DEF D
  <2> QED
    BY <1>17, <1>18, <2>1, NumbersAll DEF n
<1> QED
  BY <1>19 DEF labels0, D, n

LEMMA FinalLinks ==
    ASSUME NEW canonical, DOMAIN canonical \in SUBSET Int, IsFiniteSet(DOMAIN canonical),
           NEW provider, DOMAIN provider \in SUBSET Int, IsFiniteSet(DOMAIN provider)
    PROVE  LET label == MatchFinal(canonical, provider).label
           IN  /\ IsLinking(label, Clear(Scores(canonical, provider), provider))
               /\ DOMAIN label \subseteq DOMAIN provider
               /\ \A q \in DOMAIN label : label[q] \in DOMAIN canonical
<1> DEFINE scores == Scores(canonical, provider)
<1>1. IsSides(scores, canonical, provider)
  <2>1. DOMAIN scores \subseteq (DOMAIN canonical) \X (DOMAIN provider)
    BY ScoresOf
  <2> HIDE DEF scores
  <2> QED
    BY <2>1 DEF IsSides
<1>2. MatchFinal(canonical, provider) = MatchOn(scores, canonical, provider, FALSE)
  BY DEF MatchFinal
<1> HIDE DEF scores
<1>3. MatchFinal(canonical, provider).label = ByShared(scores, provider)
  BY <1>1, <1>2, Matched
<1> DEFINE links == ByShared(scores, provider)
<1>4. /\ IsLinking(links, Clear(scores, provider))
      /\ DOMAIN links \subseteq DOMAIN provider
      /\ \A q \in DOMAIN links : links[q] \in DOMAIN canonical
  BY <1>1, SharedLinks
<1> HIDE DEF links
<1> QED
  BY <1>3, <1>4 DEF scores, links

LEMMA RemapNumbers ==
    ASSUME NEW canonical, DOMAIN canonical \in SUBSET Int, IsFiniteSet(DOMAIN canonical),
           NEW provider, DOMAIN provider \in SUBSET Int, IsFiniteSet(DOMAIN provider),
           \A q \in DOMAIN provider : provider[q] \in Spans,
           NEW place \in [DOMAIN provider -> Int],
           \A q, r \in DOMAIN provider : place[q] = place[r] => q = r
    PROVE  RemapFinal(canonical, provider, place) \in
               Bijection(DOMAIN provider, 1 .. Cardinality(DOMAIN provider))
<1> DEFINE label == MatchFinal(canonical, provider).label
           n == Cardinality(DOMAIN provider)
           kept == {q \in DOMAIN label : InPool(label[q], n)}
           own == [q \in kept |-> label[q]]
<1>1. RemapFinal(canonical, provider, place) = FillLabels(own, provider, place)
  BY DEF RemapFinal, RemapOn, RestrictValues, Restrict
<1>2. /\ IsLinking(label, Clear(Scores(canonical, provider), provider))
      /\ DOMAIN label \subseteq DOMAIN provider
  BY FinalLinks
<1> HIDE DEF label
<1>3. DOMAIN own = kept /\ \A q \in kept : own[q] = label[q]
  OBVIOUS
<1>4. kept \in SUBSET DOMAIN provider /\ \A q \in kept : q \in DOMAIN label /\ label[q] \in 1 .. n
  BY <1>2 DEF InPool
<1>5. own \in [kept -> 1 .. n]
  BY <1>4
<1> HIDE DEF own, kept
<1>6. \A q, r \in DOMAIN own : own[q] = own[r] => q = r
  BY <1>2, <1>3, <1>4 DEF IsLinking
<1>7. DOMAIN own \in SUBSET DOMAIN provider /\ own \in [DOMAIN own -> 1 .. n]
  BY <1>3, <1>4, <1>5
<1> QED
  BY <1>1, <1>6, <1>7, Filled

IsWords(ws) == ws \in [DOMAIN WordSpans -> {0} \cup Diarized]

LEMMA WordsAre ==
    ASSUME NEW ws, IsWords(ws)
    PROVE  /\ Len(WordSpans) \in Nat /\ DOMAIN WordSpans = 1 .. Len(WordSpans)
           /\ DOMAIN ws = 1 .. Len(WordSpans)
           /\ Said(ws) \in SUBSET Int /\ IsFiniteSet(Said(ws))
<1>1. Len(WordSpans) \in Nat /\ DOMAIN WordSpans = 1 .. Len(WordSpans)
  BY FinalAssumption
<1>2. DOMAIN ws = 1 .. Len(WordSpans)
  BY <1>1 DEF IsWords
<1>3. Said(ws) \in SUBSET Int
  <2>1. \A i \in DOMAIN ws : ws[i] \in {0} \cup Diarized
    BY <1>1 DEF IsWords
  <2>2. \A v \in Said(ws) : \E i \in DOMAIN ws : v = ws[i]
    BY DEF Said, Range
  <2>3. {0} \cup Diarized \subseteq Int
    BY FinalAssumption
  <2> QED
    BY <2>1, <2>2, <2>3
<1>4. IsFiniteSet(Said(ws))
  <2> DEFINE n == Len(WordSpans)
             W == Range(ws)
  <2>1. ws \in [1 .. n -> W] /\ \A v \in W : \E i \in 1 .. n : ws[i] = v
    BY <1>1 DEF IsWords, Range
  <2>2. IsFiniteSet(1 .. n)
    <3> HIDE DEF n
    <3>1. n \in Int
      BY <1>1 DEF n
    <3> QED
      BY <3>1, FS_Interval
  <2> HIDE DEF n, W
  <2>3. ws \in Surjection(1 .. n, W)
    BY <2>1 DEF Surjection
  <2>4. IsFiniteSet(W)
    BY <2>2, <2>3, FS_Surjection
  <2>5. Said(ws) \in SUBSET W
    BY DEF Said, W
  <2> QED
    BY <2>4, <2>5, FS_Subset
<1> QED
  BY <1>1, <1>2, <1>3, <1>4

LEMMA IntervalsAre ==
    ASSUME NEW ws, IsWords(ws)
    PROVE  /\ DOMAIN ProviderIntervals(ws) = Said(ws)
           /\ \A q \in Said(ws) : ProviderIntervals(ws)[q] \in Spans
<1> DEFINE piece(q, i) == IF ws[i] = q THEN <<WordSpans[i]>> ELSE <<>>
           Lists(q) == [i \in DOMAIN ws |-> piece(q, i)]
<1>1. ProviderIntervals(ws) = [q \in Said(ws) |-> FlattenSeq(Lists(q))]
  BY DEF ProviderIntervals
<1>2. ASSUME NEW q PROVE FlattenSeq(Lists(q)) \in Spans
  <2> DEFINE n == Len(WordSpans)
  <2>1. n \in Nat /\ DOMAIN WordSpans = 1 .. n /\ DOMAIN ws = 1 .. n
    BY WordsAre
  <2>2. ASSUME NEW i \in 1 .. n PROVE piece(q, i) \in Spans
    <3> DEFINE x == WordSpans[i]
    <3>1. x \in Int \X Int
      BY <2>1, FinalAssumption
    <3> HIDE DEF x
    <3>2. <<x>> \in Seq(Int \X Int) /\ <<>> \in Seq(Int \X Int)
      BY <3>1
    <3>3. piece(q, i) = <<x>> \/ piece(q, i) = <<>>
      BY DEF x
    <3> HIDE DEF piece
    <3> QED
      BY <3>2, <3>3 DEF Spans
  <2> HIDE DEF n, piece
  <2>3. Lists(q) \in [1 .. n -> Spans]
    BY <2>1, <2>2
  <2> DEFINE lists == Lists(q)
  <2> HIDE DEF Lists, lists
  <2>4. lists \in Seq(Spans)
    <3>1. lists \in [1 .. n -> Spans] /\ n \in Nat
      BY <2>1, <2>3 DEF lists
    <3> QED
      BY <3>1
  <2>5. lists \in Seq(Seq(Int \X Int))
    BY <2>4 DEF Spans
  <2>6. FlattenSeq(lists) \in Spans
    BY <2>5, Flattened DEF Spans
  <2> QED
    BY <2>6 DEF lists
<1> HIDE DEF Lists
<1> QED
  BY <1>1, <1>2

\* A speaker's first word is one of the speaker's, so no two have the same.
LEMMA FirstWords ==
    ASSUME NEW ws, IsWords(ws), NEW q \in Said(ws)
    PROVE  FirstWord(q, ws) \in Nat /\ ws[FirstWord(q, ws)] = q
<1> DEFINE At == {i \in DOMAIN ws : ws[i] = q}
<1>1. At \in SUBSET Nat /\ At # {}
  BY WordsAre DEF Said, Range
<1>2. Min(At) \in At
  <2> HIDE DEF At
  <2> QED
    BY <1>1, LeastIn
<1> QED
  BY <1>1, <1>2 DEF FirstWord

\* The labels of a meeting that was not recorded live number its speakers too.
LEMMA PlainNumbers ==
    ASSUME NEW ws, IsWords(ws)
    PROVE  LabelSpeakers(ws) \in Bijection(Said(ws), 1 .. Cardinality(Said(ws)))
<1> DEFINE S == Said(ws)
           first(q) == FirstWord(q, ws)
           R == {ab \in S \X S : first(ab[1]) <= first(ab[2])}
           labels0 == LabelSpeakers(ws)
<1>1. labels0 = [q \in S |-> Cardinality({r \in S : first(r) <= first(q)})]
  BY DEF LabelSpeakers
<1>2. DOMAIN ws = 1 .. Len(WordSpans) /\ IsFiniteSet(S) /\ Len(WordSpans) \in Nat
  BY WordsAre
<1>3. ASSUME NEW q \in S PROVE first(q) \in Nat /\ ws[first(q)] = q
  BY FirstWords
<1> HIDE DEF first, S
<1>4. \A a, b \in S : <<a, b>> \in R <=> first(a) <= first(b)
  OBVIOUS
<1> HIDE DEF R
<1>5. Orders(R, S)
  <2> DEFINE num == [q \in S |-> first(q)]
  <2>1. \A a \in S : num[a] \in Nat
    BY <1>3
  <2>2. \A a, b \in S : <<a, b>> \in R <=> num[a] <= num[b]
    BY <1>4
  <2>3. \A a, b \in S : num[a] = num[b] => a = b
    BY <1>3
  <2> HIDE DEF num
  <2>4. num \in [S -> Int]
    <3>1. num = [q \in S |-> num[q]]
      BY DEF num
    <3> QED
      BY <2>1, <3>1
  <2>5. ASSUME NEW a \in S, NEW b \in S
        PROVE  <<a, b>> \in R <=> num[a] < num[b] \/ (num[a] = num[b] /\ num[a] <= num[b])
    <3>1. num[a] \in Nat /\ num[b] \in Nat
      BY <2>1
    <3>2. <<a, b>> \in R <=> num[a] <= num[b]
      BY <2>2
    <3> QED
      BY <3>1, <3>2
  <2> QED
    BY <2>3, <2>4, <2>5, ByTime
<1>6. \A q \in S : Cardinality({r \in S : first(r) <= first(q)}) = Rank(q, S, R)
  <2> SUFFICES ASSUME NEW q \in S
               PROVE  {r \in S : first(r) <= first(q)} = {b \in S : <<b, q>> \in R}
    BY DEF Rank
  <2> QED
    BY <1>4
<1>7. \A q \in S : labels0[q] = Rank(q, S, R)
  BY <1>1, <1>6
<1>8. /\ \A q \in S : Rank(q, S, R) \in 1 .. Cardinality(S)
      /\ \A a, b \in S : Rank(a, S, R) = Rank(b, S, R) => a = b
  BY <1>2, <1>5, Ranks DEF Places
<1>9. labels0 = [q \in S |-> labels0[q]]
  BY <1>1
<1> HIDE DEF labels0
<1>10. labels0 \in [S -> 1 .. Cardinality(S)] /\ \A a, b \in S : labels0[a] = labels0[b] => a = b
  <2>1. \A q \in S : labels0[q] \in 1 .. Cardinality(S)
    BY <1>7, <1>8
  <2> QED
    BY <1>7, <1>8, <1>9, <2>1
<1>11. labels0 \in Bijection(S, 1 .. Cardinality(S))
  BY <1>2, <1>10, NumbersAll
<1> QED
  BY <1>11 DEF labels0, S

-----------------------------------------------------------------------------
(* The turns of the transcript.                                             *)

\* The turns of the first k words.
IsRuns(ts, k, speaker) ==
    /\ ts \in Seq([speaker : Range(speaker), from : Nat, to : Nat])
    /\ ts = <<>> <=> k = 0
    /\ k # 0 => ts[1].from = 1 /\ ts[Len(ts)].to = k
    /\ \A j \in DOMAIN ts :
          /\ 1 <= ts[j].from /\ ts[j].from <= ts[j].to /\ ts[j].to <= k
          /\ \A i \in ts[j].from .. ts[j].to : ts[j].speaker = speaker[i]
          /\ j > 1 => ts[j].from = ts[j - 1].to + 1 /\ ts[j].speaker # ts[j - 1].speaker

LEMMA WordAdded ==
    ASSUME NEW n \in Nat, NEW speaker, DOMAIN speaker = 1 .. n, NEW k \in 1 .. n,
           NEW ts, IsRuns(ts, k - 1, speaker)
    PROVE  IsRuns(AddWord(ts, k, speaker), k, speaker)
<1> DEFINE Turn == [speaker : Range(speaker), from : Nat, to : Nat]
           m == Len(ts)
           t == AddWord(ts, k, speaker)
<1>1. ts \in Seq(Turn) /\ m \in Nat /\ DOMAIN ts = 1 .. m /\ k \in Nat \ {0}
  BY DEF IsRuns
<1>2. \A j \in 1 .. m : ts[j] \in Turn /\ ts[j].from \in Nat /\ ts[j].to \in Nat
                        /\ ts[j].speaker \in Range(speaker)
  <2>1. \A y \in Turn : y.from \in Nat /\ y.to \in Nat /\ y.speaker \in Range(speaker)
    OBVIOUS
  <2> HIDE DEF Turn, m
  <2>2. \A j \in 1 .. m : ts[j] \in Turn
    BY <1>1
  <2> QED
    BY <2>1, <2>2
<1>3. speaker[k] \in Range(speaker)
  BY DEF Range
<1>4. /\ ts = <<>> <=> k = 1
      /\ ts # <<>> => m \in 1 .. m /\ ts[1].from = 1 /\ ts[m].to = k - 1
  BY <1>1 DEF IsRuns
<1>5. \A j \in 1 .. m :
          /\ 1 <= ts[j].from /\ ts[j].from <= ts[j].to /\ ts[j].to <= k - 1
          /\ \A i \in ts[j].from .. ts[j].to : ts[j].speaker = speaker[i]
          /\ j > 1 => ts[j].from = ts[j - 1].to + 1 /\ ts[j].speaker # ts[j - 1].speaker
  BY <1>1 DEF IsRuns
<1>6. CASE ts # <<>> /\ ts[m].speaker = speaker[k]
  <2> DEFINE x == [ts[m] EXCEPT !.to = k]
             u == [ts EXCEPT ![m] = x]
  <2>1. t = u
    <3>1. t = [ts EXCEPT ![m].to = k]
      BY <1>6 DEF AddWord, Last
    <3> QED
      BY <3>1
  <2>2. m \in 1 .. m
    BY <1>4, <1>6
  <2>3. /\ x \in Turn /\ x.from = ts[m].from /\ x.speaker = ts[m].speaker /\ x.to = k
    BY <1>1, <1>2, <2>2
  <2> HIDE DEF x, Turn
  <2>4. u \in Seq(Turn)
    <3>1. m \in DOMAIN ts
      BY <1>1, <2>2
    <3> HIDE DEF m
    <3> QED
      BY <1>1, <2>3, <3>1, Replaced
  <2>5. DOMAIN u = 1 .. m /\ u[m] = x /\ \A j \in 1 .. m : j # m => u[j] = ts[j]
    BY <1>1, <2>2
  <2>6. Len(u) = m
    <3> HIDE DEF u, m
    <3> QED
      BY <1>1, <2>4, <2>5
  <2>7. u # <<>>
    BY <2>2, <2>5
  <2> HIDE DEF u, m
  <2>8. ts[m].to = k - 1 /\ ts[m].from \in Nat /\ ts[m].from <= k - 1
    BY <1>2, <1>4, <1>5, <1>6, <2>2
  <2>9. u[1].from = 1
    BY <1>4, <1>6, <2>2, <2>3, <2>5
  <2>10. ASSUME NEW j \in 1 .. m
         PROVE  /\ 1 <= u[j].from /\ u[j].from <= u[j].to /\ u[j].to <= k
                /\ \A i \in u[j].from .. u[j].to : u[j].speaker = speaker[i]
                /\ j > 1 => u[j].from = u[j - 1].to + 1 /\ u[j].speaker # u[j - 1].speaker
    <3>1. j > 1 => j - 1 \in 1 .. m /\ j - 1 # m
      BY <1>1, <2>2
    <3>2. CASE j # m
      <4>1. u[j] = ts[j] /\ (j > 1 => u[j - 1] = ts[j - 1])
        BY <2>5, <3>1, <3>2
      <4>2. ts[j].to <= k
        BY <1>1, <1>2, <1>5
      <4> QED
        BY <1>5, <4>1, <4>2
    <3>3. CASE j = m
      <4>1. u[j].from = ts[j].from /\ u[j].to = k /\ u[j].speaker = ts[j].speaker
        BY <2>3, <2>5, <3>3
      <4>2. j > 1 => u[j - 1] = ts[j - 1]
        BY <2>5, <3>1
      <4>3. \A i \in ts[j].from .. k : i = k \/ i \in ts[j].from .. ts[j].to
        BY <1>1, <2>8, <3>3
      <4>4. \A i \in u[j].from .. u[j].to : u[j].speaker = speaker[i]
        BY <1>5, <1>6, <3>3, <4>1, <4>3
      <4>5. 1 <= u[j].from /\ u[j].from <= u[j].to /\ u[j].to <= k
        BY <1>1, <1>5, <2>8, <3>3, <4>1
      <4> QED
        BY <1>5, <4>1, <4>2, <4>4, <4>5
    <3> QED
      BY <3>2, <3>3
  <2>11. u[m].to = k /\ k # 0
    BY <1>1, <2>3, <2>5
  <2>12. IsRuns(u, k, speaker)
    BY <2>4, <2>5, <2>6, <2>7, <2>9, <2>10, <2>11 DEF IsRuns, Turn
  <2> QED
    BY <2>1, <2>12
<1>7. CASE ~(ts # <<>> /\ ts[m].speaker = speaker[k])
  <2> DEFINE x == [speaker |-> speaker[k], from |-> k, to |-> k]
             u == Append(ts, x)
  <2>1. t = u
    BY <1>7 DEF AddWord, Last
  <2>2. x \in Turn /\ x.from = k /\ x.to = k /\ x.speaker = speaker[k]
    BY <1>1, <1>3
  <2> HIDE DEF x, Turn
  <2>3. /\ u \in Seq(Turn) /\ Len(u) = m + 1 /\ DOMAIN u = 1 .. m + 1 /\ u[m + 1] = x
        /\ \A j \in 1 .. m : u[j] = ts[j]
    BY <1>1, <2>2
  <2>4. m + 1 \in 1 .. m + 1 /\ \A j \in 1 .. m + 1 : j = m + 1 \/ j \in 1 .. m
    BY <1>1
  <2>5. u # <<>>
    BY <2>3, <2>4
  <2>6. ts # <<>> => /\ m \in 1 .. m /\ ts[m].to = k - 1 /\ ts[m].speaker # speaker[k]
                     /\ ts[1].from = 1 /\ 1 \in 1 .. m
    BY <1>1, <1>4, <1>7
  <2>7. ts = <<>> => m = 0 /\ k = 1
    BY <1>4
  <2> HIDE DEF u, m
  <2>8. u[1].from = 1
    <3>1. CASE ts = <<>>
      BY <2>2, <2>3, <2>7, <3>1
    <3>2. CASE ts # <<>>
      BY <2>3, <2>6, <3>2
    <3> QED
      BY <3>1, <3>2
  <2>9. ASSUME NEW j \in 1 .. m + 1
        PROVE  /\ 1 <= u[j].from /\ u[j].from <= u[j].to /\ u[j].to <= k
               /\ \A i \in u[j].from .. u[j].to : u[j].speaker = speaker[i]
               /\ j > 1 => u[j].from = u[j - 1].to + 1 /\ u[j].speaker # u[j - 1].speaker
    <3>1. CASE j \in 1 .. m
      <4>1. j > 1 => j - 1 \in 1 .. m
        BY <1>1, <3>1
      <4>2. u[j] = ts[j] /\ (j > 1 => u[j - 1] = ts[j - 1])
        BY <2>3, <3>1, <4>1
      <4>3. ts[j].to <= k
        <5>1. ts[j].to <= k - 1 /\ ts[j].to \in Nat
          BY <1>2, <1>5, <3>1
        <5> QED
          BY <5>1
      <4> QED
        BY <1>5, <3>1, <4>2, <4>3
    <3>2. CASE j = m + 1
      <4>1. u[j].from = k /\ u[j].to = k /\ u[j].speaker = speaker[k]
        BY <2>2, <2>3, <3>2
      <4>2. \A i \in k .. k : i = k
        BY <1>1
      <4>3. j > 1 => ts # <<>> /\ j - 1 = m
        BY <1>1, <2>7, <3>2
      <4>4. j > 1 => u[j - 1] = ts[m] /\ ts[m].to = k - 1 /\ ts[m].speaker # speaker[k]
        BY <2>3, <2>6, <4>3
      <4>5. 1 <= k /\ k <= k /\ k = k - 1 + 1
        BY <1>1
      <4> QED
        BY <4>1, <4>2, <4>4, <4>5
    <3> QED
      BY <2>4, <3>1, <3>2
  <2>10. u[m + 1].to = k /\ k # 0
    BY <1>1, <2>2, <2>3
  <2>11. IsRuns(u, k, speaker)
    BY <2>3, <2>5, <2>8, <2>9, <2>10 DEF IsRuns, Turn
  <2> QED
    BY <2>1, <2>11
<1> QED
  BY <1>6, <1>7

LEMMA TurnsFormed ==
    ASSUME NEW n \in Nat, NEW ws, DOMAIN ws = 1 .. n, NEW ls
    PROVE  IsRuns(FormTurns(ws, ls), n, [i \in DOMAIN ws |-> LabelOf(ls, ws[i])])
<1> DEFINE speaker == [i \in DOMAIN ws |-> LabelOf(ls, ws[i])]
           L == [i \in DOMAIN ws |-> i]
           T(run) == {k \in 0 .. n : IsRuns(run[k], k, speaker)}
<1>1. FormTurns(ws, ls) = AddLoop!Fold(speaker, <<>>, L)
  BY DEF FormTurns, FoldLeft, MapThenFoldSet, AddLoop!Fold, Max, AddLoop!Top
<1>2. AddLoop!IsList(L) /\ Len(L) = n /\ \A k \in 1 .. n : L[k] = k
  <2>1. L \in Seq(Int) /\ Len(L) = n /\ \A k \in 1 .. n : L[k] = k
    OBVIOUS
  <2> HIDE DEF L
  <2> QED
    BY <2>1 DEF AddLoop!IsList
<1>3. DOMAIN speaker = 1 .. n
  OBVIOUS
<1> HIDE DEF L, speaker
<1>4. PICK run : AddLoop!IsRun(run, speaker, <<>>, L) /\ run[n] = AddLoop!Fold(speaker, <<>>, L)
  BY <1>2, AddLoop!FoldRuns
<1>5. run[0] = <<>> /\ \A k \in 1 .. n : run[k] = AddWord(run[k - 1], k, speaker)
  BY <1>2, <1>4 DEF AddLoop!IsRun
<1>6. 0 \in T(run)
  <2>1. IsRuns(<<>>, 0, speaker)
    <3>1. <<>> \in Seq([speaker : Range(speaker), from : Nat, to : Nat]) /\ DOMAIN <<>> = {}
      OBVIOUS
    <3> QED
      BY <3>1 DEF IsRuns
  <2> QED
    BY <1>5, <2>1
<1>7. ASSUME NEW k \in 1 .. n, k - 1 \in T(run) PROVE k \in T(run)
  <2>1. IsRuns(run[k - 1], k - 1, speaker)
    BY <1>7
  <2>2. IsRuns(AddWord(run[k - 1], k, speaker), k, speaker)
    BY <1>3, <2>1, WordAdded
  <2> QED
    BY <1>5, <2>2
<1>8. n \in T(run)
  <2> HIDE DEF T
  <2> QED
    BY <1>6, <1>7, AddLoop!Induct
<1>9. IsRuns(run[n], n, speaker)
  BY <1>8
<1> QED
  BY <1>1, <1>4, <1>9 DEF speaker

-----------------------------------------------------------------------------
(* Names.                                                                   *)

\* Label l has the most speech in common with the spans, enough of it and by a margin.
IsStrongest(l, tl, spans) ==
    LET with == [k \in DOMAIN tl |-> Shared(tl[k], spans)]
        enough == {k \in DOMAIN tl : with[k] >= MinOverlap /\ 10 * with[k] >= 3 * Total(spans)}
    IN  /\ l \in enough
        /\ \A k \in enough \ {l} : 10 * (with[l] - with[k]) >= Max({30, 2 * with[l]})
        /\ \A k \in DOMAIN tl \ {l} : with[k] < with[l]

LEMMA ClearIsStrong ==
    ASSUME NEW tl, \A l \in DOMAIN tl : tl[l] \in Spans,
           NEW provider, \A q \in DOMAIN provider : provider[q] \in Spans,
           NEW l \in DOMAIN tl, NEW q \in DOMAIN provider,
           <<l, q>> \in Clear(Scores(tl, provider), provider)
    PROVE  IsStrongest(l, tl, provider[q])
<1> DEFINE scores == Scores(tl, provider)
           accepted == Accepted(scores, provider)
           e == <<l, q>>
           total == Total(provider[q])
           with == [k \in DOMAIN tl |-> Shared(tl[k], provider[q])]
           enough == {k \in DOMAIN tl : with[k] >= MinOverlap /\ 10 * with[k] >= 3 * total}
<1>0. \A k \in DOMAIN tl : with[k] = Shared(tl[k], provider[q])
  OBVIOUS
<1> HIDE DEF with
<1>1. total \in Int /\ \A k \in DOMAIN tl : with[k] \in Int
  BY <1>0, SharedIn, TotalIn
<1>2. /\ \A k \in DOMAIN tl : <<k, q>> \in DOMAIN scores <=> with[k] > 0
      /\ \A k \in DOMAIN tl : <<k, q>> \in DOMAIN scores => scores[<<k, q>>] = with[k]
  <2> SUFFICES ASSUME NEW k \in DOMAIN tl
               PROVE  /\ <<k, q>> \in DOMAIN scores <=> with[k] > 0
                      /\ <<k, q>> \in DOMAIN scores => scores[<<k, q>>] = with[k]
    OBVIOUS
  <2> DEFINE d == <<k, q>>
  <2>1. d \in (DOMAIN tl) \X (DOMAIN provider) /\ d[1] = k /\ d[2] = q
    OBVIOUS
  <2> HIDE DEF scores, d
  <2>2. /\ d \in DOMAIN scores <=> Shared(tl[d[1]], provider[d[2]]) > 0
        /\ d \in DOMAIN scores => scores[d] = Shared(tl[d[1]], provider[d[2]])
    BY <2>1, ScoresOf DEF scores
  <2>3. with[k] = Shared(tl[k], provider[q])
    BY <1>0
  <2>4. /\ d \in DOMAIN scores <=> with[k] > 0
        /\ d \in DOMAIN scores => scores[d] = with[k]
    BY <2>1, <2>2, <2>3
  <2> QED
    BY <2>4 DEF d
<1>3. e \in accepted /\ ~TooClose(q, accepted, scores) /\ e = BestEdge(q, accepted, scores)
  <2>1. /\ e \in accepted /\ ~TooClose(e[2], accepted, scores)
        /\ e = BestEdge(e[2], accepted, scores)
    BY DEF Clear
  <2>2. e[2] = q
    OBVIOUS
  <2> HIDE DEF e, accepted, scores
  <2> QED
    BY <2>1, <2>2
<1> HIDE DEF scores, accepted
<1>4. \A k \in DOMAIN tl : <<k, q>> \in accepted <=> with[k] >= MinOverlap /\ 10 * with[k] >= 3 * total
  <2> SUFFICES ASSUME NEW k \in DOMAIN tl
               PROVE  <<k, q>> \in accepted <=> with[k] >= MinOverlap /\ 10 * with[k] >= 3 * total
    OBVIOUS
  <2> DEFINE d == <<k, q>>
  <2>1. d \in accepted <=> /\ d \in DOMAIN scores /\ scores[d] >= MinOverlap
                           /\ 10 * scores[d] >= 3 * Total(provider[d[2]])
    <3> HIDE DEF d
    <3> QED
      BY DEF accepted, Accepted
  <2>2. d[2] = q
    OBVIOUS
  <2>3. d \in DOMAIN scores <=> with[k] > 0
    BY <1>2
  <2>4. d \in DOMAIN scores => scores[d] = with[k]
    BY <1>2
  <2>5. with[k] >= MinOverlap => with[k] > 0
    BY <1>1 DEF MinOverlap
  <2> HIDE DEF d
  <2>6. d \in accepted <=> with[k] >= MinOverlap /\ 10 * with[k] >= 3 * total
    BY <2>1, <2>2, <2>3, <2>4, <2>5
  <2> QED
    BY <2>6 DEF d
<1>5. with[l] >= MinOverlap /\ 10 * with[l] >= 3 * total
  BY <1>3, <1>4
<1>6. scores[e] = with[l]
  <2>1. e \in DOMAIN scores
    BY <1>3 DEF accepted, Accepted
  <2> QED
    BY <1>2, <2>1
<1>7. ASSUME NEW k \in DOMAIN tl \ {l}, with[k] >= MinOverlap /\ 10 * with[k] >= 3 * total
      PROVE  10 * (with[l] - with[k]) >= Max({30, 2 * with[l]})
  <2> DEFINE d == <<k, q>>
  <2>1. d \in accepted
    BY <1>4, <1>7
  <2>2. d[2] = q /\ d # e
    OBVIOUS
  <2>3. scores[d] = with[k]
    <3>1. d \in DOMAIN scores
      BY <2>1 DEF accepted, Accepted
    <3> QED
      BY <1>2, <3>1
  <2> HIDE DEF d, e
  <2>4. d \in EdgesOf(q, accepted) \ {e}
    BY <2>1, <2>2 DEF EdgesOf
  <2>5. ~(10 * (scores[e] - scores[d]) < Max({30, 2 * scores[e]}))
    BY <1>3, <2>4 DEF TooClose
  <2> DEFINE a == with[l]
             b == with[k]
  <2>6. a \in Int /\ b \in Int /\ ~(10 * (a - b) < Max({30, 2 * a}))
    BY <1>1, <1>6, <2>3, <2>5
  <2> HIDE DEF a, b
  <2>7. 30 \in Int /\ 2 * a \in Int
    BY <2>6
  <2> DEFINE x == 2 * a
  <2> HIDE DEF x
  <2>8. Max({30, x}) \in {30, x} /\ x \in Int
    BY <2>7, OfTwo DEF x
  <2>9. Max({30, 2 * a}) \in Int
    BY <2>8 DEF x
  <2>10. 10 * (a - b) >= Max({30, 2 * a})
    BY <2>6, <2>9
  <2> QED
    BY <2>10 DEF a, b
<1>8. ASSUME NEW k \in DOMAIN tl \ {l} PROVE with[k] < with[l]
  <2> DEFINE a == with[l]
             b == with[k]
  <2>1. a \in Int /\ b \in Int /\ total \in Int /\ a >= MinOverlap /\ 10 * a >= 3 * total
    BY <1>1, <1>5
  <2>2. (b >= MinOverlap /\ 10 * b >= 3 * total) => 10 * (a - b) >= Max({30, 2 * a})
    BY <1>7
  <2> HIDE DEF a, b
  <2>3. Max({30, 2 * a}) >= 30 /\ Max({30, 2 * a}) \in Int
    <3>1. 30 \in Int /\ 2 * a \in Int
      BY <2>1
    <3> DEFINE x == 2 * a
    <3> HIDE DEF x
    <3>2. Max({30, x}) \in {30, x} /\ x \in Int /\ Max({30, x}) >= 30
      BY <3>1, OfTwo DEF x
    <3>3. Max({30, x}) \in Int /\ Max({30, x}) >= 30
      BY <3>2
    <3> QED
      BY <3>3 DEF x
  <2> DEFINE y == Max({30, 2 * a})
  <2> HIDE DEF y
  <2>4. y \in Int /\ y >= 30 /\ ((b >= MinOverlap /\ 10 * b >= 3 * total) => 10 * (a - b) >= y)
    BY <2>2, <2>3 DEF y
  <2>5. b < a
    BY <2>1, <2>4 DEF MinOverlap
  <2> QED
    BY <2>5 DEF a, b
<1>9. /\ l \in enough
      /\ \A k \in enough \ {l} : 10 * (with[l] - with[k]) >= Max({30, 2 * with[l]})
      /\ \A k \in DOMAIN tl \ {l} : with[k] < with[l]
  <2> HIDE DEF total
  <2> QED
    BY <1>5, <1>7, <1>8
<1> HIDE DEF enough, total
<1> QED
  BY <1>9 DEF IsStrongest, with, enough, total

-----------------------------------------------------------------------------
(* The end of a transcription.                                              *)

IsTimelines(tl) == tl \in UNION {[L -> Timelines] : L \in SUBSET Labels}

\* The inductive invariant.
FinalInv ==
    /\ IsTimelines(timelines)
    /\ IsWords(words)
    /\ ~done => names = [l \in DOMAIN timelines |-> l]
    /\ WellFormedTranscript
    /\ NamesOnEvidence

LEMMA TimelinesAre ==
    ASSUME NEW tl, IsTimelines(tl)
    PROVE  /\ DOMAIN tl \in SUBSET Int /\ IsFiniteSet(DOMAIN tl)
           /\ \A l \in DOMAIN tl : tl[l] \in Spans
<1>1. PICK L \in SUBSET Labels : tl \in [L -> Timelines]
  BY DEF IsTimelines
<1>2. IsFiniteSet(L) /\ L \in SUBSET Int
  <2>1. IsFiniteSet(Labels) /\ Labels \in SUBSET Int
    BY FinalAssumption
  <2> QED
    BY <2>1, FS_Subset
<1>3. \A l \in DOMAIN tl : tl[l] \in Timelines
  BY <1>1
<1> QED
  BY <1>1, <1>2, <1>3, FinalAssumption DEF Spans

\* The turns that are stored hold the words once and in order.
LEMMA RunsStored ==
    ASSUME IsWords(words)', turns' = FormTurns(words', labels')
    PROVE  TurnsAreMaximalRuns'
<1> DEFINE n == Len(WordSpans)
           speaker == [i \in DOMAIN words' |-> LabelOf(labels', words'[i])]
<1>1. n \in Nat /\ DOMAIN words' = 1 .. n
  <2>1. IsWords(words')
    BY DEF IsWords
  <2> QED
    BY <2>1, WordsAre
<1> HIDE DEF n
<1>2. IsRuns(turns', n, speaker)
  BY <1>1, TurnsFormed
<1>3. \A i \in 1 .. n : speaker[i] = LabelOf(labels', words'[i])
  BY <1>1
<1> HIDE DEF speaker
<1>4. words' = <<>> <=> n = 0
  BY <1>1 DEF IsWords
<1>5. n # 0 => Len(words') = n
  BY <1>1
<1> DEFINE t == turns'
<1>6. IsRuns(t, n, speaker)
  BY <1>2
<1>7. t \in Seq([speaker : Range(speaker), from : Nat, to : Nat])
  BY <1>6 DEF IsRuns
<1> HIDE DEF t
<1>8. /\ Len(t) \in Nat /\ DOMAIN t = 1 .. Len(t)
      /\ \A j \in 1 .. Len(t) : t[j].from \in Nat /\ t[j].to \in Nat
  <2> DEFINE Turn == [speaker : Range(speaker), from : Nat, to : Nat]
  <2>1. \A y \in Turn : y.from \in Nat /\ y.to \in Nat
    OBVIOUS
  <2> HIDE DEF Turn
  <2>2. t \in Seq(Turn)
    BY <1>7 DEF Turn
  <2> QED
    BY <2>1, <2>2
<1>9. ASSUME NEW j \in DOMAIN t, NEW i \in t[j].from .. t[j].to
      PROVE  t[j].speaker = LabelOf(labels', words'[i])
  <2>1. /\ 1 <= t[j].from /\ t[j].to <= n /\ t[j].speaker = speaker[i]
        /\ t[j].from \in Nat /\ t[j].to \in Nat
    BY <1>6, <1>8, <1>9 DEF IsRuns
  <2>2. i \in 1 .. n
    BY <1>1, <2>1
  <2> QED
    BY <1>3, <2>1, <2>2
<1>10. t = <<>> <=> words' = <<>>
  BY <1>4, <1>6 DEF IsRuns
<1>11. words' # <<>> => t[1].from = 1 /\ Last(t).to = Len(words')
  BY <1>4, <1>5, <1>6 DEF IsRuns, Last
<1>12. \A k \in DOMAIN t :
          /\ t[k].from <= t[k].to
          /\ k > 1 => t[k].from = t[k - 1].to + 1 /\ t[k].speaker # t[k - 1].speaker
  BY <1>6 DEF IsRuns
<1> QED
  BY <1>9, <1>10, <1>11, <1>12 DEF TurnsAreMaximalRuns, t

\* The labels and the names of a meeting that was recorded live.
LEMMA LiveFinished ==
    ASSUME FinalInv, FinishLive
    PROVE  DenseLabels' /\ NamesOnEvidence'
<1> DEFINE provider == ProviderIntervals(words)
           label == MatchFinal(timelines, provider).label
           place == [q \in Said(words) |-> FirstWord(q, words)]
           final == RemapFinal(timelines, provider, place)
           named == {q \in DOMAIN label : label[q] \in DOMAIN names}
           At(f) == CHOOSE q \in named : final[q] = f
<1>1. /\ labels' = final /\ timelines' = timelines /\ words' = words
      /\ names' = ReconcileOn(label, final, names)
      /\ ~done
  BY DEF FinishLive, ReconcileAliases
<1>2. /\ IsTimelines(timelines) /\ IsWords(words) /\ names = [l \in DOMAIN timelines |-> l]
  BY <1>1 DEF FinalInv
<1>3. /\ DOMAIN timelines \in SUBSET Int /\ IsFiniteSet(DOMAIN timelines)
      /\ \A l \in DOMAIN timelines : timelines[l] \in Spans
  BY <1>2, TimelinesAre
<1>4. /\ DOMAIN provider = Said(words) /\ Said(words) \in SUBSET Int /\ IsFiniteSet(Said(words))
      /\ \A q \in DOMAIN provider : provider[q] \in Spans
  BY <1>2, WordsAre, IntervalsAre
<1>11. /\ place \in [DOMAIN provider -> Int]
       /\ \A q, r \in DOMAIN provider : place[q] = place[r] => q = r
  <2>1. \A q \in Said(words) : place[q] \in Nat /\ words[place[q]] = q
    BY <1>2, FirstWords
  <2>2. place = [q \in Said(words) |-> place[q]]
    OBVIOUS
  <2> HIDE DEF place
  <2> QED
    BY <1>4, <2>1, <2>2
<1> HIDE DEF provider, place
<1>5. final \in Bijection(Said(words), 1 .. Cardinality(Said(words)))
  BY <1>3, <1>4, <1>11, RemapNumbers
<1>6. DenseLabels'
  BY <1>1, <1>5 DEF DenseLabels, Said
<1>7. /\ IsLinking(label, Clear(Scores(timelines, provider), provider))
      /\ DOMAIN label \subseteq DOMAIN provider
      /\ \A q \in DOMAIN label : label[q] \in DOMAIN timelines
  BY <1>3, <1>4, FinalLinks
<1> HIDE DEF label, final
<1>8. DOMAIN names = DOMAIN timelines /\ \A l \in DOMAIN timelines : names[l] = l
  BY <1>2
<1>9. names' = [f \in {final[q] : q \in named} |-> names[label[At(f)]]]
  BY <1>1 DEF ReconcileOn
<1>10. ASSUME NEW f \in DOMAIN names' PROVE Evidenced(f)'
  <2> DEFINE q == At(f)
             l == label[q]
  <2>1. f \in {final[r] : r \in named} /\ names'[f] = names[label[At(f)]]
    BY <1>9
  <2>2. q \in named /\ final[q] = f
    <3>1. \E r \in named : final[r] = f
      BY <2>1
    <3> HIDE DEF named
    <3> QED
      BY <3>1
  <2>3. q \in DOMAIN label /\ l \in DOMAIN timelines /\ q \in DOMAIN provider
    BY <1>7, <2>2
  <2>4. names'[f] = l
    BY <1>8, <2>1, <2>3
  <2>5. <<l, q>> \in Clear(Scores(timelines, provider), provider)
    BY <1>7, <2>3 DEF IsLinking
  <2> HIDE DEF q, l
  <2>6. IsStrongest(l, timelines, provider[q])
    BY <1>3, <1>4, <2>3, <2>5, ClearIsStrong
  <2>7. q \in DOMAIN labels' /\ labels'[q] = f
    <3>1. DOMAIN final = Said(words)
      BY <1>5 DEF Bijection, Injection
    <3> QED
      BY <1>1, <1>4, <2>2, <2>3, <3>1 DEF q
  <2>8. timelines' = timelines /\ ProviderIntervals(words') = provider
    BY <1>1 DEF provider
  <2>9. IsStrongest(names'[f], timelines', ProviderIntervals(words')[q])
    BY <2>4, <2>6, <2>8
  <2> QED
    BY <2>7, <2>9 DEF Evidenced, IsStrongest
<1> QED
  BY <1>6, <1>10 DEF NamesOnEvidence

\* The invariant of the final pass.
THEOREM FinalTheorem == FinalSpec => []FinalInv
<1>1. FinalInit => FinalInv
  BY DEF FinalInit, FinalInv, IsTimelines, IsWords, WellFormedTranscript, DenseLabels,
         TurnsAreMaximalRuns, NamesOnEvidence
<1>2. FinalInv /\ [FinalNext]_finalVars => FinalInv'
  <2> SUFFICES ASSUME FinalInv, [FinalNext]_finalVars PROVE FinalInv'
    OBVIOUS
  <2>1. CASE FinishLive
    <3>1. DenseLabels' /\ NamesOnEvidence'
      BY <2>1, LiveFinished
    <3>2. /\ timelines' = timelines /\ words' = words /\ done' = TRUE
          /\ turns' = FormTurns(words', labels')
      BY <2>1 DEF FinishLive
    <3>3. IsWords(words)' /\ IsTimelines(timelines)'
      BY <3>2 DEF FinalInv, IsWords, IsTimelines
    <3>4. TurnsAreMaximalRuns'
      BY <3>2, <3>3, RunsStored
    <3> QED
      BY <3>1, <3>2, <3>3, <3>4 DEF FinalInv, WellFormedTranscript
  <2>2. CASE FinishPlain
    <3>1. /\ timelines' = timelines /\ words' = words /\ done' = TRUE /\ ~done
          /\ names' = names /\ hosted' = hosted
          /\ labels' = LabelSpeakers(words) /\ turns' = FormTurns(words', labels')
          /\ timelines = <<>> \/ ~hosted \/ Said(words) = {}
      BY <2>2 DEF FinishPlain
    <3>2. IsWords(words)' /\ IsTimelines(timelines)'
      BY <3>1 DEF FinalInv, IsWords, IsTimelines
    <3>3. TurnsAreMaximalRuns'
      BY <3>1, <3>2, RunsStored
    <3>4. DenseLabels'
      <4>1. LabelSpeakers(words) \in Bijection(Said(words), 1 .. Cardinality(Said(words)))
        BY PlainNumbers DEF FinalInv
      <4> QED
        BY <3>1, <4>1 DEF DenseLabels, Said
    <3>5. NamesOnEvidence'
      <4> SUFFICES ASSUME hosted, Said(words) # {} PROVE DOMAIN names = {}
        BY <3>1 DEF NamesOnEvidence, Said
      <4>1. timelines = <<>> /\ names = [l \in DOMAIN timelines |-> l]
        BY <3>1 DEF FinalInv
      <4>2. DOMAIN <<>> = {}
        OBVIOUS
      <4> QED
        BY <4>1, <4>2
    <3> QED
      BY <3>1, <3>2, <3>3, <3>4, <3>5 DEF FinalInv, WellFormedTranscript
  <2>3. CASE UNCHANGED finalVars
    <3>1. /\ hosted' = hosted /\ timelines' = timelines /\ names' = names /\ words' = words
          /\ done' = done /\ labels' = labels /\ turns' = turns
      BY <2>3 DEF finalVars
    <3>2. IsWords(words)' /\ IsTimelines(timelines)' /\ (~done' => names' = [l \in DOMAIN timelines' |-> l])
      BY <3>1 DEF FinalInv, IsWords, IsTimelines
    <3>3. WellFormedTranscript'
      BY <3>1 DEF FinalInv, WellFormedTranscript, DenseLabels, TurnsAreMaximalRuns, Said
    <3>4. NamesOnEvidence'
      <4>1. NamesOnEvidence
        BY DEF FinalInv
      <4>2. \A f : Evidenced(f)' <=> Evidenced(f)
        BY <3>1 DEF Evidenced
      <4> QED
        BY <3>1, <4>1, <4>2 DEF NamesOnEvidence, Said
    <3> QED
      BY <3>2, <3>3, <3>4 DEF FinalInv
  <2> QED
    BY <2>1, <2>2, <2>3 DEF FinalNext
<1> QED
  BY <1>1, <1>2, PTL DEF FinalSpec

\* The transcript that is stored is well formed, for every number of speakers and every
\* list of words (remap_final_speakers, label_speakers, form_turns).
THEOREM TranscriptTheorem == FinalSpec => []WellFormedTranscript
<1>1. FinalInv => WellFormedTranscript
  BY DEF FinalInv
<1> QED
  BY <1>1, FinalTheorem, PTL

\* A name goes to a final speaker only on the evidence of shared speech, whatever has
\* been committed to the live labels and whenever the words are said
\* (reconcile_final_aliases).
THEOREM EvidenceTheorem == FinalSpec => []NamesOnEvidence
<1>1. FinalInv => NamesOnEvidence
  BY DEF FinalInv
<1> QED
  BY <1>1, FinalTheorem, PTL

-----------------------------------------------------------------------------
(* What the links of a matching weigh.                                      *)

\* The sum of w over the parts of D.
IsSum(sum, w, D) ==
    /\ sum[{}] = 0
    /\ \A S \in SUBSET D : sum[S] \in Nat /\ \A x \in S : sum[S] = w[x] + sum[S \ {x}]

\* The element that a sum over s adds first.
Some(s) == CHOOSE x \in s : TRUE

\* g solves the recursion on the sets of at most k elements.
Adds(g, w, D, k) ==
    /\ g[{}] = 0
    /\ \A s \in SUBSET D :
          (s # {} /\ Cardinality(s) <= k) => g[s] = w[Some(s)] + g[s \ {Some(s)}]

LEMMA OneLess ==
    ASSUME NEW D, IsFiniteSet(D), NEW s \in SUBSET D
    PROVE  /\ Cardinality(s) \in Nat
           /\ s = {} <=> Cardinality(s) = 0
           /\ \A x \in s : s \ {x} \in SUBSET D /\ Cardinality(s \ {x}) = Cardinality(s) - 1
<1>1. IsFiniteSet(s)
  BY FS_Subset
<1>2. Cardinality(s) \in Nat /\ (s = {} <=> Cardinality(s) = 0)
  BY <1>1, FS_CardinalityType, FS_EmptySet
<1>3. \A x \in s : Cardinality(s \ {x}) = Cardinality(s) - 1
  BY <1>1, FS_RemoveElement
<1> QED
  BY <1>2, <1>3

LEMMA AddsOneMore ==
    ASSUME NEW D, IsFiniteSet(D), NEW w, NEW k \in Nat \ {0}, NEW g, Adds(g, w, D, k - 1)
    PROVE  \E h : Adds(h, w, D, k)
<1> DEFINE h == [s \in SUBSET D |->
                    IF s = {} THEN 0
                    ELSE IF Cardinality(s) <= k - 1 THEN g[s] ELSE w[Some(s)] + g[s \ {Some(s)}]]
<1>1. \A s \in SUBSET D :
         h[s] = IF s = {} THEN 0
                ELSE IF Cardinality(s) <= k - 1 THEN g[s] ELSE w[Some(s)] + g[s \ {Some(s)}]
  OBVIOUS
<1> HIDE DEF h
<1>2. ASSUME NEW s \in SUBSET D, s # {}, Cardinality(s) <= k
      PROVE  h[s] = w[Some(s)] + h[s \ {Some(s)}]
  <2> DEFINE t == s \ {Some(s)}
  <2>1. Some(s) \in s
    BY <1>2 DEF Some
  <2>2. t \in SUBSET D /\ Cardinality(t) <= k - 1
    BY <1>2, <2>1, OneLess
  <2>3. h[t] = g[t]
    BY <1>1, <2>2 DEF Adds
  <2> HIDE DEF t
  <2>4. h[s] = w[Some(s)] + g[t]
    <3>1. CASE Cardinality(s) <= k - 1
      BY <1>1, <1>2, <3>1 DEF Adds, t
    <3>2. CASE ~(Cardinality(s) <= k - 1)
      BY <1>1, <1>2, <3>2 DEF t
    <3> QED
      BY <3>1, <3>2
  <2> QED
    BY <2>3, <2>4 DEF t
<1>3. h[{}] = 0
  BY <1>1
<1>4. Adds(h, w, D, k)
  BY <1>2, <1>3 DEF Adds
<1> QED
  BY <1>4

\* A sum does not depend on the element it begins with.
LEMMA AddsAnyFirst ==
    ASSUME NEW D, IsFiniteSet(D), NEW w \in [D -> Nat], NEW g, Adds(g, w, D, Cardinality(D))
    PROVE  IsSum(g, w, D)
<1> DEFINE n == Cardinality(D)
           Even(s) == g[s] \in Nat /\ \A x \in s : g[s] = w[x] + g[s \ {x}]
           T == {k \in 0 .. n : \A s \in SUBSET D : Cardinality(s) <= k => Even(s)}
<1>1. n \in Nat
  BY FS_CardinalityType
<1>2. \A s \in SUBSET D : Cardinality(s) <= n
  BY FS_Subset
<1> HIDE DEF n
<1>3. \A s \in SUBSET D : s # {} => g[s] = w[Some(s)] + g[s \ {Some(s)}]
  BY <1>2 DEF Adds, n
<1>4. 0 \in T
  <2> SUFFICES ASSUME NEW s \in SUBSET D, Cardinality(s) <= 0 PROVE Even(s)
    BY <1>1
  <2>1. s = {}
    BY OneLess
  <2> QED
    BY <2>1 DEF Adds
<1>5. ASSUME NEW k \in 1 .. n, k - 1 \in T PROVE k \in T
  <2> SUFFICES ASSUME NEW s \in SUBSET D, Cardinality(s) <= k PROVE Even(s)
    OBVIOUS
  <2>1. \A r \in SUBSET D : Cardinality(r) <= k - 1 => Even(r)
    BY <1>5
  <2>2. CASE s = {}
    <3>1. Cardinality(s) <= k - 1
      BY <1>1, <2>2, OneLess
    <3> QED
      BY <2>1, <3>1
  <2>3. CASE s # {}
    <3> DEFINE x == Some(s)
    <3>1. x \in s
      BY <2>3 DEF Some
    <3>2. g[s] = w[x] + g[s \ {x}]
      BY <1>3, <2>3
    <3> HIDE DEF x
    <3>3. ASSUME NEW y \in s PROVE s \ {y} \in SUBSET D /\ Even(s \ {y})
      <4>1. s \ {y} \in SUBSET D /\ Cardinality(s \ {y}) <= k - 1
        BY <1>1, OneLess
      <4> HIDE DEF Even
      <4> QED
        BY <2>1, <4>1
    <3>4. g[s] \in Nat
      BY <3>1, <3>2, <3>3
    <3>5. ASSUME NEW y \in s PROVE g[s] = w[y] + g[s \ {y}]
      <4>1. CASE x = y
        BY <3>2, <4>1
      <4>2. CASE x # y
        <5> DEFINE r == (s \ {x}) \ {y}
        <5>1. g[s \ {x}] = w[y] + g[r]
          BY <3>1, <3>3, <4>2
        <5>2. g[s \ {y}] = w[x] + g[r]
          <6>1. x \in s \ {y} /\ (s \ {y}) \ {x} = r
            BY <3>1, <4>2
          <6>2. g[s \ {y}] = w[x] + g[(s \ {y}) \ {x}]
            BY <3>3, <6>1
          <6> QED
            BY <6>1, <6>2
        <5>3. g[r] \in Nat
          <6>1. r \in SUBSET D /\ Cardinality(r) <= k - 1
            <7>1. s \ {x} \in SUBSET D /\ y \in s \ {x} /\ Cardinality(s \ {x}) <= k - 1
              <8>1. Cardinality(s \ {x}) = Cardinality(s) - 1 /\ Cardinality(s) \in Nat
                BY <3>1, OneLess
              <8> QED
                BY <1>1, <4>2, <8>1
            <7>2. r \in SUBSET D /\ Cardinality(r) = Cardinality(s \ {x}) - 1
              <8> DEFINE q == s \ {x}
              <8>1. q \in SUBSET D /\ y \in q
                BY <7>1
              <8> HIDE DEF q
              <8>2. q \ {y} \in SUBSET D /\ Cardinality(q \ {y}) = Cardinality(q) - 1
                BY <8>1, OneLess
              <8> QED
                BY <8>2 DEF q
            <7>3. Cardinality(s \ {x}) \in Nat
              BY <7>1, OneLess
            <7> QED
              BY <7>1, <7>2, <7>3
          <6> QED
            BY <2>1, <6>1
        <5> HIDE DEF r
        <5>4. w[x] \in Nat /\ w[y] \in Nat
          BY <3>1
        <5> QED
          BY <3>2, <5>1, <5>2, <5>3, <5>4
      <4> QED
        BY <4>1, <4>2
    <3> QED
      BY <3>4, <3>5
  <2> QED
    BY <2>2, <2>3
<1>6. n \in T
  <2> HIDE DEF T
  <2> QED
    BY <1>1, <1>4, <1>5, JoinLoop!Induct
<1>7. \A s \in SUBSET D : Even(s)
  BY <1>2, <1>6
<1>8. g[{}] = 0
  BY DEF Adds
<1> QED
  BY <1>7, <1>8 DEF IsSum

LEMMA WeightIs ==
    ASSUME NEW m, NEW scores, IsFiniteSet(DOMAIN m),
           \A q \in DOMAIN m : scores[<<m[q], q>>] \in Nat
    PROVE  \E sum : /\ IsSum(sum, [q \in DOMAIN m |-> scores[<<m[q], q>>]], DOMAIN m)
                    /\ WeightOf(m, scores) = sum[DOMAIN m]
<1> DEFINE D == DOMAIN m
           w == [q \in D |-> scores[<<m[q], q>>]]
           n == Cardinality(D)
           Body(g) == [s \in SUBSET D |-> IF s = {} THEN 0 ELSE w[Some(s)] + g[s \ {Some(s)}]]
           sum == CHOOSE g : g = Body(g)
           T == {k \in 0 .. n : \E g : Adds(g, w, D, k)}
<1>1. WeightOf(m, scores) = sum[D]
  <2> DEFINE Sums(g) == [s \in SUBSET D |->
                 IF s = {} THEN 0 ELSE scores[<<m[Some(s)], Some(s)>>] + g[s \ {Some(s)}]]
  <2>1. WeightOf(m, scores) = (CHOOSE g : g = Sums(g))[D]
    BY DEF WeightOf, MapThenSumSet, MapThenFoldSet, Some
  <2>2. ASSUME NEW g PROVE Sums(g) = Body(g)
    <3>1. \A s \in SUBSET D : s # {} => w[Some(s)] = scores[<<m[Some(s)], Some(s)>>]
      <4> SUFFICES ASSUME NEW s \in SUBSET D, s # {}
                   PROVE  w[Some(s)] = scores[<<m[Some(s)], Some(s)>>]
        OBVIOUS
      <4>1. Some(s) \in D
        BY DEF Some
      <4> QED
        BY <4>1
    <3> HIDE DEF w
    <3> QED
      BY <3>1
  <2> HIDE DEF Sums, Body
  <2>3. (CHOOSE g : g = Sums(g)) = (CHOOSE g : g = Body(g))
    BY <2>2
  <2> QED
    BY <2>1, <2>3
<1>2. n \in Nat
  BY FS_CardinalityType
<1>3. 0 \in T
  <2> DEFINE g == [s \in SUBSET D |-> 0]
  <2>1. g[{}] = 0
    OBVIOUS
  <2> HIDE DEF g, w
  <2>2. \A s \in SUBSET D : s # {} => ~(Cardinality(s) <= 0)
    BY OneLess
  <2>3. Adds(g, w, D, 0)
    BY <2>1, <2>2 DEF Adds
  <2> QED
    BY <1>2, <2>3
<1>4. ASSUME NEW k \in 1 .. n, k - 1 \in T PROVE k \in T
  <2>1. PICK g : Adds(g, w, D, k - 1)
    BY <1>4
  <2> HIDE DEF w, n
  <2>2. k \in Nat \ {0}
    BY <1>2
  <2>3. \E h : Adds(h, w, D, k)
    BY <2>1, <2>2, AddsOneMore
  <2> QED
    BY <2>3
<1>5. n \in T
  <2> HIDE DEF T
  <2> QED
    BY <1>2, <1>3, <1>4, JoinLoop!Induct
<1>6. PICK g : Adds(g, w, D, n)
  BY <1>5
<1> HIDE DEF w
<1>7. \A s \in SUBSET D : Cardinality(s) <= n
  BY FS_Subset
<1> DEFINE h == [s \in SUBSET D |-> g[s]]
<1>8. h = Body(h)
  <2>1. \A s \in SUBSET D : h[s] = IF s = {} THEN 0 ELSE w[Some(s)] + h[s \ {Some(s)}]
    <3> SUFFICES ASSUME NEW s \in SUBSET D
                 PROVE  g[s] = IF s = {} THEN 0 ELSE w[Some(s)] + g[s \ {Some(s)}]
      OBVIOUS
    <3> QED
      BY <1>6, <1>7 DEF Adds
  <2>2. h = [s \in SUBSET D |-> h[s]]
    OBVIOUS
  <2> HIDE DEF h
  <2> QED
    BY <2>1, <2>2
<1>9. sum = Body(sum)
  <2> HIDE DEF h
  <2> QED
    BY <1>8
<1> HIDE DEF sum, h
<1>10. Adds(sum, w, D, n)
  <2>1. \A s \in SUBSET D : sum[s] = IF s = {} THEN 0 ELSE w[Some(s)] + sum[s \ {Some(s)}]
    BY <1>9
  <2> QED
    BY <2>1 DEF Adds
<1>11. w \in [D -> Nat]
  BY DEF w
<1>12. IsSum(sum, w, D)
  BY <1>10, <1>11, AddsAnyFirst
<1> QED
  BY <1>1, <1>12 DEF w

\* A sum is at most another one that has an element of its own, and no smaller, for each
\* of the first.
LEMMA SumsCompare ==
    ASSUME NEW C, IsFiniteSet(C), NEW w \in [C -> Nat], NEW sum, IsSum(sum, w, C),
           NEW D, IsFiniteSet(D), NEW u \in [D -> Nat], NEW more, IsSum(more, u, D),
           NEW b, \A x \in C : b[x] \in D /\ w[x] <= u[b[x]],
           \A x, y \in C : b[x] = b[y] => x = y
    PROVE  sum[C] <= more[D]
<1> DEFINE n == Cardinality(C)
           T == {k \in 0 .. n : \A Q \in SUBSET C : \A R \in SUBSET D :
                    (Cardinality(Q) = k /\ \A x \in Q : b[x] \in R) => sum[Q] <= more[R]}
<1>1. n \in Nat
  BY FS_CardinalityType
<1>2. 0 \in T
  <2> SUFFICES ASSUME NEW Q \in SUBSET C, NEW R \in SUBSET D, Cardinality(Q) = 0
               PROVE  sum[Q] <= more[R]
    BY <1>1
  <2>1. Q = {}
    BY OneLess
  <2>2. sum[Q] = 0 /\ more[R] \in Nat
    BY <2>1 DEF IsSum
  <2> QED
    BY <2>2
<1>3. ASSUME NEW k \in 1 .. n, k - 1 \in T PROVE k \in T
  <2> SUFFICES ASSUME NEW Q \in SUBSET C, NEW R \in SUBSET D, Cardinality(Q) = k,
                      \A x \in Q : b[x] \in R
               PROVE  sum[Q] <= more[R]
    OBVIOUS
  <2>1. Q # {}
    BY <1>1, OneLess
  <2>2. PICK x \in Q : TRUE
    BY <2>1
  <2> DEFINE q == Q \ {x}
             r == R \ {b[x]}
  <2>3. q \in SUBSET C /\ r \in SUBSET D /\ Cardinality(q) = k - 1
    BY OneLess
  <2>4. \A y \in q : b[y] \in r
    OBVIOUS
  <2>5. sum[q] <= more[r]
    <3> HIDE DEF q, r
    <3> QED
      BY <1>3, <2>3, <2>4
  <2>6. sum[Q] = w[x] + sum[q] /\ more[R] = u[b[x]] + more[r]
    BY DEF IsSum
  <2>7. sum[q] \in Nat /\ more[r] \in Nat /\ w[x] \in Nat /\ u[b[x]] \in Nat /\ w[x] <= u[b[x]]
    BY <2>3 DEF IsSum
  <2> HIDE DEF q, r
  <2> QED
    BY <2>5, <2>6, <2>7
<1>4. n \in T
  <2> HIDE DEF T
  <2> QED
    BY <1>1, <1>2, <1>3, JoinLoop!Induct
<1> QED
  BY <1>4

-----------------------------------------------------------------------------
(* The search of the matching when no two rows compete for a column.        *)

\* PlaceRow's search: how it starts, and where it ends.
Begun(st, i, m) ==
    [u |-> st.u, v |-> st.v, p |-> [st.p EXCEPT ![0] = i], j |-> 0, used |-> {},
     way |-> st.way, minv |-> [j \in 0 .. m.n |-> m.infinity], done |-> FALSE]
Found(st, i, m) ==
    FoldLeft(LAMBDA s, k : Search(s, m), Begun(st, i, m), [k \in 1 .. 2 * (m.n + 1) |-> k])

\* The columns that are open in a round, and how far away they are then.
OpenIn(s, m) == (1 .. m.n) \ (s.used \cup {s.j})
Reach(s, m, k) == m.cost[<<s.p[s.j], k>>] - s.u[s.p[s.j]] - s.v[k]
Distance(s, m, k) == IF Reach(s, m, k) < s.minv[k] THEN Reach(s, m, k) ELSE s.minv[k]

IsNearest(j, s, m) ==
    /\ j \in OpenIn(s, m) /\ Distance(s, m, j) < m.infinity
    /\ \A k \in OpenIn(s, m) :
          \/ Distance(s, m, j) < Distance(s, m, k)
          \/ Distance(s, m, j) = Distance(s, m, k) /\ j <= k

\* A round goes on to the nearest open column.
LooksTo(t, j, s, m) ==
    /\ t.j = j /\ t.p = s.p /\ t.used = s.used \cup {s.j} /\ (t.done <=> s.p[j] = 0)
    /\ \A k \in 1 .. m.n :
          /\ t.v[k] = IF k \in s.used \cup {s.j} THEN s.v[k] - Distance(s, m, j) ELSE s.v[k]
          /\ t.u[k] = IF k \in {s.p[l] : l \in s.used \cup {s.j}}
                      THEN s.u[k] + Distance(s, m, j) ELSE s.u[k]
    /\ \A k \in OpenIn(s, m) :
          /\ t.minv[k] = Distance(s, m, k) - Distance(s, m, j)
          /\ t.way[k] = IF Reach(s, m, k) < s.minv[k] THEN s.j ELSE s.way[k]
    /\ \A k \in (1 .. m.n) \ OpenIn(s, m) : t.way[k] = s.way[k]

LEMMA LooksNearest ==
    ASSUME NEW m, m.n \in Nat, NEW i, NEW s, IsPath(s, m.n, i), NEW j, IsNearest(j, s, m),
           \A k \in OpenIn(s, m) : Distance(s, m, k) \in Int
    PROVE  LooksTo(Look(s, m), j, s, m)
<1> DEFINE Cols  == 0 .. m.n
           used  == s.used \cup {s.j}
           row   == s.p[s.j]
           open  == (1 .. m.n) \ used
           reach == [k \in open |-> m.cost[<<row, k>>] - s.u[row] - s.v[k]]
           near  == {k \in open : reach[k] < s.minv[k]}
           minv  == [k \in Cols |-> IF k \in near THEN reach[k] ELSE s.minv[k]]
           least == {k \in open : /\ minv[k] < m.infinity
                                  /\ \A l \in open : minv[k] < minv[l] \/ (minv[k] = minv[l] /\ k <= l)}
           next  == IF least = {} THEN 0 ELSE CHOOSE k \in least : TRUE
           delta == IF least = {} THEN m.infinity ELSE minv[next]
           rows  == {s.p[k] : k \in used}
           way   == [k \in Cols |-> IF k \in near THEN s.j ELSE s.way[k]]
           u     == [r \in Cols |-> IF r \in rows THEN s.u[r] + delta ELSE s.u[r]]
           v     == [k \in Cols |-> IF k \in used THEN s.v[k] - delta ELSE s.v[k]]
           minv2 == [k \in Cols |-> IF k \in used THEN minv[k] ELSE minv[k] - delta]
           ends  == s.p[next] = 0
<1>1. Look(s, m) = [s EXCEPT !.used = used, !.j = next, !.way = way, !.u = u, !.v = v,
                             !.minv = minv2, !.done = ends]
  BY DEF Look
<1>2. open = OpenIn(s, m) /\ \A k \in open : reach[k] = Reach(s, m, k) /\ k \in Cols
  <2>1. open = OpenIn(s, m) /\ \A k \in open : k \in Cols
    BY DEF OpenIn
  <2> HIDE DEF open
  <2>2. \A k \in open : reach[k] = Reach(s, m, k)
    BY DEF Reach
  <2> HIDE DEF reach
  <2> QED
    BY <2>1, <2>2
<1> HIDE DEF reach, open
<1>3. \A k \in open : k \in near <=> Reach(s, m, k) < s.minv[k]
  BY <1>2
<1>4. near \subseteq open
  OBVIOUS
<1> HIDE DEF near
<1>5. \A k \in open : minv[k] = Distance(s, m, k)
  BY <1>2, <1>3 DEF Distance
<1> HIDE DEF minv
<1>6. least = {j}
  <2>1. \A k \in open : minv[k] \in Int /\ k \in Int
    BY <1>2, <1>5
  <2>2. j \in least
    BY <1>2, <1>5 DEF IsNearest
  <2>3. ASSUME NEW k \in least PROVE k = j
    <3>1. /\ k \in open /\ j \in open
          /\ minv[k] < minv[j] \/ (minv[k] = minv[j] /\ k <= j)
          /\ minv[j] < minv[k] \/ (minv[j] = minv[k] /\ j <= k)
      BY <2>2
    <3> QED
      BY <2>1, <3>1
  <2> HIDE DEF least
  <2> QED
    BY <2>2, <2>3
<1> HIDE DEF least
<1>7. next = j /\ delta = Distance(s, m, j)
  <2>1. next = j
    BY <1>6
  <2>2. j \in open
    BY <1>2 DEF IsNearest
  <2> HIDE DEF next
  <2> QED
    BY <1>5, <1>6, <2>1, <2>2
<1> HIDE DEF next, delta
<1>8. \A k \in 1 .. m.n :
         /\ v[k] = IF k \in used THEN s.v[k] - delta ELSE s.v[k]
         /\ u[k] = IF k \in rows THEN s.u[k] + delta ELSE s.u[k]
  <2> HIDE DEF used, rows
  <2> QED
    OBVIOUS
<1>9. \A k \in open : /\ minv2[k] = Distance(s, m, k) - delta
                      /\ way[k] = IF Reach(s, m, k) < s.minv[k] THEN s.j ELSE s.way[k]
  <2>1. \A k \in open : k \notin used
    BY DEF open
  <2> HIDE DEF used
  <2> QED
    BY <1>2, <1>3, <1>5, <2>1
<1>10. ends <=> s.p[j] = 0
  BY <1>7
<1>13. \A k \in (1 .. m.n) \ open : way[k] = s.way[k]
  <2>1. \A k \in (1 .. m.n) \ open : k \in Cols /\ k \notin near
    BY <1>4
  <2> QED
    BY <2>1
<1> HIDE DEF used, rows, u, v, way, minv2, ends
<1> DEFINE t == Look(s, m)
<1>11. /\ t.j = next /\ t.p = s.p /\ t.used = used /\ t.done = ends
       /\ t.v = v /\ t.u = u /\ t.minv = minv2 /\ t.way = way
  BY <1>1 DEF IsPath
<1> HIDE DEF t
<1>12. LooksTo(t, j, s, m)
  <2>1. t.j = j /\ t.p = s.p /\ t.used = s.used \cup {s.j} /\ (t.done <=> s.p[j] = 0)
    BY <1>7, <1>10, <1>11 DEF used
  <2>2. \A k \in 1 .. m.n :
          /\ t.v[k] = IF k \in s.used \cup {s.j} THEN s.v[k] - Distance(s, m, j) ELSE s.v[k]
          /\ t.u[k] = IF k \in {s.p[l] : l \in s.used \cup {s.j}}
                      THEN s.u[k] + Distance(s, m, j) ELSE s.u[k]
    BY <1>7, <1>8, <1>11 DEF used, rows
  <2>3. \A k \in OpenIn(s, m) :
          /\ t.minv[k] = Distance(s, m, k) - Distance(s, m, j)
          /\ t.way[k] = IF Reach(s, m, k) < s.minv[k] THEN s.j ELSE s.way[k]
    BY <1>2, <1>7, <1>9, <1>11
  <2>4. \A k \in (1 .. m.n) \ OpenIn(s, m) : t.way[k] = s.way[k]
    BY <1>2, <1>11, <1>13
  <2> QED
    BY <2>1, <2>2, <2>3, <2>4 DEF LooksTo
<1> QED
  BY <1>12 DEF t

\* The states of the search, from its start.
LEMMA SearchRuns ==
    ASSUME NEW m, m.n \in Nat, NEW i \in Nat, NEW st, IsPlaced(st, m.n, i - 1)
    PROVE  LET n == m.n IN
           \E run : /\ run[0] = Begun(st, i, m) /\ run[2 * (n + 1)] = Found(st, i, m)
                    /\ \A k \in 1 .. 2 * (n + 1) : run[k] = Search(run[k - 1], m)
                    /\ \A k \in 0 .. 2 * (n + 1) :
                          IsPath(run[k], n, i) /\ run[k].p = Begun(st, i, m).p
<1> DEFINE n == m.n
           L == [k \in 1 .. 2 * (n + 1) |-> k]
           start == Begun(st, i, m)
           found == Found(st, i, m)
           len == 2 * (n + 1)
<1>1. SearchLoop!IsList(L) /\ Len(L) = len /\ len \in Nat
  <2>1. L \in Seq(Int) /\ Len(L) = len /\ len \in Nat
    OBVIOUS
  <2> HIDE DEF L
  <2> QED
    BY <2>1 DEF SearchLoop!IsList
<1>2. found = SearchLoop!Fold(m, start, L)
  BY DEF Found, FoldLeft, MapThenFoldSet, SearchLoop!Fold, Max, SearchLoop!Top
<1> HIDE DEF L, len, found
<1>3. PICK run : SearchLoop!IsRun(run, m, start, L) /\ run[len] = found
  BY <1>1, <1>2, SearchLoop!FoldRuns
<1>4. run[0] = start /\ \A k \in 1 .. len : run[k] = Search(run[k - 1], m)
  BY <1>1, <1>3 DEF SearchLoop!IsRun
<1>5. IsPath(start, n, i)
  <2> DEFINE p == [st.p EXCEPT ![0] = i]
  <2>1. st.way \in [0 .. n -> 0 .. n] /\ st.p \in [0 .. n -> 0 .. i - 1] /\ n \in Nat
    BY DEF IsPlaced
  <2>2. p \in [0 .. n -> 0 .. i]
    BY <2>1
  <2>3. start.p = p /\ start.j = 0 /\ start.way = st.way
    BY DEF Begun
  <2>4. DOMAIN start = {"u", "v", "p", "j", "used", "way", "minv", "done"}
    BY DEF Begun
  <2> HIDE DEF start, p
  <2> QED
    BY <2>1, <2>2, <2>3, <2>4 DEF IsPath
<1> DEFINE T == {k \in 0 .. len : \A l \in 0 .. k : IsPath(run[l], n, i) /\ run[l].p = start.p}
<1> HIDE DEF start
<1>6. 0 \in T
  BY <1>1, <1>4, <1>5
<1>7. ASSUME NEW k \in 1 .. len, k - 1 \in T PROVE k \in T
  <2>1. IsPath(run[k - 1], n, i) /\ run[k - 1].p = start.p
    BY <1>1, <1>7
  <2>2. run[k] = Search(run[k - 1], m)
    BY <1>4
  <2>3. IsPath(run[k], n, i) /\ run[k].p = start.p
    <3>1. \A s : IsPath(s, m.n, i) => IsPath(Search(s, m), m.n, i) /\ Search(s, m).p = s.p
      BY SearchKeeps
    <3> QED
      BY <2>1, <2>2, <3>1
  <2>4. \A l \in 0 .. k : l = k \/ l \in 0 .. k - 1
    BY <1>1
  <2>5. \A l \in 0 .. k - 1 : IsPath(run[l], n, i) /\ run[l].p = start.p
    BY <1>7
  <2> QED
    BY <1>1, <2>3, <2>4, <2>5
<1>8. len \in T
  <2> HIDE DEF T
  <2> QED
    BY <1>1, <1>6, <1>7, JoinLoop!Induct
<1>9. \A k \in 0 .. len : IsPath(run[k], n, i) /\ run[k].p = start.p
  BY <1>8
<1> QED
  BY <1>3, <1>4, <1>9 DEF start, found, len

Moved(st, i, m) == FoldLeft(LAMBDA s, k : Shift(s), Found(st, i, m), [k \in 1 .. m.n + 1 |-> k])

LEMMA PlaceRowIs ==
    ASSUME NEW m, NEW i, NEW st
    PROVE  LET moved == Moved(st, i, m)
           IN  PlaceRow(st, i, m) = [u |-> moved.u, v |-> moved.v,
                                     p |-> [moved.p EXCEPT ![moved.j] = 0], way |-> moved.way]
BY DEF PlaceRow, Moved, Found, Begun

\* Where a search ends in a column that was reached from column 0, row i gets that column.
LEMMA PlacedAt ==
    ASSUME NEW m, m.n \in Nat \ {0}, NEW i \in Nat, NEW st, IsPlaced(st, m.n, i - 1),
           NEW f, f = Found(st, i, m), f.j \in 1 .. m.n, f.way[f.j] = 0
    PROVE  LET t == PlaceRow(st, i, m)
           IN  /\ t.u = f.u /\ t.v = f.v
               /\ \A j \in 1 .. m.n : t.p[j] = IF j = f.j THEN i ELSE st.p[j]
<1> DEFINE n == m.n
           M == [k \in 1 .. n + 1 |-> k]
           moved == Moved(st, i, m)
           to == Shift(f)
           j0 == f.j
<1>1. PlaceRow(st, i, m) = [u |-> moved.u, v |-> moved.v, p |-> [moved.p EXCEPT ![moved.j] = 0],
                            way |-> moved.way]
  BY PlaceRowIs
<1>2. /\ ShiftLoop!IsList(M) /\ Len(M) \in Nat \ {0}
  <2>1. M \in Seq(Int) /\ Len(M) = n + 1
    OBVIOUS
  <2> HIDE DEF M
  <2> QED
    BY <2>1 DEF ShiftLoop!IsList
<1>3. moved = ShiftLoop!Fold(0, Found(st, i, m), M)
  BY DEF Moved, FoldLeft, MapThenFoldSet, ShiftLoop!Fold, Max, ShiftLoop!Top
<1> HIDE DEF M, moved
<1>4. PICK run : ShiftLoop!IsRun(run, 0, f, M) /\ run[Len(M)] = moved
  BY <1>2, <1>3, ShiftLoop!FoldRuns
<1>5. IsPath(f, n, i) /\ f.p = [st.p EXCEPT ![0] = i]
  <2>1. \E run2 : /\ run2[2 * (n + 1)] = f
                  /\ \A k \in 0 .. 2 * (n + 1) :
                          IsPath(run2[k], n, i) /\ run2[k].p = Begun(st, i, m).p
    BY SearchRuns
  <2>2. 2 * (n + 1) \in 0 .. 2 * (n + 1)
    OBVIOUS
  <2>3. Begun(st, i, m).p = [st.p EXCEPT ![0] = i]
    BY DEF Begun
  <2> QED
    BY <2>1, <2>2, <2>3
<1>6. /\ to.u = f.u /\ to.v = f.v /\ to.j = 0
      /\ to.p = [f.p EXCEPT ![j0] = f.p[0]]
  <2>1. f.j # 0
    OBVIOUS
  <2>2. to = [f EXCEPT !.p[f.j] = f.p[f.way[f.j]], !.j = f.way[f.j]]
    BY <2>1 DEF Shift
  <2> HIDE DEF to
  <2> QED
    BY <1>5, <2>2 DEF IsPath
<1>7. Shift(to) = to
  <2> HIDE DEF to
  <2> QED
    BY <1>6 DEF Shift
<1> HIDE DEF to
<1>8. moved = to
  <2> DEFINE T == {k \in 0 .. Len(M) : k # 0 => run[k] = to}
  <2>1. run[0] = f /\ \A k \in 1 .. Len(M) : run[k] = Shift(run[k - 1])
    BY <1>4 DEF ShiftLoop!IsRun
  <2>2. 0 \in T
    BY <1>2
  <2>3. ASSUME NEW k \in 1 .. Len(M), k - 1 \in T PROVE k \in T
    <3>1. CASE k = 1
      <4>1. run[k] = Shift(run[0])
        BY <2>1, <3>1
      <4> QED
        BY <2>1, <4>1, <1>2 DEF to
    <3>2. CASE k # 1
      <4>1. run[k - 1] = to
        BY <2>3, <3>2
      <4> QED
        BY <1>2, <1>7, <2>1, <4>1
    <3> QED
      BY <3>1, <3>2
  <2> HIDE <1>2
  <2>4. Len(M) \in T
    <3> HIDE DEF T
    <3> QED
      BY <1>2, <2>2, <2>3, JoinLoop!Induct
  <2> QED
    BY <1>2, <1>4, <2>4
<1>9. \A j \in 1 .. n : [to.p EXCEPT ![0] = 0][j] = IF j = j0 THEN i ELSE st.p[j]
  <2>1. st.p \in [0 .. n -> 0 .. i - 1] /\ j0 \in 0 .. n /\ 0 \in 0 .. n /\ j0 # 0
    BY DEF IsPlaced
  <2>2. f.p[0] = i /\ DOMAIN f.p = 0 .. n /\ \A j \in 1 .. n : f.p[j] = st.p[j]
    BY <1>5, <2>1
  <2>3. DOMAIN to.p = 0 .. n /\ \A j \in 1 .. n : to.p[j] = IF j = j0 THEN i ELSE st.p[j]
    BY <1>6, <2>1, <2>2
  <2> QED
    BY <2>3
<1>10. /\ PlaceRow(st, i, m).u = to.u /\ PlaceRow(st, i, m).v = to.v
       /\ PlaceRow(st, i, m).p = [to.p EXCEPT ![0] = 0]
  BY <1>1, <1>6, <1>8
<1> QED
  BY <1>6, <1>9, <1>10

\* A matrix of n columns, each with an owner among the rows 1 to a, that only the owner can
\* reach below infinity; best[i] is the cheapest column of row i. The other rows are padding.
IsStar(m, n, a, own, best) ==
    /\ n \in Nat \ {0} /\ a \in 1 .. n /\ own \in [1 .. n -> 1 .. a] /\ best \in [1 .. a -> 1 .. n]
    /\ m.n = n /\ m.infinity \in Nat \ {0}
    /\ \A i \in 1 .. a : \A j \in 1 .. n :
          m.cost[<<i, j>>] \in Nat /\ (own[j] = i <=> m.cost[<<i, j>>] < m.infinity)
    /\ \A i \in 1 .. n : \A j \in 1 .. n : i > a => m.cost[<<i, j>>] = 0
    /\ \A i \in 1 .. a :
          /\ own[best[i]] = i
          /\ \A j \in 1 .. n :
                own[j] = i => \/ m.cost[<<i, best[i]>>] < m.cost[<<i, j>>]
                              \/ m.cost[<<i, best[i]>>] = m.cost[<<i, j>>] /\ best[i] <= j

\* Rows 1 to i have been placed: those with a column of their own have the cheapest one,
\* and no column has got dearer.
IsServed(st, i, m, a, best) ==
    /\ \A j \in 1 .. m.n : st.v[j] = 0
    /\ \A k \in 1 .. m.n : st.u[k] = IF k <= a /\ k <= i THEN m.cost[<<k, best[k]>>] ELSE 0
    /\ \A k \in 1 .. a : k <= i => st.p[best[k]] = k
    /\ \A j \in 1 .. m.n : st.p[j] \in 1 .. a => j = best[st.p[j]]

\* A row with a column of its own takes the cheapest at once.
LEMMA OwnColumn ==
    ASSUME NEW m, NEW n, NEW a, NEW own, NEW best, IsStar(m, n, a, own, best),
           NEW i \in 1 .. a, NEW st, IsPlaced(st, n, i - 1), IsServed(st, i - 1, m, a, best)
    PROVE  LET f == Found(st, i, m)
           IN  /\ f.j = best[i] /\ f.way[best[i]] = 0
               /\ \A j \in 1 .. n : f.v[j] = 0
               /\ \A k \in 1 .. n : f.u[k] = IF k = i THEN m.cost[<<i, best[i]>>] ELSE st.u[k]
<1> DEFINE b == best[i]
           s == Begun(st, i, m)
           f == Found(st, i, m)
           t == Look(s, m)
           c(j) == m.cost[<<i, j>>]
<1>1. /\ n \in Nat \ {0} /\ m.n = n /\ a \in Nat /\ i \in Nat /\ i \in 1 .. n /\ b \in 1 .. n
      /\ m.infinity \in Nat \ {0} /\ best \in [1 .. a -> 1 .. n]
  <2>1. /\ n \in Nat \ {0} /\ m.n = n /\ a \in 1 .. n /\ m.infinity \in Nat \ {0}
        /\ best \in [1 .. a -> 1 .. n]
    BY DEF IsStar
  <2> QED
    BY <2>1
<1>2. \A j \in 1 .. n : c(j) \in Nat /\ (own[j] = i <=> c(j) < m.infinity)
  BY DEF IsStar
<1>3. own[b] = i /\ \A j \in 1 .. n : own[j] = i => c(b) < c(j) \/ (c(b) = c(j) /\ b <= j)
  <2>1. \A l \in 1 .. a :
           /\ own[best[l]] = l
           /\ \A j \in 1 .. n :
                 own[j] = l => \/ m.cost[<<l, best[l]>>] < m.cost[<<l, j>>]
                               \/ m.cost[<<l, best[l]>>] = m.cost[<<l, j>>] /\ best[l] <= j
    BY DEF IsStar
  <2>2. /\ own[b] = i
        /\ \A j \in 1 .. n :
              own[j] = i => \/ m.cost[<<i, b>>] < m.cost[<<i, j>>]
                            \/ m.cost[<<i, b>>] = m.cost[<<i, j>>] /\ b <= j
    BY <2>1
  <2> QED
    BY <2>2
<1>4. st.p \in [0 .. n -> 0 .. i - 1] /\ st.way \in [0 .. n -> 0 .. n]
  BY DEF IsPlaced
<1>5. /\ s.p = [st.p EXCEPT ![0] = i] /\ s.j = 0 /\ s.used = {} /\ s.u = st.u /\ s.v = st.v
      /\ s.minv = [j \in 0 .. n |-> m.infinity] /\ s.done = FALSE
  BY <1>1 DEF Begun
<1>6. s.p[0] = i /\ \A j \in 1 .. n : s.p[j] = st.p[j] /\ s.minv[j] = m.infinity
  BY <1>1, <1>4, <1>5
<1>7. st.u[i] = 0 /\ \A j \in 1 .. n : st.v[j] = 0
  <2>1. i \in 1 .. m.n /\ ~(i <= i - 1)
    BY <1>1
  <2>2. \A j \in 1 .. m.n : st.v[j] = 0
    BY DEF IsServed
  <2>3. st.u[i] = 0
    BY <2>1 DEF IsServed
  <2> QED
    BY <1>1, <2>2, <2>3
<1> HIDE DEF b, c, s
<1>8. OpenIn(s, m) = 1 .. n
  BY <1>1, <1>5 DEF OpenIn
<1>9. \A j \in 1 .. n : Reach(s, m, j) = c(j)
  <2> SUFFICES ASSUME NEW j \in 1 .. n PROVE Reach(s, m, j) = c(j)
    OBVIOUS
  <2>1. Reach(s, m, j) = c(j) - 0 - 0
    BY <1>5, <1>6, <1>7 DEF Reach, c
  <2> QED
    BY <1>2, <2>1
<1>10. \A j \in 1 .. n : Distance(s, m, j) = IF own[j] = i THEN c(j) ELSE m.infinity
  BY <1>2, <1>6, <1>9 DEF Distance
<1>11. IsNearest(b, s, m)
  <2>1. b \in OpenIn(s, m) /\ Distance(s, m, b) = c(b) /\ c(b) < m.infinity /\ c(b) \in Nat
    BY <1>1, <1>2, <1>3, <1>8, <1>10
  <2>2. ASSUME NEW j \in OpenIn(s, m)
        PROVE  \/ Distance(s, m, b) < Distance(s, m, j)
               \/ Distance(s, m, b) = Distance(s, m, j) /\ b <= j
    <3>1. j \in 1 .. n
      BY <1>8
    <3>2. CASE own[j] = i
      BY <1>3, <1>10, <2>1, <3>1, <3>2
    <3>3. CASE own[j] # i
      BY <1>10, <2>1, <3>1, <3>3
    <3> QED
      BY <3>2, <3>3
  <2> QED
    BY <2>1, <2>2 DEF IsNearest
<1>12. PICK run : /\ run[0] = s /\ run[2 * (n + 1)] = f
                  /\ \A k \in 1 .. 2 * (n + 1) : run[k] = Search(run[k - 1], m)
                  /\ \A k \in 0 .. 2 * (n + 1) : IsPath(run[k], n, i) /\ run[k].p = s.p
  <2>1. m.n \in Nat /\ i \in Nat /\ IsPlaced(st, m.n, i - 1)
    BY <1>1
  <2>2. \E run : /\ run[0] = Begun(st, i, m) /\ run[2 * (m.n + 1)] = Found(st, i, m)
                 /\ \A k \in 1 .. 2 * (m.n + 1) : run[k] = Search(run[k - 1], m)
                 /\ \A k \in 0 .. 2 * (m.n + 1) :
                       IsPath(run[k], m.n, i) /\ run[k].p = Begun(st, i, m).p
    <3> HIDE DEF f
    <3> QED
      BY <2>1, SearchRuns
  <2> HIDE DEF f
  <2>3. m.n = n
    BY <1>1
  <2> QED
    BY <2>2, <2>3 DEF s, f
<1>13. IsPath(s, n, i)
  <2>1. 0 \in 0 .. 2 * (n + 1)
    BY <1>1
  <2> QED
    BY <1>12, <2>1
<1>14. LooksTo(t, b, s, m)
  <2>1. \A k \in OpenIn(s, m) : Distance(s, m, k) \in Int
    BY <1>1, <1>2, <1>8, <1>10
  <2> QED
    BY <1>1, <1>11, <1>13, <2>1, LooksNearest
<1> HIDE DEF t, f
<1>15. /\ t.j = b /\ t.done /\ t.way[b] = 0
       /\ \A j \in 1 .. n : t.v[j] = 0
       /\ \A k \in 1 .. n : t.u[k] = IF k = i THEN c(b) ELSE st.u[k]
  <2>1. t.j = b /\ (t.done <=> s.p[b] = 0)
    BY <1>14 DEF LooksTo
  <2>2. s.p[b] = 0
    <3>1. st.p[b] \in 0 .. i - 1
      <4>1. b \in 0 .. n
        BY <1>1
      <4> QED
        BY <1>4, <4>1
    <3>2. CASE st.p[b] = 0
      BY <1>1, <1>6, <3>2
    <3>3. CASE st.p[b] # 0
      <4> DEFINE k == st.p[b]
      <4>1. k \in 1 .. a /\ k # i
        BY <1>1, <3>1, <3>3
      <4>2. b = best[k]
        BY <1>1, <4>1 DEF IsServed
      <4>3. own[b] = k
        BY <4>1, <4>2 DEF IsStar
      <4> QED
        BY <1>3, <4>1, <4>3
    <3> QED
      BY <3>2, <3>3
  <2>3. t.way[b] = 0
    <3>1. b \in OpenIn(s, m) /\ Reach(s, m, b) < s.minv[b]
      BY <1>1, <1>2, <1>3, <1>6, <1>8, <1>9
    <3> QED
      BY <1>5, <1>14, <3>1 DEF LooksTo
  <2>4. s.used \cup {s.j} = {0} /\ {s.p[l] : l \in {0}} = {i}
    BY <1>5, <1>6
  <2>5. \A j \in 1 .. n : t.v[j] = 0
    <3>1. \A j \in 1 .. n : j \notin {0}
      OBVIOUS
    <3>2. \A j \in 1 .. n : t.v[j] = IF j \in {0} THEN s.v[j] - Distance(s, m, b) ELSE s.v[j]
      BY <1>1, <1>14, <2>4 DEF LooksTo
    <3> QED
      BY <1>5, <1>7, <3>1, <3>2
  <2>6. \A k \in 1 .. n : t.u[k] = IF k = i THEN c(b) ELSE st.u[k]
    <3>1. Distance(s, m, b) = c(b) /\ c(b) \in Nat
      BY <1>1, <1>2, <1>3, <1>10
    <3>2. \A k \in 1 .. n : t.u[k] = IF k \in {i} THEN st.u[k] + c(b) ELSE st.u[k]
      <4> DEFINE rows == {s.p[l] : l \in s.used \cup {s.j}}
      <4>1. rows = {i}
        BY <2>4
      <4>2. \A k \in 1 .. m.n :
               t.u[k] = IF k \in rows THEN s.u[k] + Distance(s, m, b) ELSE s.u[k]
        BY <1>14 DEF LooksTo
      <4> HIDE DEF rows
      <4> QED
        BY <1>1, <1>5, <3>1, <4>1, <4>2
    <3> QED
      BY <1>7, <3>1, <3>2
  <2> QED
    BY <2>1, <2>2, <2>3, <2>5, <2>6
<1>16. f = t
  <2> DEFINE len == 2 * (n + 1)
             T == {k \in 0 .. len : k # 0 => run[k] = t}
  <2>1. len \in Nat \ {0}
    BY <1>1
  <2>2. 0 \in T
    BY <2>1
  <2>3. Search(s, m) = t /\ Search(t, m) = t
    BY <1>5, <1>15 DEF Search, t
  <2>4. ASSUME NEW k \in 1 .. len, k - 1 \in T PROVE k \in T
    <3>1. run[k] = Search(run[k - 1], m) /\ (k = 1 \/ run[k - 1] = t)
      BY <1>12, <2>1, <2>4
    <3>2. k = 1 => run[k - 1] = s
      BY <1>12
    <3>3. run[k] = t
      BY <2>3, <3>1, <3>2
    <3> QED
      BY <2>1, <3>3
  <2> HIDE DEF len
  <2>5. len \in T
    <3> HIDE DEF T
    <3> QED
      BY <2>1, <2>2, <2>4, JoinLoop!Induct
  <2>6. run[len] = t
    BY <2>1, <2>5
  <2> QED
    BY <1>12, <2>6 DEF len
<1> QED
  BY <1>15, <1>16 DEF f, b, c

\* While rows are left, so is a column.
LEMMA HasRoomLeft ==
    ASSUME NEW n \in Nat, NEW i \in 1 .. n, NEW p \in [0 .. n -> 0 .. i - 1], Apart(p, 0 .. n)
    PROVE  \E j \in 1 .. n : p[j] = 0
<1> DEFINE S == 1 .. n
           R == 1 .. i - 1
           f == [j \in S |-> p[j]]
<1>1. SUFFICES ASSUME \A j \in S : p[j] # 0 PROVE FALSE
  OBVIOUS
<1>2. f \in [S -> R] /\ \A j \in S : f[j] = p[j]
  <2>1. \A j \in S : p[j] \in R
    BY <1>1
  <2> QED
    BY <2>1
<1>3. /\ IsFiniteSet(S) /\ IsFiniteSet(R) /\ Cardinality(S) = n /\ Cardinality(R) = i - 1
  <2>1. 1 \in Int /\ n \in Int /\ i - 1 \in Int /\ i >= 1 /\ n >= 1
    OBVIOUS
  <2>2. /\ IsFiniteSet(S) /\ Cardinality(S) = IF 1 > n THEN 0 ELSE n - 1 + 1
        /\ IsFiniteSet(R) /\ Cardinality(R) = IF 1 > i - 1 THEN 0 ELSE i - 1 - 1 + 1
    <3> HIDE DEF S, R
    <3>1. /\ IsFiniteSet(1 .. n) /\ Cardinality(1 .. n) = IF 1 > n THEN 0 ELSE n - 1 + 1
      BY <2>1, FS_Interval
    <3>2. /\ IsFiniteSet(1 .. i - 1)
          /\ Cardinality(1 .. i - 1) = IF 1 > i - 1 THEN 0 ELSE i - 1 - 1 + 1
      BY <2>1, FS_Interval
    <3> QED
      BY <3>1, <3>2 DEF S, R
  <2> HIDE DEF S, R
  <2> QED
    BY <2>1, <2>2
<1> HIDE DEF f
<1>4. \E x, y \in S : x # y /\ f[x] = f[y]
  <2>1. Cardinality(R) < Cardinality(S)
    BY <1>3
  <2> HIDE DEF S, R
  <2> QED
    BY <1>2, <1>3, <2>1, FS_PigeonHole
<1>5. PICK x \in S, y \in S : x # y /\ f[x] = f[y]
  BY <1>4
<1> QED
  BY <1>1, <1>2, <1>5 DEF Apart

\* The state of a padding row's search after r rounds: it walks through the columns in their
\* order and changes no potential.
IsWalking(s, r, st, i, n) ==
    /\ s.j \in 1 .. n /\ (s.done <=> s.p[s.j] = 0)
    /\ \A k \in 1 .. n : s.v[k] = 0 /\ s.way[k] = 0 /\ s.u[k] = st.u[k]
    /\ ~s.done => /\ s.j = r /\ s.used = 0 .. r - 1
                  /\ \A k \in 1 .. r : s.p[k] # 0
                  /\ \A k \in r .. n : s.minv[k] = 0

LEMMA WalkBegins ==
    ASSUME NEW m, NEW n, NEW a, NEW own, NEW best, IsStar(m, n, a, own, best),
           NEW i \in 1 .. n, i > a, NEW st, IsPlaced(st, n, i - 1),
           IsServed(st, i - 1, m, a, best)
    PROVE  IsWalking(Search(Begun(st, i, m), m), 1, st, i, n)
<1> DEFINE s == Begun(st, i, m)
           t == Look(s, m)
<1>1. /\ n \in Nat \ {0} /\ m.n = n /\ a \in Nat /\ i \in Nat /\ m.infinity \in Nat \ {0}
      /\ \A j \in 1 .. n : m.cost[<<i, j>>] = 0
  <2>1. /\ n \in Nat \ {0} /\ m.n = n /\ a \in 1 .. n /\ m.infinity \in Nat \ {0}
        /\ \A k \in 1 .. n : \A j \in 1 .. n : k > a => m.cost[<<k, j>>] = 0
    BY DEF IsStar
  <2> QED
    BY <2>1
<1>2. st.p \in [0 .. n -> 0 .. i - 1] /\ st.way \in [0 .. n -> 0 .. n]
  BY DEF IsPlaced
<1>3. /\ s.p = [st.p EXCEPT ![0] = i] /\ s.j = 0 /\ s.used = {} /\ s.u = st.u /\ s.v = st.v
      /\ s.minv = [j \in 0 .. n |-> m.infinity] /\ s.done = FALSE
  BY <1>1 DEF Begun
<1>4. s.p[0] = i /\ \A j \in 1 .. n : s.p[j] = st.p[j] /\ s.minv[j] = m.infinity
  BY <1>1, <1>2, <1>3
<1>5. \A j \in 1 .. n : st.v[j] = 0 /\ st.u[j] \in Nat
  <2>1. \A k \in 1 .. a : m.cost[<<k, best[k]>>] \in Nat
    BY DEF IsStar
  <2>2. \A j \in 1 .. n : /\ st.v[j] = 0
                         /\ st.u[j] = IF j <= a /\ j <= i - 1 THEN m.cost[<<j, best[j]>>] ELSE 0
    BY <1>1 DEF IsServed
  <2> SUFFICES ASSUME NEW j \in 1 .. n PROVE st.v[j] = 0 /\ st.u[j] \in Nat
    OBVIOUS
  <2>3. CASE j <= a
    <3>1. j \in 1 .. a
      BY <1>1, <2>3
    <3>2. m.cost[<<j, best[j]>>] \in Nat
      BY <2>1, <3>1
    <3> QED
      BY <2>2, <3>2
  <2>4. CASE ~(j <= a)
    <3>1. ~(j <= a /\ j <= i - 1)
      BY <2>4
    <3>2. st.v[j] = 0 /\ st.u[j] = 0
      BY <2>2, <3>1
    <3> QED
      BY <3>2
  <2> QED
    BY <2>3, <2>4
<1>6. st.u[i] = 0
  <2>1. i \in 1 .. m.n /\ ~(i <= i - 1)
    BY <1>1
  <2> QED
    BY <2>1 DEF IsServed
<1>7. IsPath(s, n, i)
  <2>1. m.n \in Nat /\ i \in Nat /\ IsPlaced(st, m.n, i - 1)
    BY <1>1
  <2>2. \E run : /\ run[0] = Begun(st, i, m)
                 /\ \A k \in 0 .. 2 * (m.n + 1) : IsPath(run[k], m.n, i)
    <3> HIDE DEF s
    <3> QED
      BY <2>1, SearchRuns
  <2>3. 0 \in 0 .. 2 * (m.n + 1)
    BY <1>1
  <2> HIDE DEF s
  <2>4. IsPath(Begun(st, i, m), m.n, i)
    BY <2>2, <2>3
  <2> QED
    BY <1>1, <2>4 DEF s
<1> HIDE DEF s
<1>8. OpenIn(s, m) = 1 .. n
  BY <1>1, <1>3 DEF OpenIn
<1>9. \A j \in 1 .. n : Reach(s, m, j) = 0
  <2> SUFFICES ASSUME NEW j \in 1 .. n PROVE Reach(s, m, j) = 0
    OBVIOUS
  <2>1. Reach(s, m, j) = 0 - 0 - 0
    BY <1>1, <1>3, <1>4, <1>5, <1>6 DEF Reach
  <2> QED
    BY <2>1
<1>10. \A j \in 1 .. n : Distance(s, m, j) = 0 /\ Reach(s, m, j) < s.minv[j]
  BY <1>1, <1>4, <1>9 DEF Distance
<1>11. LooksTo(t, 1, s, m)
  <2>1. 1 \in 1 .. n /\ \A k \in 1 .. n : 1 <= k
    BY <1>1
  <2>2. IsNearest(1, s, m)
    BY <1>1, <1>8, <1>10, <2>1 DEF IsNearest
  <2>3. \A k \in OpenIn(s, m) : Distance(s, m, k) \in Int
    BY <1>8, <1>10
  <2> QED
    BY <1>1, <1>7, <2>2, <2>3, LooksNearest
<1>12. Search(s, m) = t
  BY <1>3 DEF Search
<1> HIDE DEF t
<1>13. /\ t.j = 1 /\ t.p = s.p /\ (t.done <=> s.p[1] = 0) /\ t.used = {0}
       /\ \A k \in 1 .. n : t.v[k] = 0 /\ t.u[k] = st.u[k]
       /\ \A k \in 1 .. n : t.minv[k] = 0 /\ t.way[k] = 0
  <2>1. t.j = 1 /\ t.p = s.p /\ (t.done <=> s.p[1] = 0) /\ t.used = s.used \cup {s.j}
    BY <1>11 DEF LooksTo
  <2>2. s.used \cup {s.j} = {0} /\ Distance(s, m, 1) = 0
    BY <1>1, <1>3, <1>10
  <2>3. \A k \in 1 .. n :
           /\ t.v[k] = IF k \in {0} THEN s.v[k] - 0 ELSE s.v[k]
           /\ t.u[k] = IF k \in {s.p[l] : l \in s.used \cup {s.j}} THEN s.u[k] + 0 ELSE s.u[k]
    BY <1>1, <1>11, <2>2 DEF LooksTo
  <2>4. \A k \in 1 .. n :
           /\ t.minv[k] = 0 - 0
           /\ t.way[k] = 0
    BY <1>3, <1>8, <1>10, <1>11, <2>2 DEF LooksTo
  <2>5. \A k \in 1 .. n : t.v[k] = 0
    BY <1>3, <1>5, <2>3
  <2>6. \A k \in 1 .. n : t.u[k] = st.u[k]
    <3> DEFINE rows == {s.p[l] : l \in s.used \cup {s.j}}
    <3>1. \A k \in 1 .. n : t.u[k] = IF k \in rows THEN s.u[k] + 0 ELSE s.u[k]
      BY <2>3
    <3> HIDE DEF rows
    <3> QED
      BY <1>3, <1>5, <3>1
  <2> QED
    BY <2>1, <2>2, <2>4, <2>5, <2>6
<1>14. IsWalking(t, 1, st, i, n)
  <2>1. 0 .. 1 - 1 = {0} /\ \A k \in 1 .. 1 : k = 1
    OBVIOUS
  <2> QED
    BY <1>1, <1>13, <2>1 DEF IsWalking
<1> QED
  BY <1>12, <1>14 DEF s

\* A state of the search that begins at st.
IsSearching(s, st, i, n) == IsPath(s, n, i) /\ \A k \in 1 .. n : s.p[k] = st.p[k]

LEMMA WalkGoesOn ==
    ASSUME NEW m, NEW n, NEW a, NEW own, NEW best, IsStar(m, n, a, own, best),
           NEW i \in 1 .. n, i > a, NEW st, IsPlaced(st, n, i - 1),
           IsServed(st, i - 1, m, a, best),
           NEW s, IsSearching(s, st, i, n), NEW r \in Nat \ {0}, IsWalking(s, r, st, i, n)
    PROVE  IsWalking(Search(s, m), r + 1, st, i, n)
<1> DEFINE t == Look(s, m)
<1>1. /\ n \in Nat \ {0} /\ m.n = n /\ a \in Nat /\ a <= n /\ i \in Nat /\ i <= n
      /\ m.infinity \in Nat \ {0} /\ \A l \in 1 .. a : best[l] \in 1 .. n
  <2>1. /\ n \in Nat \ {0} /\ m.n = n /\ a \in 1 .. n /\ m.infinity \in Nat \ {0}
        /\ best \in [1 .. a -> 1 .. n]
    BY DEF IsStar
  <2>2. \A x \in Nat : \A y \in 1 .. x : y \in Nat /\ y <= x
    OBVIOUS
  <2>3. a \in Nat /\ a <= n /\ i \in Nat /\ i <= n
    BY <2>1, <2>2
  <2>4. \A l \in 1 .. a : best[l] \in 1 .. n
    BY <2>1
  <2> QED
    BY <2>1, <2>3, <2>4
<1> HIDE DEF t
<1>2. CASE s.done
  <2>1. Search(s, m) = s
    BY <1>2 DEF Search
  <2> QED
    BY <1>2, <2>1 DEF IsWalking
<1>3. CASE ~s.done
  <2>1. /\ s.j = r /\ s.used = 0 .. r - 1 /\ r \in 1 .. n
        /\ \A k \in 1 .. r : s.p[k] # 0
        /\ \A k \in r .. n : s.minv[k] = 0
        /\ \A k \in 1 .. n : s.v[k] = 0 /\ s.way[k] = 0 /\ s.u[k] = st.u[k]
    BY <1>3 DEF IsWalking
  <2>2. /\ st.p \in [0 .. n -> 0 .. i - 1]
        /\ \A k \in 1 .. n : s.p[k] = st.p[k]
    BY DEF IsPlaced, IsSearching
  <2>3. r < n
    <3>1. n \in Nat /\ Apart(st.p, 0 .. n)
      BY <1>1 DEF IsPlaced
    <3>2. PICK e \in 1 .. n : st.p[e] = 0
      BY <2>2, <3>1, HasRoomLeft
    <3>3. e \notin 1 .. r
      BY <2>1, <2>2, <3>2
    <3> QED
      BY <1>1, <2>1, <3>3
  <2> DEFINE row == s.p[r]
  <2>4. row \in 1 .. i - 1 /\ row \in 1 .. n
    <3>1. r \in 0 .. n
      BY <2>1
    <3>2. st.p[r] \in 0 .. i - 1
      BY <2>2, <3>1
    <3>4. row = st.p[r]
      BY <2>1, <2>2
    <3>5. row # 0
      <4>1. r \in 1 .. r
        OBVIOUS
      <4> QED
        BY <2>1, <4>1
    <3> HIDE DEF row
    <3>3. row \in Int /\ 1 <= row /\ row <= i - 1 /\ i <= n
      BY <1>1, <3>2, <3>4, <3>5
    <3> QED
      BY <1>1, <3>3
  <2> HIDE DEF row
  <2>5. \A k \in 1 .. n : k \in OpenIn(s, m) <=> r + 1 <= k
    <3>1. OpenIn(s, m) = (1 .. n) \ ((0 .. r - 1) \cup {r})
      BY <1>1, <2>1 DEF OpenIn
    <3>2. \A k \in 1 .. n : k \in (0 .. r - 1) \cup {r} <=> k <= r
      OBVIOUS
    <3> QED
      BY <3>1, <3>2
  <2>6. /\ \A k \in OpenIn(s, m) : k \in 1 .. n /\ r + 1 <= k
        /\ r + 1 \in 1 .. n /\ r + 1 \in OpenIn(s, m)
        /\ \A k \in r + 1 .. n : k \in 1 .. n /\ k \in OpenIn(s, m)
    <3>1. \A k \in OpenIn(s, m) : k \in 1 .. n
      BY <1>1 DEF OpenIn
    <3>2. /\ r + 1 \in 1 .. n /\ r + 1 \in r + 1 .. n
          /\ \A k \in r + 1 .. n : k \in 1 .. n /\ r + 1 <= k
      BY <1>1, <2>3
    <3> QED
      BY <2>5, <3>1, <3>2
  <2>7. ASSUME NEW k \in 1 .. n PROVE Reach(s, m, k) \in Nat
    <3>1. Reach(s, m, k) = m.cost[<<row, k>>] - st.u[row] - 0
      BY <2>1, <2>4 DEF Reach, row
    <3>2. CASE row <= a
      <4>1. row \in 1 .. a /\ row <= i - 1 /\ row \in 1 .. m.n /\ best[row] \in 1 .. n
        <5>1. row \in 1 .. a /\ row <= i - 1
          BY <1>1, <2>4, <3>2
        <5> QED
          BY <1>1, <2>4, <5>1
      <4> DEFINE c(l) == m.cost[<<row, l>>]
                 b == best[row]
      <4>2. st.u[row] = c(b)
        BY <4>1 DEF IsServed
      <4>3. \A l \in 1 .. n : c(l) \in Nat /\ (own[l] = row <=> c(l) < m.infinity)
        BY <4>1 DEF IsStar
      <4>4. own[b] = row /\ \A l \in 1 .. n : own[l] = row => c(b) <= c(l)
        <5>1. own[b] = row
          BY <4>1 DEF IsStar
        <5> SUFFICES ASSUME NEW l \in 1 .. n, own[l] = row PROVE c(b) <= c(l)
          BY <5>1
        <5>2. \/ m.cost[<<row, best[row]>>] < m.cost[<<row, l>>]
              \/ m.cost[<<row, best[row]>>] = m.cost[<<row, l>>] /\ best[row] <= l
          BY <4>1 DEF IsStar
        <5>3. c(b) < c(l) \/ c(b) = c(l)
          BY <5>2
        <5>4. c(b) \in Nat /\ c(l) \in Nat
          BY <4>1, <4>3
        <5> HIDE DEF c, b
        <5> QED
          BY <5>3, <5>4
      <4>5. b \in 1 .. n /\ Reach(s, m, k) = c(k) - c(b) - 0
        BY <3>1, <4>1, <4>2
      <4> HIDE DEF c, b
      <4>6. c(b) \in Nat /\ c(k) \in Nat /\ c(b) < m.infinity
        BY <4>3, <4>4, <4>5
      <4>7. c(b) <= c(k)
        BY <1>1, <4>3, <4>4, <4>6
      <4> QED
        BY <4>5, <4>6, <4>7
    <3>3. CASE ~(row <= a)
      <4>1. row > a /\ row \in 1 .. m.n /\ ~(row <= a /\ row <= i - 1)
        BY <1>1, <2>4, <3>3
      <4>2. m.cost[<<row, k>>] = 0
        BY <2>4, <4>1 DEF IsStar
      <4>3. st.u[row] = 0
        BY <4>1 DEF IsServed
      <4> QED
        BY <3>1, <4>2, <4>3
    <3> QED
      BY <3>2, <3>3
  <2>8. \A k \in OpenIn(s, m) : Distance(s, m, k) = 0 /\ ~(Reach(s, m, k) < s.minv[k])
    <3> SUFFICES ASSUME NEW k \in OpenIn(s, m)
                 PROVE  Distance(s, m, k) = 0 /\ ~(Reach(s, m, k) < s.minv[k])
      OBVIOUS
    <3>1. k \in 1 .. n /\ k \in r .. n
      BY <1>1, <2>1, <2>6
    <3>2. s.minv[k] = 0 /\ Reach(s, m, k) \in Nat
      BY <2>1, <2>7, <3>1
    <3> QED
      BY <3>2 DEF Distance
  <2>9. LooksTo(t, r + 1, s, m)
    <3>1. IsNearest(r + 1, s, m)
      BY <1>1, <2>6, <2>8 DEF IsNearest
    <3>2. \A k \in OpenIn(s, m) : Distance(s, m, k) \in Int
      BY <2>8
    <3> QED
      BY <1>1, <3>1, <3>2, LooksNearest DEF IsSearching, t
  <2>10. Search(s, m) = t
    BY <1>3 DEF Search, t
  <2>11. /\ t.j = r + 1 /\ t.p = s.p /\ (t.done <=> s.p[r + 1] = 0) /\ t.used = 0 .. r
    <3>1. t.used = s.used \cup {s.j}
      BY <2>9 DEF LooksTo
    <3>2. 0 .. r = (0 .. r - 1) \cup {r}
      BY <2>1
    <3>3. t.used = 0 .. r
      BY <2>1, <3>1, <3>2
    <3> QED
      BY <2>9, <3>3 DEF LooksTo
  <2>12. \A k \in 1 .. n : st.u[k] \in Nat
    <3> SUFFICES ASSUME NEW k \in 1 .. n PROVE st.u[k] \in Nat
      OBVIOUS
    <3>1. st.u[k] = IF k <= a /\ k <= i - 1 THEN m.cost[<<k, best[k]>>] ELSE 0
      BY <1>1 DEF IsServed
    <3>2. CASE k <= a
      <4>1. k \in 1 .. a /\ best[k] \in 1 .. n
        BY <1>1, <3>2
      <4>2. m.cost[<<k, best[k]>>] \in Nat
        BY <4>1 DEF IsStar
      <4> QED
        BY <3>1, <4>2
    <3>3. CASE ~(k <= a)
      <4>1. st.u[k] = 0
        BY <3>1, <3>3
      <4> QED
        BY <4>1
    <3> QED
      BY <3>2, <3>3
  <2>13. \A k \in 1 .. n : t.v[k] = 0 /\ t.u[k] = st.u[k]
    <3> DEFINE used == s.used \cup {s.j}
               rows == {s.p[l] : l \in used}
    <3>1. Distance(s, m, r + 1) = 0
      BY <2>6, <2>8
    <3>2. \A k \in 1 .. n : /\ t.v[k] = IF k \in used THEN s.v[k] - 0 ELSE s.v[k]
                           /\ t.u[k] = IF k \in rows THEN s.u[k] + 0 ELSE s.u[k]
      BY <1>1, <2>9, <3>1 DEF LooksTo
    <3> HIDE DEF used, rows
    <3> QED
      BY <2>1, <2>12, <3>2
  <2>14. \A k \in OpenIn(s, m) : t.minv[k] = 0 /\ t.way[k] = 0
    <3>1. Distance(s, m, r + 1) = 0
      BY <2>6, <2>8
    <3>2. \A k \in OpenIn(s, m) : t.minv[k] = 0 - 0 /\ t.way[k] = s.way[k]
      BY <2>8, <2>9, <3>1 DEF LooksTo
    <3> QED
      BY <2>1, <2>6, <3>2
  <2>15. \A k \in 1 .. n : k \notin OpenIn(s, m) => t.way[k] = 0
    BY <1>1, <2>1, <2>9 DEF LooksTo
  <2>16. IsWalking(t, r + 1, st, i, n)
    <3>1. r + 1 \in 1 .. n /\ r + 1 - 1 = r
      BY <1>1, <2>1, <2>3
    <3>2. ~t.done => \A k \in 1 .. r + 1 : t.p[k] # 0
      <4>1. \A k \in 1 .. r + 1 : k = r + 1 \/ k \in 1 .. r
        BY <2>1
      <4> QED
        BY <2>1, <2>11, <4>1
    <3>3. \A k \in r + 1 .. n : t.minv[k] = 0
      BY <2>6, <2>14
    <3> QED
      BY <2>11, <2>13, <2>14, <2>15, <3>1, <3>2, <3>3 DEF IsWalking
  <2> QED
    BY <2>10, <2>16
<1> QED
  BY <1>2, <1>3

\* A padding row takes a free column.
LEMMA FreeColumn ==
    ASSUME NEW m, NEW n, NEW a, NEW own, NEW best, IsStar(m, n, a, own, best),
           NEW i \in 1 .. n, i > a, NEW st, IsPlaced(st, n, i - 1),
           IsServed(st, i - 1, m, a, best)
    PROVE  LET f == Found(st, i, m)
           IN  /\ f.j \in 1 .. n /\ f.way[f.j] = 0 /\ st.p[f.j] = 0
               /\ \A k \in 1 .. n : f.v[k] = 0 /\ f.u[k] = st.u[k]
<1> DEFINE f == Found(st, i, m)
           s == Begun(st, i, m)
           len == 2 * (n + 1)
<1>1. n \in Nat \ {0} /\ m.n = n /\ i \in Nat /\ len \in Nat /\ len > n
  <2>1. n \in Nat \ {0} /\ m.n = n
    BY DEF IsStar
  <2> QED
    BY <2>1
<1>2. st.p \in [0 .. n -> 0 .. i - 1] /\ Apart(st.p, 0 .. n)
  BY DEF IsPlaced
<1>4. PICK run : /\ run[0] = s /\ run[len] = f
                 /\ \A k \in 1 .. len : run[k] = Search(run[k - 1], m)
                 /\ \A k \in 0 .. len : IsPath(run[k], n, i) /\ run[k].p = s.p
  <2>1. m.n \in Nat /\ i \in Nat /\ IsPlaced(st, m.n, i - 1)
    BY <1>1
  <2>2. \E run : /\ run[0] = Begun(st, i, m) /\ run[2 * (m.n + 1)] = Found(st, i, m)
                 /\ \A k \in 1 .. 2 * (m.n + 1) : run[k] = Search(run[k - 1], m)
                 /\ \A k \in 0 .. 2 * (m.n + 1) :
                       IsPath(run[k], m.n, i) /\ run[k].p = Begun(st, i, m).p
    <3> HIDE DEF f, s, len
    <3> QED
      BY <2>1, SearchRuns
  <2> HIDE DEF f, s
  <2>3. m.n = n
    BY <1>1
  <2> QED
    BY <2>2, <2>3 DEF s, f
<1>5. IsWalking(Search(s, m), 1, st, i, n)
  BY WalkBegins
<1>6. \A c \in 1 .. n : s.p[c] = st.p[c]
  <2>1. s.p = [st.p EXCEPT ![0] = i] /\ \A c \in 1 .. n : c \in 0 .. n /\ c # 0
    BY <1>1 DEF Begun
  <2> HIDE DEF s
  <2> QED
    BY <1>2, <2>1
<1> HIDE DEF s, f, len
<1> DEFINE T == {k \in 0 .. len : k # 0 => IsWalking(run[k], k, st, i, n)}
<1>7. 0 \in T
  BY <1>1
<1>8. ASSUME NEW k \in 1 .. len, k - 1 \in T PROVE k \in T
  <2>1. CASE k = 1
    <3>1. run[k] = Search(s, m)
      BY <1>4, <2>1
    <3>2. IsWalking(run[k], k, st, i, n)
      BY <1>5, <2>1, <3>1
    <3> QED
      BY <1>1, <3>2
  <2>2. CASE k # 1
    <3> DEFINE o == run[k - 1]
               r == k - 1
    <3>1. r \in Nat \ {0} /\ r + 1 = k /\ k - 1 \in 0 .. len
      BY <1>1, <2>2
    <3>2. IsWalking(o, r, st, i, n) /\ IsSearching(o, st, i, n)
      BY <1>4, <1>6, <1>8, <3>1 DEF IsSearching
    <3>3. run[k] = Search(o, m)
      BY <1>4
    <3> HIDE DEF o, r
    <3>4. IsWalking(Search(o, m), r + 1, st, i, n)
      BY <3>1, <3>2, WalkGoesOn
    <3>5. IsWalking(run[k], k, st, i, n)
      BY <3>1, <3>3, <3>4
    <3> QED
      BY <1>1, <3>5
  <2> QED
    BY <2>1, <2>2
<1>9. len \in T
  <2> HIDE DEF T
  <2> QED
    BY <1>1, <1>7, <1>8, JoinLoop!Induct
<1>10. IsWalking(f, len, st, i, n) /\ f.p = s.p
  <2>1. len # 0 /\ len \in 0 .. len
    BY <1>1
  <2> QED
    BY <1>4, <1>9, <2>1
<1>11. f.done
  BY <1>1, <1>10 DEF IsWalking
<1>12. f.j \in 1 .. n /\ st.p[f.j] = 0
  <2>1. f.j \in 1 .. n /\ f.p[f.j] = 0
    BY <1>10, <1>11 DEF IsWalking
  <2>2. f.p[f.j] = st.p[f.j]
    BY <1>6, <1>10, <2>1
  <2> QED
    BY <2>1, <2>2
<1> QED
  BY <1>10, <1>12 DEF IsWalking, f

\* What IsStar says of its numbers.
LEMMA StarNumbers ==
    ASSUME NEW m, NEW n, NEW a, NEW own, NEW best, IsStar(m, n, a, own, best)
    PROVE  /\ n \in Nat \ {0} /\ m.n = n /\ a \in Nat /\ 1 <= a /\ a <= n
           /\ \A k \in 1 .. a : best[k] \in 1 .. n /\ own[best[k]] = k
<1>1. n \in Nat \ {0} /\ m.n = n /\ a \in 1 .. n /\ best \in [1 .. a -> 1 .. n]
  BY DEF IsStar
<1>2. \A k \in 1 .. a : own[best[k]] = k
  BY DEF IsStar
<1>3. a \in Nat /\ 1 <= a /\ a <= n
  BY <1>1
<1>4. \A k \in 1 .. a : best[k] \in 1 .. n
  BY <1>1
<1> QED
  BY <1>1, <1>2, <1>3, <1>4

\* A row that is placed leaves the earlier ones with their columns.
LEMMA RowServed ==
    ASSUME NEW m, NEW n, NEW a, NEW own, NEW best, IsStar(m, n, a, own, best),
           NEW i \in 1 .. n, NEW st, IsPlaced(st, n, i - 1), IsServed(st, i - 1, m, a, best)
    PROVE  IsServed(PlaceRow(st, i, m), i, m, a, best)
<1> DEFINE f == Found(st, i, m)
           t == PlaceRow(st, i, m)
           c(k) == m.cost[<<k, best[k]>>]
<1>1. /\ n \in Nat \ {0} /\ m.n = n /\ a \in Nat /\ 1 <= a /\ a <= n
      /\ \A k \in 1 .. a : best[k] \in 1 .. n /\ own[best[k]] = k
  BY StarNumbers
<1>2. i \in Nat /\ 1 <= i /\ i <= n
  BY <1>1
<1>3. /\ \A k \in 1 .. n : st.u[k] = IF k <= a /\ k <= i - 1 THEN c(k) ELSE 0
      /\ \A k \in 1 .. a : k <= i - 1 => st.p[best[k]] = k
      /\ \A j \in 1 .. n : st.p[j] \in 1 .. a => j = best[st.p[j]]
  BY <1>1 DEF IsServed
<1> HIDE DEF f, t, c
<1>4. ASSUME f.j \in 1 .. n, f.way[f.j] = 0
      PROVE  t.u = f.u /\ t.v = f.v /\ \A j \in 1 .. n : t.p[j] = IF j = f.j THEN i ELSE st.p[j]
  <2>1. m.n \in Nat \ {0} /\ i \in Nat /\ IsPlaced(st, m.n, i - 1)
    BY <1>1, <1>2
  <2>2. f.j \in 1 .. m.n /\ f.way[f.j] = 0
    BY <1>1, <1>4
  <2>3. /\ t.u = f.u /\ t.v = f.v
        /\ \A j \in 1 .. m.n : t.p[j] = IF j = f.j THEN i ELSE st.p[j]
    BY <2>1, <2>2, PlacedAt DEF f, t
  <2> QED
    BY <1>1, <2>3
<1>5. ASSUME \A j \in 1 .. n : t.v[j] = 0,
             \A k \in 1 .. n : t.u[k] = IF k <= a /\ k <= i THEN c(k) ELSE 0,
             \A k \in 1 .. a : k <= i => t.p[best[k]] = k,
             \A j \in 1 .. n : t.p[j] \in 1 .. a => j = best[t.p[j]]
      PROVE  IsServed(t, i, m, a, best)
  BY <1>1, <1>5 DEF IsServed, c
<1>6. CASE i <= a
  <2>1. i \in 1 .. a
    BY <1>1, <1>2, <1>6
  <2>2. /\ f.j = best[i] /\ f.way[best[i]] = 0
        /\ \A j \in 1 .. n : f.v[j] = 0
        /\ \A k \in 1 .. n : f.u[k] = IF k = i THEN c(i) ELSE st.u[k]
    BY <2>1, OwnColumn DEF f, c
  <2>3. /\ t.u = f.u /\ t.v = f.v
        /\ \A j \in 1 .. n : t.p[j] = IF j = best[i] THEN i ELSE st.p[j]
    BY <1>1, <1>4, <2>1, <2>2
  <2>4. \A k \in 1 .. n : t.u[k] = IF k <= a /\ k <= i THEN c(k) ELSE 0
    <3> SUFFICES ASSUME NEW k \in 1 .. n
                 PROVE  t.u[k] = IF k <= a /\ k <= i THEN c(k) ELSE 0
      OBVIOUS
    <3>1. CASE k = i
      BY <1>6, <2>2, <2>3, <3>1
    <3>2. CASE k # i
      <4>1. k <= i <=> k <= i - 1
        BY <1>2, <3>2
      <4>2. t.u[k] = st.u[k]
        BY <2>2, <2>3, <3>2
      <4>3. st.u[k] = IF k <= a /\ k <= i - 1 THEN c(k) ELSE 0
        BY <1>3
      <4> QED
        BY <4>1, <4>2, <4>3
    <3> QED
      BY <3>1, <3>2
  <2>5. \A k \in 1 .. a : k <= i => t.p[best[k]] = k
    <3> SUFFICES ASSUME NEW k \in 1 .. a, k <= i PROVE t.p[best[k]] = k
      OBVIOUS
    <3>1. CASE k = i
      BY <1>1, <2>3, <3>1
    <3>2. CASE k # i
      <4>1. best[k] # best[i] /\ best[k] \in 1 .. n
        BY <1>1, <2>1, <3>2
      <4>2. k <= i - 1
        BY <1>1, <1>2, <3>2
      <4> QED
        BY <1>3, <2>3, <4>1, <4>2
    <3> QED
      BY <3>1, <3>2
  <2>6. \A j \in 1 .. n : t.p[j] \in 1 .. a => j = best[t.p[j]]
    BY <1>3, <2>3
  <2> QED
    BY <1>5, <2>2, <2>3, <2>4, <2>5, <2>6 DEF t
<1>7. CASE ~(i <= a)
  <2>1. i > a
    BY <1>1, <1>2, <1>7
  <2>2. /\ f.j \in 1 .. n /\ f.way[f.j] = 0 /\ st.p[f.j] = 0
        /\ \A k \in 1 .. n : f.v[k] = 0 /\ f.u[k] = st.u[k]
    BY <2>1, FreeColumn DEF f
  <2>3. t.u = f.u /\ t.v = f.v /\ \A j \in 1 .. n : t.p[j] = IF j = f.j THEN i ELSE st.p[j]
    BY <1>4, <2>2
  <2>4. \A k \in 1 .. n : t.u[k] = IF k <= a /\ k <= i THEN c(k) ELSE 0
    <3> SUFFICES ASSUME NEW k \in 1 .. n
                 PROVE  t.u[k] = IF k <= a /\ k <= i THEN c(k) ELSE 0
      OBVIOUS
    <3>1. (k <= a /\ k <= i) <=> (k <= a /\ k <= i - 1)
      BY <1>1, <1>2, <2>1
    <3>2. st.u[k] = IF k <= a /\ k <= i - 1 THEN c(k) ELSE 0
      BY <1>3
    <3>3. t.u[k] = st.u[k]
      BY <2>2, <2>3
    <3> QED
      BY <3>1, <3>2, <3>3
  <2>5. \A k \in 1 .. a : k <= i => t.p[best[k]] = k
    <3> SUFFICES ASSUME NEW k \in 1 .. a, k <= i PROVE t.p[best[k]] = k
      OBVIOUS
    <3>1. k <= i - 1 /\ k # 0
      BY <1>1, <1>2, <2>1
    <3>2. st.p[best[k]] = k /\ best[k] \in 1 .. n
      BY <1>1, <1>3, <3>1
    <3>3. best[k] # f.j
      BY <2>2, <3>1, <3>2
    <3> QED
      BY <2>3, <3>2, <3>3
  <2>6. \A j \in 1 .. n : t.p[j] \in 1 .. a => j = best[t.p[j]]
    <3>1. i \notin 1 .. a
      BY <1>7
    <3> QED
      BY <1>3, <2>3, <3>1
  <2> QED
    BY <1>5, <2>2, <2>3, <2>4, <2>5, <2>6 DEF t
<1> QED
  BY <1>6, <1>7 DEF t

\* In the end every row with a column of its own has the cheapest one.
LEMMA RowsServed ==
    ASSUME NEW m, NEW n, NEW a, NEW own, NEW best, IsStar(m, n, a, own, best)
    PROVE  \A k \in 1 .. a : PlacedRows(n, m).p[best[k]] = k
<1> DEFINE zero == [k \in 0 .. n |-> 0]
           base == [u |-> zero, v |-> zero, p |-> zero, way |-> zero]
           L    == [i \in 1 .. n |-> i]
           end  == FoldLeft(LAMBDA st, i : PlaceRow(st, i, m), base, L)
<1>1. end = RowLoop!Fold(m, base, L)
  BY DEF FoldLeft, MapThenFoldSet, RowLoop!Fold, Max, RowLoop!Top
<1>2. n \in Nat /\ m.n = n /\ a \in Nat /\ a <= n
  BY StarNumbers
<1>3. Len(L) = n /\ (\A k \in 1 .. n : L[k] = k) /\ RowLoop!IsList(L)
  <2>1. L \in Seq(Int) /\ DOMAIN L = 1 .. n /\ \A k \in 1 .. n : L[k] = k
    BY <1>2
  <2> HIDE DEF L
  <2>2. Len(L) = n
    BY <1>2, <2>1
  <2> QED
    BY <1>2, <2>1, <2>2 DEF RowLoop!IsList
<1>4. IsPlaced(base, n, 0)
  BY <1>2 DEF IsPlaced, Apart
<1>5. IsServed(base, 0, m, a, best)
  <2>1. \A k \in 1 .. m.n : base.v[k] = 0 /\ base.u[k] = 0 /\ base.p[k] = 0
    BY <1>2
  <2> HIDE DEF base
  <2>2. (\A k \in 1 .. m.n : ~(k <= 0)) /\ (\A k \in 1 .. a : ~(k <= 0)) /\ 0 \notin 1 .. a
    BY <1>2
  <2> QED
    BY <2>1, <2>2 DEF IsServed
<1> HIDE DEF base, L, end
<1>6. PICK run : RowLoop!IsRun(run, m, base, L) /\ run[Len(L)] = end
  BY <1>1, <1>3, RowLoop!FoldRuns
<1> DEFINE T == {k \in 0 .. n : IsPlaced(run[k], n, k) /\ IsServed(run[k], k, m, a, best)}
<1>7. 0 \in T
  <2>1. run[0] = base
    BY <1>6 DEF RowLoop!IsRun
  <2> QED
    BY <1>2, <1>4, <1>5, <2>1
<1>8. ASSUME NEW k \in 1 .. n, k - 1 \in T PROVE k \in T
  <2>1. run[k] = PlaceRow(run[k - 1], k, m)
    BY <1>3, <1>6 DEF RowLoop!IsRun
  <2>2. IsPlaced(run[k - 1], n, k - 1) /\ IsServed(run[k - 1], k - 1, m, a, best)
    BY <1>8
  <2>3. IsServed(PlaceRow(run[k - 1], k, m), k, m, a, best)
    BY <2>2, RowServed
  <2>4. IsPlaced(PlaceRow(run[k - 1], k, m), n, k)
    <3>1. m.n \in Nat /\ k \in 1 .. m.n /\ IsPlaced(run[k - 1], m.n, k - 1)
      BY <1>2, <2>2
    <3>2. IsPlaced(PlaceRow(run[k - 1], k, m), m.n, k)
      BY <3>1, RowPlaced
    <3> QED
      BY <1>2, <3>2
  <2> QED
    BY <1>2, <2>1, <2>3, <2>4
<1>9. n \in T
  <2> HIDE DEF T
  <2> QED
    BY <1>2, <1>7, <1>8, RowLoop!Induct
<1>10. IsServed(end, n, m, a, best)
  BY <1>2, <1>3, <1>6, <1>9
<1>11. end = PlacedRows(n, m)
  BY DEF PlacedRows, end, base, L
<1> QED
  BY <1>2, <1>10, <1>11 DEF IsServed

-----------------------------------------------------------------------------
(* The cost matrix of edges of which every provider's speaker has one.      *)

Cell(top, w, n, i, j) == Cost(top, w, n) + (i - 1) * n + j - 1

\* The tie-break never outweighs a difference of the overlap, and what has no overlap costs
\* infinity.
LEMMA CellCosts ==
    ASSUME NEW n \in Nat \ {0}, NEW top \in Nat \ {0}, NEW i \in 1 .. n, NEW j \in 1 .. n
    PROVE  /\ \A w \in 0 .. top : Cell(top, w, n, i, j) \in Nat
           /\ \A w \in 0 .. top : \A low \in 0 .. top :
                 (low <= w /\ Cost(top, low, n) + n * n <= Infinity(top, n))
                 => Cell(top, w, n, i, j) < Infinity(top, n)
           /\ n >= 2 => Cell(top, 0, n, i, j) >= Infinity(top, n)
           /\ \A w, x \in 0 .. top : \A k \in 1 .. n :
                 Cell(top, w, n, i, j) <= Cell(top, x, n, i, k) => x <= w
           /\ Infinity(top, n) \in Nat \ {0}
<1> DEFINE N == n * n + 1
           at == (i - 1) * n
<1>1. /\ n \in Int /\ n >= 1 /\ top \in Int /\ top >= 1 /\ i \in Int /\ 1 <= i /\ i <= n
      /\ j \in Int /\ 1 <= j /\ j <= n
  OBVIOUS
<1>2. n * n \in Int /\ n * n >= n
  BY <1>1
<1>3. at \in Nat /\ at + n <= n * n
  <2>1. \A x \in Nat : x * n \in Nat
    BY <1>1
  <2>2. i - 1 \in Nat /\ n - i \in Nat
    BY <1>1
  <2>3. (i - 1) * n \in Nat /\ (n - i) * n \in Nat
    BY <2>1, <2>2
  <2>4. n * n = (i - 1) * n + n + (n - i) * n
    BY <1>1
  <2> QED
    BY <1>2, <2>3, <2>4
<1>4. \A w : Cost(top, w, n) = (top - w) * Scale * N
  BY DEF Cost
<1>5. N \in Nat /\ N >= 1 /\ n * n = N - 1
  BY <1>2
<1>6. \A w : \A k : Cell(top, w, n, i, k) = Cost(top, w, n) + at + k - 1
  BY DEF Cell
<1> HIDE DEF at, N
<1>7. \A d \in Nat : d * Scale * N \in Nat
  <2>1. \A d \in Nat : d * 10000 \in Nat
    OBVIOUS
  <2>2. \A x \in Nat : x * N \in Nat
    BY <1>5
  <2> QED
    BY <2>1, <2>2 DEF Scale
<1>8. \A d, e \in Nat : d < e => d * Scale * N + Scale * N <= e * Scale * N
  <2> SUFFICES ASSUME NEW d \in Nat, NEW e \in Nat, d < e
               PROVE  d * Scale * N + Scale * N <= e * Scale * N
    OBVIOUS
  <2>1. e - d - 1 \in Nat
    OBVIOUS
  <2>2. (e - d - 1) * Scale * N \in Nat
    BY <1>7, <2>1
  <2>3. e * Scale * N = d * Scale * N + Scale * N + (e - d - 1) * Scale * N
    BY <1>5 DEF Scale
  <2>4. d * Scale * N \in Nat /\ Scale * N \in Nat /\ e * Scale * N \in Nat
    <3>1. 1 * Scale * N = Scale * N
      BY <1>5 DEF Scale
    <3>2. 1 \in Nat
      OBVIOUS
    <3> QED
      BY <1>7, <3>1, <3>2
  <2> QED
    BY <2>2, <2>3, <2>4
<1>9. \A w \in 0 .. top : top - w \in Nat /\ Cost(top, w, n) \in Nat
  <2>1. \A w \in 0 .. top : top - w \in Nat
    BY <1>1
  <2> QED
    BY <1>4, <1>7, <2>1
<1>10. \A w \in 0 .. top : \A low \in 0 .. top : low <= w => Cost(top, w, n) <= Cost(top, low, n)
  <2> SUFFICES ASSUME NEW w \in 0 .. top, NEW low \in 0 .. top, low <= w
               PROVE  Cost(top, w, n) <= Cost(top, low, n)
    OBVIOUS
  <2>1. CASE w = low
    BY <1>9, <2>1
  <2>2. CASE w # low
    <3>1. top - w \in Nat /\ top - low \in Nat /\ top - w < top - low
      BY <1>1, <2>2
    <3>2. (top - w) * Scale * N + Scale * N <= (top - low) * Scale * N
      BY <1>8, <3>1
    <3>3. Scale * N \in Nat
      BY <1>5 DEF Scale
    <3>4. Cost(top, w, n) \in Nat /\ Cost(top, low, n) \in Nat
      BY <1>9
    <3> QED
      BY <1>4, <3>2, <3>3, <3>4
  <2> QED
    BY <2>1, <2>2
<1>11. Infinity(top, n) \in Nat \ {0}
  <2>1. top * 10000 + 1 \in Nat /\ top * 10000 + 1 >= 1 /\ n + 1 \in Nat /\ n + 1 >= 1
    BY <1>1
  <2>2. \A x, y \in Nat : x >= 1 /\ y >= 1 => x * y \in Nat /\ x * y >= 1
    OBVIOUS
  <2>3. (top * 10000 + 1) * (n + 1) \in Nat /\ (top * 10000 + 1) * (n + 1) >= 1
    BY <2>1, <2>2
  <2> QED
    BY <2>3 DEF Infinity, Scale
<1>12. ASSUME NEW w \in 0 .. top PROVE Cell(top, w, n, i, j) \in Nat
  BY <1>1, <1>3, <1>6, <1>9
<1>13. ASSUME NEW w \in 0 .. top, NEW low \in 0 .. top, low <= w,
              Cost(top, low, n) + n * n <= Infinity(top, n)
       PROVE  Cell(top, w, n, i, j) < Infinity(top, n)
  <2>1. Cost(top, w, n) <= Cost(top, low, n) /\ Cost(top, w, n) \in Nat /\ Cost(top, low, n) \in Nat
    BY <1>9, <1>10, <1>13
  <2>2. at + j - 1 < n * n /\ Cell(top, w, n, i, j) = Cost(top, w, n) + at + j - 1
    BY <1>1, <1>2, <1>3, <1>6
  <2> QED
    BY <1>1, <1>2, <1>3, <1>11, <1>13, <2>1, <2>2
<1>14. ASSUME n >= 2 PROVE Cell(top, 0, n, i, j) >= Infinity(top, n)
  <2>1. Cost(top, 0, n) >= Infinity(top, n)
    <3> DEFINE S == top * 10000
    <3>1. S \in Nat /\ S >= 10000
      BY <1>1
    <3> HIDE DEF S
    <3>2. S * (n * n + 1) >= (S + 1) * (n + 1)
      <4>1. n * n \in Nat /\ n * n >= 2 * n
        BY <1>1, <1>14
      <4> DEFINE d == n * n - n
      <4>2. d \in Nat /\ d >= n
        BY <1>1, <1>2, <4>1
      <4>3. S * d >= n + 1
        <5>1. S * d >= 10000 * d
          BY <3>1, <4>2
        <5> HIDE DEF d
        <5> QED
          BY <1>1, <3>1, <4>2, <5>1
      <4>4. S * (n * n + 1) = S * d + S * n + S
        BY <1>1, <3>1
      <4>5. (S + 1) * (n + 1) = S * n + S + n + 1
        BY <1>1, <3>1
      <4> HIDE DEF d
      <4>6. S * d \in Nat /\ S * n \in Nat
        BY <1>1, <3>1, <4>2
      <4> QED
        BY <1>1, <3>1, <4>3, <4>4, <4>5, <4>6
    <3>3. Cost(top, 0, n) = S * (n * n + 1) /\ Infinity(top, n) = (S + 1) * (n + 1)
      BY <1>1 DEF Cost, Infinity, Scale, S
    <3> QED
      BY <3>2, <3>3
  <2>2. Cost(top, 0, n) \in Nat
    <3>1. 0 \in 0 .. top
      BY <1>1
    <3> QED
      BY <1>9, <3>1
  <2>3. Cell(top, 0, n, i, j) = Cost(top, 0, n) + at + j - 1
    BY <1>6
  <2> QED
    BY <1>1, <1>3, <1>11, <2>1, <2>2, <2>3
<1>15. ASSUME NEW w \in 0 .. top, NEW x \in 0 .. top, NEW k \in 1 .. n,
              Cell(top, w, n, i, j) <= Cell(top, x, n, i, k)
       PROVE  x <= w
  <2> SUFFICES ASSUME ~(x <= w) PROVE FALSE
    OBVIOUS
  <2>1. top - x \in Nat /\ top - w \in Nat /\ top - x < top - w
    BY <1>1
  <2>2. Cost(top, x, n) + Scale * N <= Cost(top, w, n)
    BY <1>4, <1>8, <2>1
  <2>3. Cost(top, x, n) \in Nat /\ Cost(top, w, n) \in Nat
    BY <1>9
  <2>4. Cost(top, w, n) + at + j - 1 <= Cost(top, x, n) + at + k - 1
    BY <1>6, <1>15
  <2>5. Scale * N \in Nat /\ Scale * N >= n
    BY <1>1, <1>2, <1>5 DEF Scale
  <2> QED
    BY <1>1, <1>3, <2>2, <2>3, <2>4, <2>5
<1> QED
  BY <1>11, <1>12, <1>13, <1>14, <1>15

\* The matrix of MatchRows.
Matrix(cs, ps, n, top, scores) ==
    LET Weight(i, j) == IF <<cs[i], ps[j]>> \in DOMAIN scores THEN scores[<<cs[i], ps[j]>>] ELSE 0
    IN  [cost |-> Table([ij \in (1 .. n) \X (1 .. n) |->
                    IF ij[1] \in DOMAIN cs /\ ij[2] \in DOMAIN ps
                    THEN Cost(top, Weight(ij[1], ij[2]), n) + (ij[1] - 1) * n + ij[2] - 1
                    ELSE 0]),
         n |-> n, infinity |-> Infinity(top, n)]

LEMMA MatchRowsIs ==
    ASSUME NEW cs, NEW ps, NEW n, NEW top, NEW scores
    PROVE  MatchRows(cs, ps, n, top, scores)
             = ScoredPairs(PlacedRows(n, Matrix(cs, ps, n, top, scores)).p, cs, ps, scores)
BY DEF MatchRows, Matrix, PlacedRows

WeightAt(cs, ps, scores, i, j) ==
    IF <<cs[i], ps[j]>> \in DOMAIN scores THEN scores[<<cs[i], ps[j]>>] ELSE 0

LEMMA MatrixIs ==
    ASSUME NEW n \in Nat, NEW a \in 0 .. n, NEW cs, IsDistinct(cs, a), NEW ps, IsDistinct(ps, n),
           NEW top, NEW scores
    PROVE  LET m == Matrix(cs, ps, n, top, scores)
           IN  /\ m.n = n /\ m.infinity = Infinity(top, n)
               /\ \A i \in 1 .. a : \A j \in 1 .. n :
                     m.cost[<<i, j>>] = Cell(top, WeightAt(cs, ps, scores, i, j), n, i, j)
               /\ \A i \in 1 .. n : \A j \in 1 .. n : i > a => m.cost[<<i, j>>] = 0
<1> DEFINE m == Matrix(cs, ps, n, top, scores)
           w(i, j) == WeightAt(cs, ps, scores, i, j)
           cell(ij) == IF ij[1] \in DOMAIN cs /\ ij[2] \in DOMAIN ps
                       THEN Cell(top, w(ij[1], ij[2]), n, ij[1], ij[2]) ELSE 0
           f == [ij \in (1 .. n) \X (1 .. n) |-> cell(ij)]
<1>1. m = [cost |-> Table(f), n |-> n, infinity |-> Infinity(top, n)]
  BY DEF Matrix, WeightAt, Cell
<1>2. DOMAIN cs = 1 .. a /\ DOMAIN ps = 1 .. n
  BY DEF IsDistinct
<1> HIDE DEF m, w
<1>3. DOMAIN f = (1 .. n) \X (1 .. n) /\ \A ij \in (1 .. n) \X (1 .. n) : f[ij] = cell(ij)
  OBVIOUS
<1> HIDE DEF f, cell
<1>4. \A i \in 1 .. n : \A j \in 1 .. n : Table(f)[<<i, j>>] = cell(<<i, j>>)
  BY <1>3, TableOf
<1>5. \A i \in 1 .. n : \A j \in 1 .. n :
         cell(<<i, j>>) = IF i \in 1 .. a THEN Cell(top, w(i, j), n, i, j) ELSE 0
  <2> SUFFICES ASSUME NEW i \in 1 .. n, NEW j \in 1 .. n
               PROVE  cell(<<i, j>>) = IF i \in 1 .. a THEN Cell(top, w(i, j), n, i, j) ELSE 0
    OBVIOUS
  <2> DEFINE ij == <<i, j>>
  <2>1. ij[1] = i /\ ij[2] = j
    OBVIOUS
  <2> HIDE DEF ij
  <2>2. cell(ij) = IF i \in 1 .. a THEN Cell(top, w(i, j), n, i, j) ELSE 0
    BY <1>2, <2>1 DEF cell
  <2> QED
    BY <2>2 DEF ij
<1>6. m.cost = Table(f) /\ m.n = n /\ m.infinity = Infinity(top, n)
  BY <1>1
<1>7. ASSUME NEW i \in 1 .. a, NEW j \in 1 .. n
      PROVE  m.cost[<<i, j>>] = Cell(top, w(i, j), n, i, j)
  <2>1. i \in 1 .. n
    OBVIOUS
  <2> QED
    BY <1>4, <1>5, <1>6, <2>1
<1>8. ASSUME NEW i \in 1 .. n, NEW j \in 1 .. n, i > a PROVE m.cost[<<i, j>>] = 0
  <2>1. i \notin 1 .. a
    BY <1>8
  <2> QED
    BY <1>4, <1>5, <1>6, <2>1
<1> QED
  BY <1>6, <1>7, <1>8 DEF m, w

\* Every column has an edge to one row, every row to some column, and no edge is much weaker
\* than the strongest.
IsOwned(a, n, cs, ps, scores, low, top) ==
    /\ n \in Nat \ {0} /\ a \in 1 .. n /\ IsDistinct(cs, a) /\ IsDistinct(ps, n)
    /\ top \in Nat \ {0} /\ low \in 0 .. top /\ Cost(top, low, n) + n * n <= Infinity(top, n)
    /\ \A j \in 1 .. n : \E i \in 1 .. a : <<cs[i], ps[j]>> \in DOMAIN scores
    /\ \A i \in 1 .. a : \E j \in 1 .. n : <<cs[i], ps[j]>> \in DOMAIN scores
    /\ \A j \in 1 .. n : \A i, k \in 1 .. a :
          <<cs[i], ps[j]>> \in DOMAIN scores /\ <<cs[k], ps[j]>> \in DOMAIN scores => i = k
    /\ \A i \in 1 .. a : \A j \in 1 .. n :
          <<cs[i], ps[j]>> \in DOMAIN scores
          => scores[<<cs[i], ps[j]>>] \in 0 .. top /\ low <= scores[<<cs[i], ps[j]>>]

\* Of the numbers in J, one has the least cost, and is the first of those.
LEMMA FirstCheapest ==
    ASSUME NEW J \in SUBSET Nat, J # {}, NEW c, \A j \in J : c[j] \in Nat
    PROVE  \E j \in J : \A k \in J : c[j] < c[k] \/ (c[j] = c[k] /\ j <= k)
<1> DEFINE T == {c[j] : j \in J}
<1>1. PICK v \in T : \A x \in T : v <= x
  <2>1. T \in SUBSET Nat
    OBVIOUS
  <2>2. T # {}
    <3>1. PICK j \in J : TRUE
      OBVIOUS
    <3>2. c[j] \in T
      OBVIOUS
    <3> QED
      BY <3>2
  <2> HIDE DEF T
  <2> QED
    BY <2>1, <2>2, JoinLoop!LeastNat
<1> DEFINE K == {j \in J : c[j] = v}
<1>2. PICK j \in K : \A k \in K : j <= k
  <2>1. K \in SUBSET Nat /\ K # {}
    BY <1>1
  <2> HIDE DEF K
  <2> QED
    BY <2>1, JoinLoop!LeastNat
<1>3. j \in J /\ c[j] = v /\ v \in Nat
  BY <1>1, <1>2
<1>4. ASSUME NEW k \in J PROVE c[j] < c[k] \/ (c[j] = c[k] /\ j <= k)
  <2>1. v <= c[k] /\ c[k] \in Nat
    BY <1>1
  <2>2. c[k] = v => j <= k
    BY <1>2
  <2> QED
    BY <1>3, <2>1, <2>2
<1> QED
  BY <1>3, <1>4

\* Then the matrix has an owner for each column, and each row a cheapest column of its own.
LEMMA StarOf ==
    ASSUME NEW a, NEW n, NEW cs, NEW ps, NEW scores, NEW low, NEW top,
           IsOwned(a, n, cs, ps, scores, low, top)
    PROVE  \E own, best :
              /\ IsStar(Matrix(cs, ps, n, top, scores), n, a, own, best)
              /\ \A i \in 1 .. a : \A j \in 1 .. n :
                    own[j] = i <=> <<cs[i], ps[j]>> \in DOMAIN scores
<1> DEFINE m == Matrix(cs, ps, n, top, scores)
           Edge(i, j) == <<cs[i], ps[j]>> \in DOMAIN scores
           w(i, j) == WeightAt(cs, ps, scores, i, j)
           own == [j \in 1 .. n |-> CHOOSE i \in 1 .. a : Edge(i, j)]
<1>1. /\ n \in Nat \ {0} /\ a \in 1 .. n /\ IsDistinct(cs, a) /\ IsDistinct(ps, n)
      /\ top \in Nat \ {0} /\ low \in 0 .. top /\ Cost(top, low, n) + n * n <= Infinity(top, n)
  BY DEF IsOwned
<1>2. /\ \A j \in 1 .. n : \E i \in 1 .. a : Edge(i, j)
      /\ \A i \in 1 .. a : \E j \in 1 .. n : Edge(i, j)
      /\ \A j \in 1 .. n : \A i, k \in 1 .. a : Edge(i, j) /\ Edge(k, j) => i = k
  BY DEF IsOwned
<1>3. ASSUME NEW i \in 1 .. a, NEW j \in 1 .. n
      PROVE  /\ Edge(i, j) => w(i, j) \in 0 .. top /\ low <= w(i, j)
             /\ ~Edge(i, j) => w(i, j) = 0
  <2>1. Edge(i, j) => scores[<<cs[i], ps[j]>>] \in 0 .. top /\ low <= scores[<<cs[i], ps[j]>>]
    BY DEF IsOwned
  <2> QED
    BY <2>1 DEF WeightAt
<1>4. /\ m.n = n /\ m.infinity = Infinity(top, n)
      /\ \A i \in 1 .. a : \A j \in 1 .. n : m.cost[<<i, j>>] = Cell(top, w(i, j), n, i, j)
      /\ \A i \in 1 .. n : \A j \in 1 .. n : i > a => m.cost[<<i, j>>] = 0
  <2>1. n \in Nat /\ a \in 0 .. n
    BY <1>1
  <2> HIDE DEF w
  <2> QED
    BY <1>1, <2>1, MatrixIs DEF w
<1> HIDE DEF m, Edge, w
<1>5. own \in [1 .. n -> 1 .. a] /\ \A i \in 1 .. a : \A j \in 1 .. n : own[j] = i <=> Edge(i, j)
  <2>1. \A j \in 1 .. n : own[j] \in 1 .. a /\ Edge(own[j], j)
    BY <1>2
  <2>2. own = [j \in 1 .. n |-> own[j]]
    OBVIOUS
  <2> HIDE DEF own
  <2> QED
    BY <1>2, <2>1, <2>2
<1> HIDE DEF own
<1>6. a \in Nat /\ 1 <= a /\ a <= n /\ \A i \in 1 .. a : i \in 1 .. n
  BY <1>1
<1>7. m.infinity \in Nat \ {0}
  <2>1. 1 \in 1 .. n
    BY <1>1
  <2> QED
    BY <1>1, <1>4, <2>1, CellCosts
<1>8. ASSUME NEW i \in 1 .. a, NEW j \in 1 .. n
      PROVE  m.cost[<<i, j>>] \in Nat /\ (own[j] = i <=> m.cost[<<i, j>>] < m.infinity)
  <2>1. i \in 1 .. n /\ m.cost[<<i, j>>] = Cell(top, w(i, j), n, i, j)
    BY <1>4, <1>6
  <2>2. /\ \A x \in 0 .. top : Cell(top, x, n, i, j) \in Nat
        /\ \A x \in 0 .. top : \A y \in 0 .. top :
              (y <= x /\ Cost(top, y, n) + n * n <= Infinity(top, n))
              => Cell(top, x, n, i, j) < Infinity(top, n)
        /\ n >= 2 => Cell(top, 0, n, i, j) >= Infinity(top, n)
    BY <1>1, <2>1, CellCosts
  <2>3. CASE Edge(i, j)
    <3>1. w(i, j) \in 0 .. top /\ low <= w(i, j)
      BY <1>3, <2>3
    <3>2. Cell(top, w(i, j), n, i, j) < Infinity(top, n)
      BY <1>1, <2>2, <3>1
    <3>3. own[j] = i
      BY <1>5, <2>3
    <3> QED
      BY <1>4, <2>1, <2>2, <3>1, <3>2, <3>3
  <2>4. CASE ~Edge(i, j)
    <3>1. w(i, j) = 0 /\ 0 \in 0 .. top
      BY <1>1, <1>3, <2>4
    <3>2. own[j] # i /\ own[j] \in 1 .. a
      BY <1>5, <2>4
    <3>3. n >= 2
      BY <1>1, <1>6, <3>2
    <3>4. m.cost[<<i, j>>] \in Nat /\ m.cost[<<i, j>>] >= m.infinity
      BY <1>4, <2>1, <2>2, <3>1, <3>3
    <3>5. ~(m.cost[<<i, j>>] < m.infinity)
      BY <1>7, <3>4
    <3> QED
      BY <3>2, <3>4, <3>5
  <2> QED
    BY <2>3, <2>4
<1> DEFINE Cheapest(i, b) ==
              /\ b \in 1 .. n /\ own[b] = i
              /\ \A j \in 1 .. n :
                    own[j] = i => \/ m.cost[<<i, b>>] < m.cost[<<i, j>>]
                                  \/ m.cost[<<i, b>>] = m.cost[<<i, j>>] /\ b <= j
           best == [i \in 1 .. a |-> CHOOSE b \in 1 .. n : Cheapest(i, b)]
<1>9. ASSUME NEW i \in 1 .. a PROVE \E b \in 1 .. n : Cheapest(i, b)
  <2> DEFINE J == {j \in 1 .. n : own[j] = i}
             c == [j \in J |-> m.cost[<<i, j>>]]
  <2>1. J \in SUBSET Nat /\ J # {} /\ \A j \in J : c[j] \in Nat /\ c[j] = m.cost[<<i, j>>]
    <3>1. J \in SUBSET Nat
      BY <1>1
    <3>2. PICK j \in 1 .. n : Edge(i, j)
      BY <1>2
    <3>3. j \in J
      BY <1>5, <3>2
    <3>4. \A k \in J : c[k] \in Nat /\ c[k] = m.cost[<<i, k>>]
      BY <1>8
    <3> HIDE DEF J, c
    <3> QED
      BY <3>1, <3>3, <3>4
  <2>2. \A j : j \in J <=> j \in 1 .. n /\ own[j] = i
    OBVIOUS
  <2> HIDE DEF J, c
  <2>3. PICK b \in J : \A k \in J : c[b] < c[k] \/ (c[b] = c[k] /\ b <= k)
    BY <2>1, FirstCheapest
  <2> QED
    BY <2>1, <2>2, <2>3
<1> HIDE DEF Cheapest
<1>10. best \in [1 .. a -> 1 .. n] /\ \A i \in 1 .. a : Cheapest(i, best[i])
  <2>1. \A i \in 1 .. a : best[i] \in 1 .. n /\ Cheapest(i, best[i])
    BY <1>9
  <2>2. best = [i \in 1 .. a |-> best[i]]
    OBVIOUS
  <2> HIDE DEF best
  <2> QED
    BY <2>1, <2>2
<1> HIDE DEF best
<1>11. IsStar(m, n, a, own, best)
  <2>1. \A i \in 1 .. a :
          /\ own[best[i]] = i
          /\ \A j \in 1 .. n :
                own[j] = i => \/ m.cost[<<i, best[i]>>] < m.cost[<<i, j>>]
                              \/ m.cost[<<i, best[i]>>] = m.cost[<<i, j>>] /\ best[i] <= j
    BY <1>10 DEF Cheapest
  <2> QED
    BY <1>1, <1>4, <1>5, <1>7, <1>8, <1>10, <2>1 DEF IsStar
<1> QED
  BY <1>5, <1>11 DEF m, Edge

\* Every row is linked to the best of its edges.
LEMMA BestLinks ==
    ASSUME NEW a, NEW n, NEW cs, NEW ps, NEW scores, NEW low, NEW top,
           IsOwned(a, n, cs, ps, scores, low, top),
           NEW i \in 1 .. a, NEW j \in 1 .. n, <<cs[i], ps[j]>> \in DOMAIN scores
    PROVE  LET links == MatchRows(cs, ps, n, top, scores)
           IN  \E k \in 1 .. n :
                  /\ ps[k] \in DOMAIN links /\ links[ps[k]] = cs[i]
                  /\ scores[<<cs[i], ps[j]>>] <= scores[<<cs[i], ps[k]>>]
<1> DEFINE m == Matrix(cs, ps, n, top, scores)
           p == PlacedRows(n, m).p
           w(k) == WeightAt(cs, ps, scores, i, k)
           kept == {k \in DOMAIN ps : p[k] \in DOMAIN cs /\ <<cs[p[k]], ps[k]>> \in DOMAIN scores}
           links == MatchRows(cs, ps, n, top, scores)
<1>1. /\ n \in Nat \ {0} /\ a \in 1 .. n /\ IsDistinct(cs, a) /\ IsDistinct(ps, n)
      /\ top \in Nat \ {0}
  BY DEF IsOwned
<1>2. \A k \in 1 .. n : <<cs[i], ps[k]>> \in DOMAIN scores => scores[<<cs[i], ps[k]>>] \in 0 .. top
  BY DEF IsOwned
<1>3. DOMAIN cs = 1 .. a /\ DOMAIN ps = 1 .. n /\ \A k, l \in 1 .. n : ps[k] = ps[l] => k = l
  BY <1>1 DEF IsDistinct
<1>4. PICK own, best :
         /\ IsStar(m, n, a, own, best)
         /\ \A l \in 1 .. a : \A k \in 1 .. n : own[k] = l <=> <<cs[l], ps[k]>> \in DOMAIN scores
  BY StarOf
<1>5. \A l \in 1 .. a : best[l] \in 1 .. n /\ own[best[l]] = l /\ p[best[l]] = l
  <2> HIDE DEF m
  <2>1. \A l \in 1 .. a : PlacedRows(n, m).p[best[l]] = l
    BY <1>4, RowsServed
  <2>2. \A l \in 1 .. a : best[l] \in 1 .. n /\ own[best[l]] = l
    BY <1>4, StarNumbers
  <2> QED
    BY <2>1, <2>2
<1> DEFINE b == best[i]
<1>6. b \in 1 .. n /\ p[b] = i /\ <<cs[i], ps[b]>> \in DOMAIN scores
  BY <1>4, <1>5
<1>7. m.cost[<<i, b>>] <= m.cost[<<i, j>>]
  <2>1. own[j] = i
    BY <1>4
  <2>2. \/ m.cost[<<i, best[i]>>] < m.cost[<<i, j>>]
        \/ m.cost[<<i, best[i]>>] = m.cost[<<i, j>>] /\ best[i] <= j
    <3> HIDE DEF m
    <3> QED
      BY <1>4, <2>1 DEF IsStar
  <2>3. m.cost[<<i, b>>] \in Nat /\ m.cost[<<i, j>>] \in Nat
    <3> HIDE DEF m, b
    <3>1. \A k \in 1 .. n : m.cost[<<i, k>>] \in Nat
      BY <1>4 DEF IsStar
    <3> QED
      BY <1>6, <3>1
  <2> HIDE DEF m
  <2>4. m.cost[<<i, b>>] < m.cost[<<i, j>>] \/ m.cost[<<i, b>>] = m.cost[<<i, j>>]
    BY <2>2
  <2> HIDE DEF b
  <2> QED
    BY <2>3, <2>4
<1>8. \A k \in 1 .. n : m.cost[<<i, k>>] = Cell(top, w(k), n, i, k)
  <2>1. n \in Nat /\ a \in 0 .. n
    BY <1>1
  <2> HIDE DEF w
  <2> QED
    BY <1>1, <2>1, MatrixIs DEF w
<1>9. \A k \in 1 .. n : <<cs[i], ps[k]>> \in DOMAIN scores
                        => w(k) = scores[<<cs[i], ps[k]>>] /\ w(k) \in 0 .. top
  BY <1>2 DEF WeightAt
<1> HIDE DEF m, p, w, b
<1>10. scores[<<cs[i], ps[j]>>] <= scores[<<cs[i], ps[b]>>]
  <2>1. i \in 1 .. n
    BY <1>1
  <2>2. \A x, y \in 0 .. top : \A k \in 1 .. n :
           Cell(top, x, n, i, b) <= Cell(top, y, n, i, k) => y <= x
    BY <1>1, <1>6, <2>1, CellCosts
  <2>3. Cell(top, w(b), n, i, b) <= Cell(top, w(j), n, i, j)
    BY <1>6, <1>7, <1>8
  <2>4. w(b) = scores[<<cs[i], ps[b]>>] /\ w(b) \in 0 .. top
    BY <1>6, <1>9
  <2>5. w(j) = scores[<<cs[i], ps[j]>>] /\ w(j) \in 0 .. top
    BY <1>9
  <2>6. w(j) <= w(b)
    BY <2>2, <2>3, <2>4, <2>5
  <2> QED
    BY <2>4, <2>5, <2>6
<1>11. links = [q \in {ps[k] : k \in kept} |-> cs[p[CHOOSE k \in kept : ps[k] = q]]]
  BY MatchRowsIs DEF ScoredPairs, p, m
<1>12. b \in kept
  BY <1>3, <1>6
<1>13. \A k \in kept : k \in 1 .. n
  BY <1>3
<1> HIDE DEF kept
<1>14. ps[b] \in DOMAIN links /\ links[ps[b]] = cs[i]
  <2> DEFINE k == CHOOSE l \in kept : ps[l] = ps[b]
  <2>1. k \in kept /\ ps[k] = ps[b]
    BY <1>12
  <2>2. k = b
    BY <1>3, <1>6, <1>13, <2>1
  <2>3. ps[b] \in {ps[l] : l \in kept}
    BY <1>12
  <2>4. ps[b] \in DOMAIN links /\ links[ps[b]] = cs[p[k]]
    <3> HIDE DEF links
    <3> QED
      BY <1>11, <2>3
  <2> HIDE DEF k
  <2> QED
    BY <1>6, <2>2, <2>4
<1> QED
  BY <1>6, <1>10, <1>14 DEF links

-----------------------------------------------------------------------------
(* The matching that is found is a maximum one when no edge is much weaker  *)
(* than the strongest.                                                      *)

\* Edges of which every provider's speaker has one.
IsSingle(scores) ==
    /\ DOMAIN scores \subseteq Int \X Int /\ DOMAIN scores # {}
    /\ IsFiniteSet({e[2] : e \in DOMAIN scores})
    /\ \A e \in DOMAIN scores : scores[e] \in Nat \ {0}
    /\ \A e, f \in DOMAIN scores : e[2] = f[2] => e = f

\* There are no more rows than columns, and no more weights than those.
LEMMA SingleEnds ==
    ASSUME NEW scores, IsSingle(scores)
    PROVE  LET cset == {e[1] : e \in DOMAIN scores}
               pset == {e[2] : e \in DOMAIN scores}
           IN  /\ cset \in SUBSET Int /\ pset \in SUBSET Int
               /\ IsFiniteSet(cset) /\ IsFiniteSet(pset) /\ IsFiniteSet(Range(scores))
               /\ Cardinality(cset) \in Nat \ {0} /\ Cardinality(pset) \in Nat \ {0}
               /\ Cardinality(cset) <= Cardinality(pset)
<1> DEFINE cset == {e[1] : e \in DOMAIN scores}
           pset == {e[2] : e \in DOMAIN scores}
           R == Range(scores)
           At(q) == CHOOSE e \in DOMAIN scores : e[2] = q
           f == [q \in pset |-> At(q)[1]]
           g == [q \in pset |-> scores[At(q)]]
<1>1. cset \in SUBSET Int /\ pset \in SUBSET Int /\ cset # {} /\ pset # {}
  <2>1. \A e \in DOMAIN scores : e[1] \in Int /\ e[2] \in Int
    BY DEF IsSingle
  <2>2. PICK e : e \in DOMAIN scores
    BY DEF IsSingle
  <2>3. cset \in SUBSET Int /\ pset \in SUBSET Int
    BY <2>1
  <2>4. e[1] \in cset /\ e[2] \in pset
    BY <2>2
  <2> QED
    BY <2>3, <2>4
<1>2. IsFiniteSet(pset)
  BY DEF IsSingle
<1>3. ASSUME NEW e \in DOMAIN scores PROVE e[2] \in pset /\ At(e[2]) = e
  <2>1. e[2] \in pset
    OBVIOUS
  <2>2. At(e[2]) \in DOMAIN scores /\ At(e[2])[2] = e[2]
    OBVIOUS
  <2> QED
    BY <2>1, <2>2 DEF IsSingle
<1>4. \A q \in pset : At(q) \in DOMAIN scores
  <2> SUFFICES ASSUME NEW q \in pset PROVE At(q) \in DOMAIN scores
    OBVIOUS
  <2>1. \E e \in DOMAIN scores : e[2] = q
    OBVIOUS
  <2> QED
    BY <2>1
<1> HIDE DEF At
<1>5. f \in Surjection(pset, cset) /\ g \in Surjection(pset, R)
  <2>1. f \in [pset -> cset] /\ g \in [pset -> R]
    <3>1. \A q \in pset : At(q)[1] \in cset
      BY <1>4
    <3>2. \A q \in pset : scores[At(q)] \in R
      BY <1>4 DEF Range
    <3> HIDE DEF pset, cset, R
    <3> QED
      BY <3>1, <3>2
  <2>2. ASSUME NEW c \in cset PROVE \E q \in pset : f[q] = c
    <3>1. PICK e \in DOMAIN scores : c = e[1]
      OBVIOUS
    <3>2. e[2] \in pset /\ At(e[2]) = e
      BY <1>3
    <3> HIDE DEF pset
    <3> QED
      BY <3>1, <3>2
  <2>3. ASSUME NEW r \in R PROVE \E q \in pset : g[q] = r
    <3>1. PICK e \in DOMAIN scores : r = scores[e]
      BY DEF Range
    <3>2. e[2] \in pset /\ At(e[2]) = e
      BY <1>3
    <3> HIDE DEF pset
    <3> QED
      BY <3>1, <3>2
  <2> HIDE DEF f, g, pset, cset, R
  <2> QED
    BY <2>1, <2>2, <2>3 DEF Surjection
<1> HIDE DEF f, g, pset, cset, R
<1>6. IsFiniteSet(cset) /\ IsFiniteSet(R) /\ Cardinality(cset) <= Cardinality(pset)
  BY <1>2, <1>5, FS_Surjection
<1>7. Cardinality(cset) \in Nat \ {0} /\ Cardinality(pset) \in Nat \ {0}
  BY <1>1, <1>2, <1>6, FS_CardinalityType, FS_EmptySet
<1> QED
  BY <1>1, <1>2, <1>6, <1>7 DEF cset, pset, R

\* Of a finite set in order, one element is the last.
LEMMA OneIsLast ==
    ASSUME NEW S, IsFiniteSet(S), S # {}, NEW R, Orders(R, S)
    PROVE  \E a \in S : \A b \in S : <<b, a>> \in R
<1>1. Cardinality(S) \in Nat \ {0}
  BY FS_CardinalityType, FS_EmptySet
<1>2. Places(S, R)
  BY Ranks
<1>3. Cardinality(S) \in 1 .. Cardinality(S)
  BY <1>1
<1>4. PICK a \in S : Cardinality({b \in S : <<b, a>> \in R}) = Cardinality(S)
  BY <1>2, <1>3 DEF Places, Rank
<1> DEFINE T == {b \in S : <<b, a>> \in R}
<1>5. T \in SUBSET S
  OBVIOUS
<1>6. T = S
  <2> HIDE DEF T
  <2>1. Cardinality(T) = Cardinality(S)
    BY <1>4 DEF T
  <2> QED
    BY <1>5, <2>1, FS_Subset
<1> QED
  BY <1>6

LEMMA EndsOf ==
    ASSUME NEW S \in SUBSET Int, IsFiniteSet(S), S # {}
    PROVE  /\ Max(S) \in S /\ Min(S) \in S
           /\ \A x \in S : x <= Max(S) /\ Min(S) <= x
<1> DEFINE Up == {ab \in Int \X Int : ab[1] <= ab[2]}
           Down == {ab \in Int \X Int : ab[2] <= ab[1]}
<1>1. \A x, y \in Int : (<<y, x>> \in Up <=> y <= x) /\ (<<y, x>> \in Down <=> x <= y)
  OBVIOUS
<1> HIDE DEF Up, Down
<1>2. Orders(Up, S) /\ Orders(Down, S)
  BY <1>1 DEF Orders
<1>3. (\E x \in S : \A y \in S : <<y, x>> \in Up) /\ (\E x \in S : \A y \in S : <<y, x>> \in Down)
  BY <1>2, OneIsLast
<1>4. (\E x \in S : \A y \in S : x >= y) /\ (\E x \in S : \A y \in S : x <= y)
  BY <1>1, <1>3
<1> DEFINE t == Max(S)
           l == Min(S)
<1>5. t \in S /\ l \in S /\ \A y \in S : t >= y /\ l <= y
  BY <1>4 DEF Max, Min
<1> HIDE DEF t, l
<1>6. \A y \in S : y <= t /\ l <= y
  BY <1>5
<1> QED
  BY <1>5, <1>6 DEF t, l

\* Such edges are those of a matrix with owners.
LEMMA SingleOwned ==
    ASSUME NEW scores, IsSingle(scores), CloseTogether(scores)
    PROVE  \E a, n, cs, ps, low, top :
              /\ IsOwned(a, n, cs, ps, scores, low, top)
              /\ MaximumWeightMatching(scores) = MatchRows(cs, ps, n, top, scores)
              /\ \A e \in DOMAIN scores : \E i \in 1 .. a : \E j \in 1 .. n : e = <<cs[i], ps[j]>>
<1> DEFINE cset == {e[1] : e \in DOMAIN scores}
           pset == {e[2] : e \in DOMAIN scores}
           R == Range(scores)
           a == Cardinality(cset)
           n == Cardinality(pset)
           cs == InOrder(cset)
           ps == InOrder(pset)
           top == Max(R)
           low == Min(R)
<1>1. /\ cset \in SUBSET Int /\ pset \in SUBSET Int
      /\ IsFiniteSet(cset) /\ IsFiniteSet(pset) /\ IsFiniteSet(R)
      /\ a \in Nat \ {0} /\ n \in Nat \ {0} /\ a <= n
  BY SingleEnds
<1>2. \A e \in DOMAIN scores : e = <<e[1], e[2]>> /\ e[1] \in cset /\ e[2] \in pset
  BY DEF IsSingle
<1>3. \A c \in cset : \E q \in pset : <<c, q>> \in DOMAIN scores
  <2> SUFFICES ASSUME NEW c \in cset PROVE \E q \in pset : <<c, q>> \in DOMAIN scores
    OBVIOUS
  <2>1. PICK e \in DOMAIN scores : e[1] = c
    OBVIOUS
  <2> HIDE DEF cset, pset
  <2> QED
    BY <1>2, <2>1
<1>4. \A q \in pset : \E c \in cset : <<c, q>> \in DOMAIN scores
  <2> SUFFICES ASSUME NEW q \in pset PROVE \E c \in cset : <<c, q>> \in DOMAIN scores
    OBVIOUS
  <2>1. PICK e \in DOMAIN scores : e[2] = q
    OBVIOUS
  <2> HIDE DEF cset, pset
  <2> QED
    BY <1>2, <2>1
<1>5. \A c, d \in cset : \A q \in pset :
         <<c, q>> \in DOMAIN scores /\ <<d, q>> \in DOMAIN scores => c = d
  <2> SUFFICES ASSUME NEW c, NEW d, NEW q, <<c, q>> \in DOMAIN scores, <<d, q>> \in DOMAIN scores
               PROVE  c = d
    OBVIOUS
  <2>1. <<c, q>>[2] = <<d, q>>[2] => <<c, q>> = <<d, q>>
    BY DEF IsSingle
  <2> QED
    BY <2>1
<1>6. /\ R \in SUBSET Nat /\ R # {} /\ 0 \notin R /\ \A e \in DOMAIN scores : scores[e] \in R
  <2>1. \A e \in DOMAIN scores : scores[e] \in R
    BY DEF Range
  <2>2. \A r \in R : r \in Nat \ {0}
    BY DEF Range, IsSingle
  <2>3. PICK e : e \in DOMAIN scores
    BY DEF IsSingle
  <2> HIDE DEF R
  <2> QED
    BY <2>1, <2>2, <2>3
<1>7. n = Max({Cardinality({e[i] : e \in DOMAIN scores}) : i \in {1, 2}})
      /\ n = Max({Len(cs), Len(ps)})
  <2>1. {Cardinality({e[i] : e \in DOMAIN scores}) : i \in {1, 2}} = {a, n}
    OBVIOUS
  <2>2. Len(cs) = a /\ Len(ps) = n
    <3> HIDE DEF cset, pset
    <3>1. cs \in [1 .. a -> cset] /\ ps \in [1 .. n -> pset] /\ a \in Nat /\ n \in Nat
      BY <1>1, Ordered
    <3> HIDE DEF cs, ps, a, n
    <3> QED
      BY <3>1
  <2>3. Max({a, n}) = n
    <3> HIDE DEF a, n
    <3>1. Max({a, n}) \in {a, n} /\ Max({a, n}) >= n
      BY <1>1, OfTwo
    <3> QED
      BY <1>1, <3>1
  <2> HIDE DEF a, n, cs, ps
  <2> QED
    BY <2>1, <2>2, <2>3
<1>8. Cost(top, low, n) + n * n <= Infinity(top, n)
  <2> HIDE DEF n, R
  <2> QED
    BY <1>7 DEF CloseTogether, R
<1>9. MaximumWeightMatching(scores) = MatchRows(cs, ps, n, top, scores)
  <2>1. scores # <<>>
    <3>1. DOMAIN <<>> = {}
      OBVIOUS
    <3> QED
      BY <3>1 DEF IsSingle
  <2> HIDE DEF n
  <2>2. MaximumWeightMatching(scores)
          = MatchRows(cs, ps, Max({Len(cs), Len(ps)}), top, scores)
    BY <2>1 DEF MaximumWeightMatching
  <2> QED
    BY <1>7, <2>2
<1>10. top \in R /\ low \in R /\ \A x \in R : x <= top /\ low <= x
  <2> HIDE DEF R
  <2>1. R \in SUBSET Int /\ R # {} /\ IsFiniteSet(R)
    BY <1>1, <1>6
  <2> QED
    BY <2>1, EndsOf
<1> HIDE DEF cset, pset, a, n, R, top, low
<1>11. /\ cs \in [1 .. a -> cset] /\ (\A j, k \in 1 .. a : cs[j] = cs[k] => j = k)
       /\ (\A x \in cset : \E k \in 1 .. a : cs[k] = x)
       /\ ps \in [1 .. n -> pset] /\ (\A j, k \in 1 .. n : ps[j] = ps[k] => j = k)
       /\ (\A x \in pset : \E k \in 1 .. n : ps[k] = x)
  BY <1>1, Ordered DEF a, n
<1> HIDE DEF cs, ps
<1>12. IsDistinct(cs, a) /\ IsDistinct(ps, n)
  BY <1>1, <1>11 DEF IsDistinct
<1>13. \A x \in R : x \in 0 .. top /\ low <= x
  BY <1>6, <1>10
<1>14. top \in Nat \ {0} /\ low \in 0 .. top /\ a \in 1 .. n
  BY <1>1, <1>6, <1>10
<1>15. /\ \A i \in 1 .. a : cs[i] \in cset
       /\ \A j \in 1 .. n : ps[j] \in pset
  BY <1>11
<1>16. IsOwned(a, n, cs, ps, scores, low, top)
  <2>1. \A j \in 1 .. n : \E i \in 1 .. a : <<cs[i], ps[j]>> \in DOMAIN scores
    BY <1>4, <1>11, <1>15
  <2>2. \A i \in 1 .. a : \E j \in 1 .. n : <<cs[i], ps[j]>> \in DOMAIN scores
    BY <1>3, <1>11, <1>15
  <2>3. \A j \in 1 .. n : \A i, k \in 1 .. a :
          <<cs[i], ps[j]>> \in DOMAIN scores /\ <<cs[k], ps[j]>> \in DOMAIN scores => i = k
    BY <1>5, <1>11, <1>15
  <2>4. \A i \in 1 .. a : \A j \in 1 .. n :
          <<cs[i], ps[j]>> \in DOMAIN scores
          => scores[<<cs[i], ps[j]>>] \in 0 .. top /\ low <= scores[<<cs[i], ps[j]>>]
    BY <1>6, <1>13
  <2> QED
    BY <1>1, <1>8, <1>12, <1>14, <2>1, <2>2, <2>3, <2>4 DEF IsOwned
<1>17. \A e \in DOMAIN scores : \E i \in 1 .. a : \E j \in 1 .. n : e = <<cs[i], ps[j]>>
  BY <1>2, <1>11
<1> QED
  BY <1>9, <1>16, <1>17

\* The links of such edges weigh as much as those of any other matching: each link of the
\* other one is outweighed by the link its canonical speaker has here.
LEMMA SingleMaximum ==
    ASSUME NEW scores, IsSingle(scores), CloseTogether(scores)
    PROVE  FindsMaximum(scores)
<1> DEFINE links == MaximumWeightMatching(scores)
           D == DOMAIN links
           pset == {e[2] : e \in DOMAIN scores}
           cset == {e[1] : e \in DOMAIN scores}
<1>1. /\ cset \in SUBSET Int /\ pset \in SUBSET Int /\ IsFiniteSet(cset) /\ IsFiniteSet(pset)
  BY SingleEnds
<1>2. DOMAIN scores \subseteq cset \X pset
  <2>1. \A e \in DOMAIN scores : e = <<e[1], e[2]>> /\ e[1] \in cset /\ e[2] \in pset
    BY DEF IsSingle
  <2> HIDE DEF cset, pset
  <2> QED
    BY <2>1
<1>3. \A e \in DOMAIN scores : scores[e] \in Nat
  BY DEF IsSingle
<1>4. ASSUME NEW c, NEW q, <<c, q>> \in DOMAIN scores
      PROVE  \E r \in D : links[r] = c /\ scores[<<c, q>>] <= scores[<<links[r], r>>]
  <2>1. PICK a, n, cs, ps, low, top :
              /\ IsOwned(a, n, cs, ps, scores, low, top)
              /\ MaximumWeightMatching(scores) = MatchRows(cs, ps, n, top, scores)
              /\ \A e \in DOMAIN scores : \E i \in 1 .. a : \E j \in 1 .. n : e = <<cs[i], ps[j]>>
    BY SingleOwned
  <2>2. PICK i \in 1 .. a, j \in 1 .. n : <<c, q>> = <<cs[i], ps[j]>>
    BY <1>4, <2>1
  <2>3. c = cs[i] /\ q = ps[j]
    BY <2>2
  <2>4. <<cs[i], ps[j]>> \in DOMAIN scores
    BY <1>4, <2>2
  <2>5. \E k \in 1 .. n :
           /\ ps[k] \in DOMAIN links /\ links[ps[k]] = cs[i]
           /\ scores[<<cs[i], ps[j]>>] <= scores[<<cs[i], ps[k]>>]
    BY <2>1, <2>4, BestLinks
  <2> HIDE DEF links
  <2> QED
    BY <2>3, <2>5
<1> HIDE DEF links, pset, cset
<1>5. IsLinking(links, DOMAIN scores)
  BY <1>1, <1>2, OneToOne DEF links
<1>6. ASSUME NEW m, NEW Q \in SUBSET pset, DOMAIN m = Q, \A q \in Q : <<m[q], q>> \in DOMAIN scores
      PROVE  /\ IsFiniteSet(Q) /\ [q \in Q |-> scores[<<m[q], q>>]] \in [Q -> Nat]
             /\ \E sum : /\ IsSum(sum, [q \in Q |-> scores[<<m[q], q>>]], Q)
                         /\ WeightOf(m, scores) = sum[Q]
  <2>1. IsFiniteSet(Q)
    BY <1>1, FS_Subset
  <2>2. \A q \in Q : scores[<<m[q], q>>] \in Nat
    BY <1>3, <1>6
  <2>3. [q \in Q |-> scores[<<m[q], q>>]] \in [Q -> Nat]
    BY <2>2
  <2>4. \E sum : /\ IsSum(sum, [q \in DOMAIN m |-> scores[<<m[q], q>>]], DOMAIN m)
                 /\ WeightOf(m, scores) = sum[DOMAIN m]
    BY <1>6, <2>1, <2>2, WeightIs
  <2> QED
    BY <1>6, <2>1, <2>3, <2>4
<1>7. D \in SUBSET pset /\ \A q \in D : <<links[q], q>> \in DOMAIN scores
  <2>1. \A q \in D : <<links[q], q>> \in DOMAIN scores
    BY <1>5 DEF IsLinking
  <2>2. \A q \in D : <<links[q], q>> \in cset \X pset
    BY <1>2, <2>1
  <2> QED
    BY <2>1, <2>2
<1> DEFINE u == [q \in D |-> scores[<<links[q], q>>]]
<1>8. PICK more : IsSum(more, u, D) /\ WeightOf(links, scores) = more[D]
  BY <1>6, <1>7
<1>9. IsFiniteSet(D) /\ u \in [D -> Nat]
  BY <1>6, <1>7
<1>10. \A q \in D : u[q] = scores[<<links[q], q>>]
  OBVIOUS
<1> HIDE DEF u, D
<1>11. ASSUME NEW other \in Matchings(scores) PROVE WeightOf(other, scores) <= WeightOf(links, scores)
  <2>1. PICK Q \in SUBSET pset : /\ other \in [Q -> cset] /\ IsInjective(other)
                                 /\ \A q \in Q : <<other[q], q>> \in DOMAIN scores
    BY DEF Matchings, pset, cset
  <2>2. DOMAIN other = Q
    BY <2>1
  <2> DEFINE w == [q \in Q |-> scores[<<other[q], q>>]]
             At(q) == CHOOSE r \in D : /\ links[r] = other[q]
                                       /\ scores[<<other[q], q>>] <= scores[<<links[r], r>>]
             b == [q \in Q |-> At(q)]
  <2>3. PICK sum : IsSum(sum, w, Q) /\ WeightOf(other, scores) = sum[Q]
    BY <1>6, <2>1, <2>2
  <2>4. IsFiniteSet(Q) /\ w \in [Q -> Nat]
    BY <1>6, <2>1, <2>2
  <2>5. \A q \in Q : w[q] = scores[<<other[q], q>>] /\ b[q] = At(q)
    OBVIOUS
  <2>6. ASSUME NEW q \in Q
        PROVE  /\ At(q) \in D /\ links[At(q)] = other[q]
               /\ scores[<<other[q], q>>] <= scores[<<links[At(q)], At(q)>>]
    <3>1. \E r \in D : /\ links[r] = other[q]
                       /\ scores[<<other[q], q>>] <= scores[<<links[r], r>>]
      BY <1>4, <2>1 DEF D
    <3> QED
      BY <3>1
  <2> HIDE DEF w, At, b
  <2>7. \A x \in Q : b[x] \in D /\ w[x] <= u[b[x]]
    BY <1>10, <2>5, <2>6
  <2>8. \A x, y \in Q : b[x] = b[y] => x = y
    <3> SUFFICES ASSUME NEW x \in Q, NEW y \in Q, b[x] = b[y] PROVE x = y
      OBVIOUS
    <3>1. At(x) = At(y)
      BY <2>5
    <3>2. other[x] = other[y]
      BY <2>6, <3>1
    <3> QED
      BY <2>1, <2>2, <3>2 DEF IsInjective
  <2>9. sum[Q] <= more[D]
    BY <1>8, <1>9, <2>3, <2>4, <2>7, <2>8, SumsCompare
  <2> QED
    BY <1>8, <2>3, <2>9
<1> QED
  BY <1>11 DEF FindsMaximum, IsMaximum, links

\* One of a speaker's edges is the best.
LEMMA BestIs ==
    ASSUME NEW edges, IsFiniteSet(edges), edges \subseteq Int \X Int,
           NEW scores, \A e \in edges : scores[e] \in Int, NEW q, EdgesOf(q, edges) # {}
    PROVE  BestEdge(q, edges, scores) \in EdgesOf(q, edges)
<1> DEFINE S == EdgesOf(q, edges)
           Before(f, e) == scores[f] < scores[e] \/ (scores[f] = scores[e] /\ e[1] <= f[1])
           R == {fe \in S \X S : Before(fe[1], fe[2])}
<1>1. IsFiniteSet(S) /\ S # {}
  <2>1. S \in SUBSET edges
    BY DEF EdgesOf
  <2> QED
    BY <2>1, FS_Subset
<1>2. \A e \in S : scores[e] \in Int /\ e[1] \in Int /\ e[2] = q /\ e = <<e[1], e[2]>>
  BY DEF EdgesOf
<1> HIDE DEF S
<1>3. ASSUME NEW f \in S, NEW e \in S PROVE <<f, e>> \in R <=> Before(f, e)
  <2> HIDE DEF Before
  <2> DEFINE fe == <<f, e>>
  <2>1. fe \in S \X S /\ fe[1] = f /\ fe[2] = e
    OBVIOUS
  <2> HIDE DEF fe
  <2>2. fe \in R <=> Before(fe[1], fe[2])
    BY <2>1
  <2>3. fe \in R <=> Before(f, e)
    BY <2>1, <2>2
  <2> HIDE DEF R
  <2> QED
    BY <2>3 DEF fe
<1> HIDE DEF R
<1>4. /\ \A e \in S : Before(e, e)
      /\ \A f, e \in S : Before(f, e) \/ Before(e, f)
      /\ \A f, e \in S : Before(f, e) /\ Before(e, f) => f = e
      /\ \A f, e, g \in S : Before(f, e) /\ Before(e, g) => Before(f, g)
  <2>1. \A e \in S : Before(e, e)
    BY <1>2
  <2>2. \A f, e \in S : Before(f, e) \/ Before(e, f)
    BY <1>2
  <2>3. ASSUME NEW f \in S, NEW e \in S, Before(f, e), Before(e, f) PROVE f = e
    <3>1. f[1] = e[1]
      BY <1>2, <2>3
    <3> QED
      BY <1>2, <3>1
  <2>4. ASSUME NEW f \in S, NEW e \in S, NEW g \in S, Before(f, e), Before(e, g)
        PROVE  Before(f, g)
    BY <1>2, <2>4
  <2> HIDE DEF Before
  <2> QED
    BY <2>1, <2>2, <2>3, <2>4
<1> HIDE DEF Before
<1>5. Orders(R, S)
  BY <1>3, <1>4 DEF Orders
<1>6. \E e \in S : \A f \in S : Before(f, e)
  <2>1. \E e \in S : \A f \in S : <<f, e>> \in R
    BY <1>1, <1>5, OneIsLast
  <2> QED
    BY <1>3, <2>1
<1>7. BestEdge(q, edges, scores) = CHOOSE e \in S : \A f \in S : Before(f, e)
  BY DEF BestEdge, S, Before
<1>8. BestEdge(q, edges, scores) \in S
  BY <1>6, <1>7
<1> QED
  BY <1>8 DEF S

\* The edges that are handed to the matching are one for each speaker that has a clear one.
LEMMA EdgesSingle ==
    ASSUME NEW tl, DOMAIN tl \in SUBSET Int, IsFiniteSet(DOMAIN tl),
           \A l \in DOMAIN tl : tl[l] \in Spans,
           NEW provider, DOMAIN provider \in SUBSET Int, IsFiniteSet(DOMAIN provider),
           \A q \in DOMAIN provider : provider[q] \in Spans,
           ClearEdges(Scores(tl, provider), provider) # <<>>
    PROVE  IsSingle(ClearEdges(Scores(tl, provider), provider))
<1> DEFINE scores == Scores(tl, provider)
           accepted == Accepted(scores, provider)
           clear == {q \in {e[2] : e \in accepted} : ~TooClose(q, accepted, scores)}
           Best(q) == BestEdge(q, accepted, scores)
           S == {Best(q) : q \in clear}
           E == ClearEdges(scores, provider)
<1>1. /\ accepted \subseteq DOMAIN scores /\ \A e \in accepted : scores[e] >= MinOverlap
  BY DEF Accepted
<1>2. /\ DOMAIN scores \subseteq (DOMAIN tl) \X (DOMAIN provider)
      /\ \A e \in DOMAIN scores : scores[e] \in Int
  <2>1. /\ DOMAIN scores \subseteq (DOMAIN tl) \X (DOMAIN provider)
        /\ \A e \in DOMAIN scores : scores[e] = Shared(tl[e[1]], provider[e[2]])
    BY ScoresOf
  <2> HIDE DEF scores
  <2>2. \A e \in DOMAIN scores : tl[e[1]] \in Spans /\ provider[e[2]] \in Spans
    BY <2>1
  <2>3. \A e \in DOMAIN scores : scores[e] \in Int
    BY <2>1, <2>2, SharedIn
  <2> QED
    BY <2>1, <2>3
<1>3. E = [e \in S |-> scores[e]]
  BY DEF ClearEdges
<1> HIDE DEF scores, E
<1>4. /\ IsFiniteSet(accepted) /\ accepted \subseteq Int \X Int
      /\ accepted \subseteq (DOMAIN tl) \X (DOMAIN provider)
  <2>1. accepted \in SUBSET ((DOMAIN tl) \X (DOMAIN provider))
    BY <1>1, <1>2
  <2>2. IsFiniteSet((DOMAIN tl) \X (DOMAIN provider))
    BY FS_Product
  <2> HIDE DEF accepted
  <2>3. IsFiniteSet(accepted)
    BY <2>1, <2>2, FS_Subset
  <2>4. accepted \subseteq Int \X Int
    BY <2>1
  <2> QED
    BY <2>1, <2>3, <2>4
<1> HIDE DEF accepted
<1>5. ASSUME NEW q \in clear PROVE Best(q) \in accepted /\ Best(q)[2] = q
  <2>1. EdgesOf(q, accepted) # {}
    <3>1. PICK e \in accepted : e[2] = q
      OBVIOUS
    <3>2. e \in EdgesOf(q, accepted)
      BY <3>1 DEF EdgesOf
    <3> QED
      BY <3>2
  <2>2. \A e \in accepted : scores[e] \in Int
    BY <1>1, <1>2
  <2>3. Best(q) \in EdgesOf(q, accepted)
    BY <1>4, <2>1, <2>2, BestIs
  <2> HIDE DEF Best
  <2> QED
    BY <2>3 DEF EdgesOf
<1> HIDE DEF clear, Best
<1>6. /\ S \subseteq accepted /\ \A e \in S : \E q \in clear : e = Best(q) /\ e[2] = q
  BY <1>5
<1>7. DOMAIN E = S /\ \A e \in S : E[e] = scores[e]
  <2> HIDE DEF S
  <2> QED
    BY <1>3
<1>8. S # {}
  <2>1. SUFFICES ASSUME S = {} PROVE FALSE
    OBVIOUS
  <2>2. E = <<>>
    <3>1. E = [e \in {} |-> scores[e]]
      BY <1>3, <2>1
    <3>2. [e \in {} |-> scores[e]] = <<>>
      OBVIOUS
    <3> QED
      BY <3>1, <3>2
  <2> QED
    BY <2>2 DEF E, scores
<1> HIDE DEF S
<1>9. \A e, f \in S : e[2] = f[2] => e = f
  BY <1>6
<1>10. IsFiniteSet({e[2] : e \in S})
  <2>1. {e[2] : e \in S} \in SUBSET (DOMAIN provider)
    BY <1>4, <1>6
  <2> QED
    BY <2>1, FS_Subset
<1>11. \A e \in S : scores[e] \in Nat \ {0}
  <2> SUFFICES ASSUME NEW e \in S PROVE scores[e] \in Nat \ {0}
    OBVIOUS
  <2>1. scores[e] \in Int /\ scores[e] >= 4
    BY <1>1, <1>2, <1>6 DEF MinOverlap
  <2> QED
    BY <2>1
<1>12. S \subseteq Int \X Int
  BY <1>4, <1>6
<1>13. IsSingle(E)
  BY <1>7, <1>8, <1>9, <1>10, <1>11, <1>12 DEF IsSingle
<1> QED
  BY <1>13 DEF E, scores

\* The links are a maximum-weight matching as long as no edge is much weaker than the
\* strongest one, for every number of speakers and all that they say: the "infinity" the
\* search starts from is then out of nobody's reach (maximum_weight_matching).
THEOREM MaximumTheorem == FinalSpec => []MaximumWhenClose
<1>1. FinalInv => MaximumWhenClose
  <2> SUFFICES ASSUME FinalInv, done PROVE WhenClose(Edges(ProviderIntervals(words)))
    BY DEF MaximumWhenClose
  <2> DEFINE provider == ProviderIntervals(words)
             edges == Edges(provider)
  <2>1. IsTimelines(timelines) /\ IsWords(words)
    BY DEF FinalInv
  <2>2. /\ DOMAIN timelines \in SUBSET Int /\ IsFiniteSet(DOMAIN timelines)
        /\ \A l \in DOMAIN timelines : timelines[l] \in Spans
    BY <2>1, TimelinesAre
  <2>3. /\ DOMAIN provider \in SUBSET Int /\ IsFiniteSet(DOMAIN provider)
        /\ \A q \in DOMAIN provider : provider[q] \in Spans
    BY <2>1, WordsAre, IntervalsAre
  <2> HIDE DEF provider
  <2>4. edges # <<>> => IsSingle(edges)
    BY <2>2, <2>3, EdgesSingle DEF Edges
  <2> HIDE DEF edges
  <2>5. edges # <<>> /\ CloseTogether(edges) => FindsMaximum(edges)
    BY <2>4, SingleMaximum
  <2> QED
    BY <2>5 DEF WhenClose, edges, provider
<1> QED
  BY <1>1, FinalTheorem, PTL
==============================================================================
