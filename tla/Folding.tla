------------------------------- MODULE Folding -------------------------------
(***************************************************************************)
(* Loops over a list.  The models write `for x in seq: state = Op(state,   *)
(* x)` as FoldLeft; this module has the rule that proves facts about such  *)
(* a loop: what holds before it and is kept by every pass holds after it.  *)
(*                                                                         *)
(* A proof module takes one instance per loop, with the body of the loop   *)
(* for Op; c is what else the body reads (0 when there is nothing).        *)
(***************************************************************************)
EXTENDS Integers, Sequences
LOCAL INSTANCE WellFoundedInduction

CONSTANT Op(_, _, _)      \* the state after a pass, from the one before it, an element and c

\* The library's Max, without what else an instance would bring in.
Top(S) == CHOOSE x \in S : \A y \in S : x >= y

\* FoldLeft over seq from base, as the library defines it.
Fold(c, base, seq) ==
    LET iter == CHOOSE g : g = [s \in SUBSET (DOMAIN seq) |->
                    IF s = {} THEN base ELSE Op(g[s \ {Top(s)}], seq[Top(s)], c)]
    IN  iter[DOMAIN seq]

IsList(seq) == Len(seq) \in Nat /\ DOMAIN seq = 1 .. Len(seq)

\* The states of the loop, from the one before the first pass.
IsRun(run, c, base, seq) ==
    /\ run[0] = base
    /\ \A k \in 1 .. Len(seq) : run[k] = Op(run[k - 1], seq[k], c)

\* stage[k] is kept by the loop as what is true after k passes.
Keeps(c, base, seq, stage) ==
    /\ IsList(seq)
    /\ base \in stage[0]
    /\ \A k \in 1 .. Len(seq) : \A s \in stage[k - 1] : Op(s, seq[k], c) \in stage[k]

\* As Keeps, for what is true of every state.
KeepsAll(c, base, seq, S) ==
    /\ IsList(seq)
    /\ base \in S
    /\ \A k \in 1 .. Len(seq) : \A s \in S : Op(s, seq[k], c) \in S

-----------------------------------------------------------------------------
(* Induction over the numbers, with sets in place of predicates.            *)

LEMMA LeastNat ==
    ASSUME NEW T \in SUBSET Nat, T # {}
    PROVE  \E n \in T : \A m \in T : n <= m
<1>1. PICK n \in T : \A m \in T : ~(<<m, n>> \in OpToRel(<, Nat))
  BY NatLessThanWellFounded, WFMin
<1>2. ASSUME NEW m \in T PROVE n <= m
  <2>1. m \in Nat /\ n \in Nat
    OBVIOUS
  <2>2. ~(m < n)
    BY <1>1, <2>1 DEF OpToRel
  <2> HIDE <1>1
  <2> QED
    BY <2>1, <2>2
<1> QED
  BY <1>2

LEMMA Induct ==
    ASSUME NEW T, 0 \in T, NEW n \in Nat, \A k \in 1 .. n : k - 1 \in T => k \in T
    PROVE  n \in T
<1> DEFINE bad == {k \in 0 .. n : k \notin T}
<1>1. SUFFICES ASSUME bad # {} PROVE FALSE
  OBVIOUS
<1>2. bad \in SUBSET Nat
  OBVIOUS
<1>3. PICK k \in bad : \A m \in bad : k <= m
  <2> HIDE DEF bad
  <2> QED
    BY <1>1, <1>2, LeastNat
<1>4. k # 0 /\ k - 1 \in 0 .. n /\ k - 1 \notin bad
  BY <1>3
<1> QED
  BY <1>3, <1>4

-----------------------------------------------------------------------------
(* The greatest element of a set of indices.                                *)

LEMMA TopIs ==
    ASSUME NEW n \in Nat, NEW s \in SUBSET (1 .. n), n \in s
    PROVE  Top(s) = n
<1>1. \A y \in s : n >= y
  OBVIOUS
<1>2. \A x \in s : (\A y \in s : x >= y) => x = n
  OBVIOUS
<1> QED
  BY <1>1, <1>2 DEF Top

LEMMA TopOf ==
    ASSUME NEW n \in Nat, NEW s \in SUBSET (1 .. n), s # {}
    PROVE  Top(s) \in s /\ s \in SUBSET (1 .. Top(s))
<1> DEFINE T == {b \in 0 .. n : \A i \in s : i <= b}
<1>1. PICK m \in T : \A b \in T : m <= b
  <2>1. n \in T /\ T \in SUBSET Nat
    OBVIOUS
  <2> HIDE DEF T
  <2> QED
    BY <2>1, LeastNat
<1>2. m \in s
  <2> SUFFICES ASSUME m \notin s PROVE FALSE
    OBVIOUS
  <2>1. PICK i \in s : TRUE
    OBVIOUS
  <2>2. m - 1 \in T
    BY <1>1, <2>1
  <2> QED
    BY <1>1, <2>2
<1>3. s \in SUBSET (1 .. m) /\ m \in Nat
  BY <1>1
<1>4. Top(s) = m
  BY <1>2, <1>3, TopIs
<1> QED
  BY <1>2, <1>3, <1>4

\* The maximum of an initial segment, and what is before it.
LEMMA Segment ==
    ASSUME NEW n \in Nat, NEW k \in 1 .. n
    PROVE  /\ 1 .. k \in SUBSET (1 .. n) /\ 1 .. k # {}
           /\ Top(1 .. k) = k /\ (1 .. k) \ {k} = 1 .. k - 1
<1>1. k \in Nat /\ 1 .. k \in SUBSET (1 .. k) /\ k \in 1 .. k
  OBVIOUS
<1>2. Top(1 .. k) = k
  BY <1>1, TopIs
<1>3. (1 .. k) \ {k} = 1 .. k - 1
  OBVIOUS
<1> QED
  BY <1>1, <1>2, <1>3

-----------------------------------------------------------------------------
(* The recursion of the fold has a solution, so CHOOSE picks one.           *)

\* g solves the recursion on the subsets of 1 .. m.
Solves(g, c, base, seq, m) ==
    /\ g = [s \in SUBSET (1 .. m) |-> g[s]]
    /\ g[{}] = base
    /\ \A k \in 1 .. m : \A s \in SUBSET (1 .. k) :
          k \in s => g[s] = Op(g[s \ {k}], seq[k], c)

LEMMA SolveOneMore ==
    ASSUME NEW c, NEW base, NEW seq, NEW k \in Nat \ {0}, NEW g, Solves(g, c, base, seq, k - 1)
    PROVE  \E h : Solves(h, c, base, seq, k)
<1> DEFINE h == [s \in SUBSET (1 .. k) |->
                    IF k \in s THEN Op(g[s \ {k}], seq[k], c) ELSE g[s]]
<1>1. /\ g[{}] = base
      /\ \A j \in 1 .. k - 1 : \A s \in SUBSET (1 .. j) :
            j \in s => g[s] = Op(g[s \ {j}], seq[j], c)
  BY DEF Solves
<1>3. \A s \in SUBSET (1 .. k) : h[s] = IF k \in s THEN Op(g[s \ {k}], seq[k], c) ELSE g[s]
  OBVIOUS
<1>4. h = [s \in SUBSET (1 .. k) |-> h[s]]
  OBVIOUS
<1>5. h[{}] = base
  BY <1>1, <1>3
<1> HIDE DEF h
<1>6. ASSUME NEW j \in 1 .. k, NEW s \in SUBSET (1 .. j), j \in s
      PROVE  h[s] = Op(h[s \ {j}], seq[j], c)
  <2>1. s \in SUBSET (1 .. k) /\ s \ {j} \in SUBSET (1 .. k)
    <3>1. \A i \in s : i \in 1 .. k
      OBVIOUS
    <3> QED
      BY <3>1
  <2>2. CASE j = k
    <3>1. h[s] = Op(g[s \ {k}], seq[k], c)
      BY <1>3, <1>6, <2>1, <2>2
    <3>2. h[s \ {k}] = g[s \ {k}]
      BY <1>3, <2>1, <2>2
    <3> QED
      BY <2>2, <3>1, <3>2
  <2>3. CASE j # k
    <3>1. j \in 1 .. k - 1
      BY <2>3
    <3>2. k \notin s
      BY <3>1
    <3>3. h[s] = g[s] /\ h[s \ {j}] = g[s \ {j}]
      BY <1>3, <2>1, <3>2
    <3>4. g[s] = Op(g[s \ {j}], seq[j], c)
      BY <1>1, <1>6, <3>1
    <3> QED
      BY <3>3, <3>4
  <2> QED
    BY <2>2, <2>3
<1>7. Solves(h, c, base, seq, k)
  BY <1>4, <1>5, <1>6 DEF Solves
<1> QED
  BY <1>7

LEMMA Solvable ==
    ASSUME NEW c, NEW base, NEW seq, NEW n \in Nat
    PROVE  \E g : Solves(g, c, base, seq, n)
<1> DEFINE T == {m \in 0 .. n : \E g : Solves(g, c, base, seq, m)}
<1>1. 0 \in T
  <2> DEFINE g == [s \in SUBSET (1 .. 0) |-> base]
  <2>1. g = [s \in SUBSET (1 .. 0) |-> g[s]] /\ g[{}] = base
    OBVIOUS
  <2> HIDE DEF g
  <2>2. Solves(g, c, base, seq, 0)
    BY <2>1 DEF Solves
  <2> QED
    BY <2>2
<1>2. ASSUME NEW k \in 1 .. n, k - 1 \in T PROVE k \in T
  <2>1. PICK g : Solves(g, c, base, seq, k - 1)
    BY <1>2
  <2>2. k \in Nat \ {0}
    OBVIOUS
  <2>3. \E h : Solves(h, c, base, seq, k)
    BY <2>1, <2>2, SolveOneMore
  <2> QED
    BY <2>3
<1> HIDE DEF T
<1>3. n \in T
  BY <1>1, <1>2, Induct
<1> QED
  BY <1>3 DEF T

-----------------------------------------------------------------------------
(* The rules.                                                               *)

\* A fold runs through the list.
LEMMA FoldRuns ==
    ASSUME NEW c, NEW base, NEW seq, IsList(seq)
    PROVE  \E run : IsRun(run, c, base, seq) /\ run[Len(seq)] = Fold(c, base, seq)
<1> DEFINE n == Len(seq)
           Body(g) == [s \in SUBSET (1 .. n) |->
                          IF s = {} THEN base ELSE Op(g[s \ {Top(s)}], seq[Top(s)], c)]
           it == CHOOSE g : g = Body(g)
           run == [k \in 0 .. n |-> it[1 .. k]]
<1>1. n \in Nat /\ DOMAIN seq = 1 .. n
  BY DEF IsList
<1>2. Fold(c, base, seq) = it[1 .. n]
  BY <1>1 DEF Fold
<1>3. \E g : g = Body(g)
  <2>1. PICK g : Solves(g, c, base, seq, n)
    <3> HIDE DEF n
    <3> QED
      BY <1>1, Solvable
  <2>2. ASSUME NEW s \in SUBSET (1 .. n)
        PROVE  g[s] = IF s = {} THEN base ELSE Op(g[s \ {Top(s)}], seq[Top(s)], c)
    <3>1. CASE s = {}
      BY <2>1, <3>1 DEF Solves
    <3>2. CASE s # {}
      <4>1. Top(s) \in s /\ s \in SUBSET (1 .. Top(s)) /\ Top(s) \in 1 .. n
        <5> HIDE DEF n
        <5> QED
          BY <1>1, <3>2, TopOf
      <4> QED
        BY <2>1, <3>2, <4>1 DEF Solves
    <3> QED
      BY <3>1, <3>2
  <2>3. g = [s \in SUBSET (1 .. n) |-> g[s]]
    BY <2>1 DEF Solves
  <2> QED
    BY <2>2, <2>3
<1>4. it = Body(it)
  BY <1>3
<1> HIDE DEF it
<1>5. it[{}] = base
  BY <1>4
<1>6. ASSUME NEW k \in 1 .. n PROVE it[1 .. k] = Op(it[1 .. k - 1], seq[k], c)
  <2>1. /\ 1 .. k \in SUBSET (1 .. n) /\ 1 .. k # {}
        /\ Top(1 .. k) = k /\ (1 .. k) \ {k} = 1 .. k - 1
    <3> HIDE DEF n
    <3> QED
      BY <1>1, Segment
  <2> QED
    BY <1>4, <2>1
<1>7. run[0] = base /\ run[n] = Fold(c, base, seq)
  <2>1. 1 .. 0 = {}
    OBVIOUS
  <2> QED
    BY <1>1, <1>2, <1>5, <2>1
<1>8. \A k \in 1 .. n : run[k] = Op(run[k - 1], seq[k], c)
  <2>1. \A k \in 1 .. n : k \in 0 .. n /\ k - 1 \in 0 .. n
    BY <1>1
  <2> QED
    BY <1>6, <2>1
<1> HIDE DEF run
<1> QED
  BY <1>7, <1>8 DEF IsRun

\* What holds before the loop and is kept by each pass holds after it.
LEMMA FoldReaches ==
    ASSUME NEW c, NEW base, NEW seq, NEW stage, Keeps(c, base, seq, stage)
    PROVE  Fold(c, base, seq) \in stage[Len(seq)]
<1>1. IsList(seq)
  BY DEF Keeps
<1>2. PICK run : IsRun(run, c, base, seq) /\ run[Len(seq)] = Fold(c, base, seq)
  BY <1>1, FoldRuns
<1> DEFINE T == {k \in 0 .. Len(seq) : run[k] \in stage[k]}
<1>3. 0 \in T /\ Len(seq) \in Nat
  BY <1>2 DEF IsRun, Keeps, IsList
<1>4. ASSUME NEW k \in 1 .. Len(seq), k - 1 \in T PROVE k \in T
  <2>1. run[k - 1] \in stage[k - 1] /\ run[k] = Op(run[k - 1], seq[k], c)
    BY <1>2, <1>4 DEF IsRun
  <2>2. run[k] \in stage[k]
    BY <2>1 DEF Keeps
  <2> QED
    BY <2>2
<1> HIDE DEF T
<1>5. Len(seq) \in T
  BY <1>3, <1>4, Induct
<1> QED
  BY <1>2, <1>5 DEF T

\* The same for what is true of every state of the loop.
LEMMA FoldStays ==
    ASSUME NEW c, NEW base, NEW seq, NEW S, KeepsAll(c, base, seq, S)
    PROVE  Fold(c, base, seq) \in S
<1> DEFINE stage == [k \in 0 .. Len(seq) |-> S]
<1>1. Len(seq) \in Nat
  BY DEF KeepsAll, IsList
<1>2. \A k \in 0 .. Len(seq) : stage[k] = S
  OBVIOUS
<1> HIDE DEF stage
<1>3. Keeps(c, base, seq, stage)
  <2>1. /\ IsList(seq) /\ base \in S
        /\ \A k \in 1 .. Len(seq) : \A s \in S : Op(s, seq[k], c) \in S
    BY DEF KeepsAll
  <2>2. stage[0] = S /\ \A k \in 1 .. Len(seq) : stage[k] = S /\ stage[k - 1] = S
    BY <1>1, <1>2
  <2>3. \A k \in 1 .. Len(seq) : \A s \in stage[k - 1] : Op(s, seq[k], c) \in stage[k]
    BY <2>1, <2>2
  <2> QED
    BY <2>1, <2>2, <2>3 DEF Keeps
<1>4. Fold(c, base, seq) \in stage[Len(seq)]
  BY <1>3, FoldReaches
<1> QED
  BY <1>1, <1>2, <1>4
==============================================================================
