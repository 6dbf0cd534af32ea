-------------------- MODULE RoomHistoryMembershipsProofs --------------------
(***************************************************************************)
(* Proofs about RoomHistory, for any rooms, sessions and length of time:   *)
(* the open entry is the room of the user, and a transaction leaves alone  *)
(* what the history says of the time before it began.                      *)
(*                                                                         *)
(* And about Memberships, for any intervals granted and entered, any       *)
(* number of rows, sessions and instants: the memberships of a user in a   *)
(* group never overlap; a grant gives all it was asked for; and a request  *)
(* that ran undisturbed gives and takes no other time.  They rest on what  *)
(* the operations on sorted sequences of intervals denote, for sequences   *)
(* of any length; and those operations, on half-open intervals, are the    *)
(* ones on sets of points.                                                 *)
(***************************************************************************)
EXTENDS RoomHistory, Memberships, FiniteSetTheorems, WellFoundedInduction, TLAPS

(* Recursive functions.                                                    *)

(* A set of natural numbers has a least one.                               *)
LEMMA LeastNumber ==
  ASSUME NEW T \in SUBSET Nat, T # {}
  PROVE  \E m \in T : \A n \in T : m <= n
<1>1. PICK m \in T : \A n \in T : ~(<<n, m>> \in OpToRel(<, Nat))
  BY WFMin, NatLessThanWellFounded, Zenon
<1>2. ASSUME NEW n \in T
      PROVE  m <= n
  <2>1. n \in Nat /\ m \in Nat
    OBVIOUS
  <2>2. n < m => <<n, m>> \in OpToRel(<, Nat)
    BY <2>1, Zenon DEF OpToRel
  <2>3. ~(n < m)
    BY <2>2, <1>1, Zenon
  <2> QED
    BY <2>1, <2>3
<1> QED
  BY <1>2

(* Induction up to N, over a set.                                          *)
LEMMA UpTo ==
  ASSUME NEW N \in Nat, NEW T,
         0 \in T, \A n \in 0 .. N : n + 1 \in 0 .. N /\ n \in T => n + 1 \in T
  PROVE  0 .. N \subseteq T
<1>1. SUFFICES ASSUME (0 .. N) \ T # {}
               PROVE  FALSE
  OBVIOUS
<1>2. PICK m \in (0 .. N) \ T : \A n \in (0 .. N) \ T : m <= n
  <2>1. (0 .. N) \ T \in SUBSET Nat
    OBVIOUS
  <2> HIDE <1>1
  <2> QED
    BY <2>1, <1>1, LeastNumber, Zenon
<1>3. m # 0 /\ m - 1 \in 0 .. N /\ (m - 1) + 1 = m
  BY <1>2
<1>4. m - 1 \in T
  BY <1>2, <1>3
<1> QED
  BY <1>2, <1>3, <1>4

(* g is computed from e in N steps, and stays within D.                    *)
Computes(g, N, e, F) == g = [n \in 0 .. N |-> IF n = 0 THEN e ELSE F[n][g[n - 1]]]
Stays(g, N, D)       == \A n \in 0 .. N : g[n] \in D[n]

(* What is defined step by step exists, if every step stays in its set.    *)
LEMMA StepByStep ==
  ASSUME NEW N \in Nat, NEW D, NEW F, NEW e,
         e \in D[0],
         \A k \in 1 .. N : \A x \in D[k - 1] : F[k][x] \in D[k]
  PROVE  \E g : Computes(g, N, e, F) /\ Stays(g, N, D)
<1> DEFINE IsUpTo(g, n) == /\ g = [k \in 0 .. n |-> IF k = 0 THEN e ELSE F[k][g[k - 1]]]
                           /\ \A k \in 0 .. n : g[k] \in D[k]
           T == {n \in 0 .. N : \E g : IsUpTo(g, n)}
<1>1. 0 \in T
  <2> DEFINE g == [k \in 0 .. 0 |-> e]
  <2>1. IsUpTo(g, 0)
    OBVIOUS
  <2>2. \E f : IsUpTo(f, 0)
    BY <2>1
  <2>3. 0 \in 0 .. N
    OBVIOUS
  <2> QED
    BY <2>2, <2>3
<1>2. ASSUME NEW n \in 0 .. N, n + 1 \in 0 .. N, n \in T
      PROVE  n + 1 \in T
  <2>1. PICK g : IsUpTo(g, n)
    BY <1>2
  <2> DEFINE h == [k \in 0 .. n + 1 |-> IF k = n + 1 THEN F[n + 1][g[n]] ELSE g[k]]
  <2>2. g[n] \in D[n]
    BY <2>1
  <2>3. F[n + 1][g[n]] \in D[n + 1]
    <3>1. n + 1 \in 1 .. N /\ (n + 1) - 1 = n
      BY <1>2
    <3> QED
      BY <3>1, <2>2
  <2>4. \A k \in 0 .. n + 1 : h[k] \in D[k]
    <3>1. ASSUME NEW k \in 0 .. n
          PROVE  h[k] \in D[k]
      BY <2>1
    <3>2. h[n + 1] \in D[n + 1]
      BY <2>3
    <3> QED
      BY <3>1, <3>2
  <2>5. \A k \in 0 .. n + 1 : h[k] = IF k = 0 THEN e ELSE F[k][h[k - 1]]
    <3>1. ASSUME NEW k \in 0 .. n
          PROVE  h[k] = IF k = 0 THEN e ELSE F[k][h[k - 1]]
      <4>1. h[k] = g[k]
        OBVIOUS
      <4>2. k # 0 => k - 1 \in 0 .. n /\ h[k - 1] = g[k - 1]
        OBVIOUS
      <4>3. g[k] = IF k = 0 THEN e ELSE F[k][g[k - 1]]
        BY <2>1
      <4> QED
        BY <4>1, <4>2, <4>3
    <3>2. h[n + 1] = F[n + 1][h[(n + 1) - 1]]
      OBVIOUS
    <3> QED
      BY <3>1, <3>2, SMTT(30)
  <2>6. IsUpTo(h, n + 1)
    BY <2>4, <2>5
  <2> QED
    BY <2>6, <1>2
<1>3. N \in T
  <2> HIDE DEF T
  <2>1. 0 .. N \subseteq T
    BY <1>1, <1>2, UpTo, Zenon
  <2> QED
    BY <2>1
<1> QED
  BY <1>3 DEF Computes, Stays

(* ... and then it does stay there.                                        *)
LEMMA StepsStay ==
  ASSUME NEW N \in Nat, NEW D, NEW g,
         g[0] \in D[0],
         \A n \in 1 .. N : g[n - 1] \in D[n - 1] => g[n] \in D[n]
  PROVE  \A n \in 0 .. N : g[n] \in D[n]
<1> DEFINE T == {n \in 0 .. N : g[n] \in D[n]}
<1>1. 0 \in T
  <2>1. 0 \in 0 .. N
    OBVIOUS
  <2> QED
    BY <2>1
<1>2. \A n \in 0 .. N : n + 1 \in 0 .. N /\ n \in T => n + 1 \in T
  <2>1. ASSUME NEW n \in 0 .. N, n + 1 \in 0 .. N, n \in T
        PROVE  n + 1 \in T
    <3>1. n + 1 \in 1 .. N /\ (n + 1) - 1 = n
      BY <2>1
    <3> QED
      BY <3>1, <2>1
  <2> QED
    BY <2>1
<1>3. 0 .. N \subseteq T
  <2> HIDE DEF T
  <2> QED
    BY <1>1, <1>2, UpTo, Zenon
<1> QED
  BY <1>3

----------------------------------------------------------------------------
USE InfinityAssumption

(* Bounds, intervals and sequences of them (helpers/interval.py).          *)

(* Sequences of intervals.                                                 *)
Ivals == Seq(IntervalType)

(* Bounds and intervals stay what they are under the operations on them.   *)
LEMMA BoundTyped ==
  ASSUME NEW v \in Value, NEW c \in BOOLEAN
  PROVE  Bnd(v, c) \in BoundType
BY DEF Bnd, BoundType, Value, Infinite

(* Two bounds make an interval unless the upper one is less.               *)
LEMMA IntervalTyped ==
  ASSUME NEW l \in BoundType, NEW u \in BoundType
  PROVE  /\ Ival(l, u) \in [lower: BoundType, upper: BoundType]
         /\ ~Less(u, l) => Ival(l, u) \in IntervalType
BY DEF Ival, IntervalType, WellFormed

(* The bounds of an interval: one that begins where it ends is at an       *)
(* instant.                                                                *)
LEMMA IntervalParts ==
  ASSUME NEW i \in IntervalType
  PROVE  /\ i.lower \in BoundType /\ i.upper \in BoundType
         /\ i.lower.value \in Value /\ i.upper.value \in Value
         /\ i.lower.closed \in BOOLEAN /\ i.upper.closed \in BOOLEAN
         /\ ~Less(i.upper, i.lower)
         /\ i.lower.value <= i.upper.value
         /\ i.lower.value = i.upper.value => i.lower.value \in Instant
BY DEF IntervalType, WellFormed, BoundType, Less, Value, Instant, Infinite

(* max and min give one of the two, and it bounds the other.               *)
LEMMA MinMaxTyped ==
  ASSUME NEW a \in BoundType, NEW b \in BoundType
  PROVE  /\ MaxBound(a, b) \in {a, b} /\ MinBound(a, b) \in {a, b}
         /\ MaxBound(a, b).value >= a.value /\ MaxBound(a, b).value >= b.value
         /\ MinBound(a, b).value <= a.value /\ MinBound(a, b).value <= b.value
BY DEF MaxBound, MinBound, Less, BoundType, Value, Infinite

(* closure, starting_from, join and intersect make intervals.              *)
LEMMA ClosureTyped ==
  ASSUME NEW i \in IntervalType
  PROVE  Closure(i) \in IntervalType
<1>1. /\ Bnd(i.lower.value, TRUE) \in BoundType
      /\ Bnd(i.upper.value, TRUE) \in BoundType
  BY IntervalParts, BoundTyped
<1>2. ~Less(Bnd(i.upper.value, TRUE), Bnd(i.lower.value, TRUE))
  BY IntervalParts DEF Less, Bnd, Value, Instant, Infinite
<1> QED
  BY <1>1, <1>2, IntervalTyped DEF Closure, Closed

LEMMA StartingFromTyped ==
  ASSUME NEW v \in Instant
  PROVE  StartingFrom(v) \in IntervalType
<1>1. /\ Bnd(v, TRUE) \in BoundType
      /\ Bnd(PosInf, FALSE) \in BoundType
  <2>1. v \in Value /\ PosInf \in Value
    BY DEF Value, Instant
  <2> QED
    BY <2>1, BoundTyped
<1>2. ~Less(Bnd(PosInf, FALSE), Bnd(v, TRUE))
  BY DEF Less, Bnd, Value, Instant, Infinite
<1> QED
  BY <1>1, <1>2, IntervalTyped DEF StartingFrom, ClosedOpen

LEMMA JoinTyped ==
  ASSUME NEW i \in IntervalType, NEW j \in IntervalType
  PROVE  Join(i, j) \in IntervalType
<1> DEFINE l == MinBound(i.lower, j.lower)
           u == MaxBound(i.upper, j.upper)
<1>1. /\ l \in BoundType /\ u \in BoundType
      /\ l.value \in Value /\ u.value \in Value
      /\ l.value <= i.lower.value /\ l.value <= j.lower.value
      /\ u.value >= i.upper.value /\ u.value >= j.upper.value
  <2>1. l \in {i.lower, j.lower} /\ u \in {i.upper, j.upper}
    BY IntervalParts, MinMaxTyped
  <2> QED
    BY <2>1, IntervalParts, MinMaxTyped
<1> HIDE DEF l, u
<1>2. ~Less(u, l)
  <2>1. i.lower.value \in Value /\ i.upper.value \in Value /\ i.lower.value <= i.upper.value
        /\ (i.lower.value = i.upper.value => i.lower.value \in Instant)
    BY IntervalParts
  <2> QED
    BY <1>1, <2>1 DEF Less, Value, Instant, Infinite
<1>3. Join(i, j) = Ival(l, u)
  BY DEF Join, l, u
<1> QED
  BY <1>1, <1>2, <1>3, IntervalTyped

LEMMA IntersectTyped ==
  ASSUME NEW i \in IntervalType, NEW j \in IntervalType, Overlaps(i, j)
  PROVE  Intersect(i, j) \in IntervalType
<1> DEFINE l == MaxBound(i.lower, j.lower)
           u == MinBound(i.upper, j.upper)
<1>1. /\ l \in {i.lower, j.lower} /\ u \in {i.upper, j.upper}
      /\ l \in BoundType /\ u \in BoundType
  <2>1. l \in {i.lower, j.lower} /\ u \in {i.upper, j.upper}
    BY IntervalParts, MinMaxTyped
  <2> QED
    BY <2>1, IntervalParts
<1> HIDE DEF l, u
<1>2. ~Less(u, l)
  BY <1>1, IntervalParts DEF Overlaps, Leq, Less, Value, Instant, Infinite
<1>3. Intersect(i, j) = Ival(l, u)
  BY DEF Intersect, l, u
<1> QED
  BY <1>1, <1>2, <1>3, IntervalTyped

(* A step of _join keeps a sequence of intervals one.                      *)
LEMMA AddedTyped ==
  ASSUME NEW acc \in Ivals, NEW i \in IntervalType
  PROVE  Added(acc, i) \in Ivals
<1>1. CASE IsEmpty(i)
  BY <1>1 DEF Added
<1>2. CASE ~IsEmpty(i) /\ acc # <<>> /\ Joins(Last(acc), i)
  <2>1. Last(acc) \in IntervalType /\ Front(acc) \in Ivals
    BY <1>2 DEF Last, Front, Ivals
  <2>2. Join(Last(acc), i) \in IntervalType
    BY <2>1, JoinTyped
  <2>3. Added(acc, i) = Append(Front(acc), Join(Last(acc), i))
    BY <1>2 DEF Added
  <2> QED
    BY <2>1, <2>2, <2>3 DEF Ivals
<1>3. CASE ~IsEmpty(i) /\ ~(acc # <<>> /\ Joins(Last(acc), i))
  <2>1. Added(acc, i) = Append(acc, i)
    BY <1>3 DEF Added
  <2> QED
    BY <2>1 DEF Ivals
<1> QED
  BY <1>1, <1>2, <1>3

(* The accumulator of _join after n of the intervals.                      *)
LEMMA JoinedTyped ==
  ASSUME NEW s \in Ivals
  PROVE  \E g : /\ JoinSorted(s) = g[Len(s)]
                /\ g[0] = <<>>
                /\ \A n \in 1 .. Len(s) : g[n] = Added(g[n - 1], s[n])
                /\ \A n \in 0 .. Len(s) : g[n] \in Ivals
<1> DEFINE N == Len(s)
           D == [n \in 0 .. N |-> Ivals]
           F == [n \in 1 .. N |-> [acc \in Ivals |-> Added(acc, s[n])]]
           e == <<>>
           IsIt(g) == g = [n \in 0 .. N |-> IF n = 0 THEN <<>> ELSE Added(g[n - 1], s[n])]
           j == CHOOSE g : IsIt(g)
<1>1. N \in Nat /\ \A n \in 1 .. N : s[n] \in IntervalType
  BY DEF Ivals
<1>2. PICK g : Computes(g, N, e, F) /\ Stays(g, N, D)
  <2>1. e \in D[0]
    BY <1>1 DEF Ivals
  <2>2. \A k \in 1 .. N : \A x \in D[k - 1] : F[k][x] \in D[k]
    <3>1. ASSUME NEW k \in 1 .. N, NEW x \in D[k - 1]
          PROVE  F[k][x] \in D[k]
      <4>1. x \in Ivals /\ D[k] = Ivals /\ s[k] \in IntervalType
        BY <1>1
      <4> QED
        BY <4>1, AddedTyped
    <3> QED
      BY <3>1
  <2>3. N \in Nat
    BY <1>1
  <2> HIDE DEF D, F, N, e
  <2> QED
    BY <2>1, <2>2, <2>3, StepByStep
<1>3. IsIt(g)
  <2>1. \A n \in 1 .. N : F[n][g[n - 1]] = Added(g[n - 1], s[n])
    <3>1. ASSUME NEW n \in 1 .. N
          PROVE  F[n][g[n - 1]] = Added(g[n - 1], s[n])
      <4>1. n - 1 \in 0 .. N
        BY <1>1
      <4>2. g[n - 1] \in Ivals
        BY <4>1, <1>2 DEF Stays
      <4> QED
        BY <4>2
    <3> QED
      BY <3>1
  <2>2. [n \in 0 .. N |-> IF n = 0 THEN <<>> ELSE F[n][g[n - 1]]]
        = [n \in 0 .. N |-> IF n = 0 THEN <<>> ELSE Added(g[n - 1], s[n])]
    <3>1. ASSUME NEW n \in 0 .. N
          PROVE  (IF n = 0 THEN <<>> ELSE F[n][g[n - 1]]) = (IF n = 0 THEN <<>> ELSE Added(g[n - 1], s[n]))
      <4>1. n # 0 => n \in 1 .. N
        BY <1>1
      <4> HIDE DEF F, D, N
      <4> QED
        BY <2>1, <4>1
    <3> HIDE DEF F, D, N
    <3> QED
      BY <3>1
  <2> HIDE DEF F, D, N
  <2> QED
    BY <1>2, <2>2 DEF Computes
<1>4. IsIt(j)
  BY <1>3
<1>5. JoinSorted(s) = j[N]
  BY DEF JoinSorted
<1> HIDE DEF j
<1>6. j[0] = <<>> /\ \A n \in 1 .. N : j[n] = Added(j[n - 1], s[n])
  BY <1>4, <1>1
<1>7. \A n \in 0 .. N : j[n] \in D[n]
  <2>1. j[0] \in D[0]
    BY <1>6, <1>1 DEF Ivals
  <2>2. ASSUME NEW n \in 1 .. N, j[n - 1] \in D[n - 1]
        PROVE  j[n] \in D[n]
    <3>1. j[n - 1] \in Ivals /\ D[n] = Ivals
      BY <2>2, <1>1
    <3>2. Added(j[n - 1], s[n]) \in Ivals
      BY <3>1, <1>1, AddedTyped
    <3> QED
      BY <3>1, <3>2, <1>6
  <2> HIDE DEF D, N, F
  <2> QED
    BY <1>1, <2>1, <2>2, StepsStay
<1> QED
  BY <1>5, <1>6, <1>7

(* ... and so does _join.                                                  *)
LEMMA JoinSortedTyped ==
  ASSUME NEW s \in Ivals
  PROVE  JoinSorted(s) \in Ivals
<1>1. Len(s) \in 0 .. Len(s)
  BY DEF Ivals
<1> QED
  BY <1>1, JoinedTyped

(* Where _chain_ordered may be after k steps.                              *)
ChainAfter(s, t, k) ==
  {w \in [left: 1 .. Len(s) + 1, right: 1 .. Len(t) + 1, out: Ivals] :
     /\ w.left + w.right = k + 2
     /\ Len(w.out) = k
     /\ ToSet(w.out) \subseteq ToSet(s) \cup ToSet(t)
     /\ w.right = 1 => ToSet(w.out) \subseteq ToSet(s)
     /\ w.right = 2 => \E p \in 1 .. k : /\ w.out[p] = t[1]
                                         /\ \A q \in (1 .. k) \ {p} : w.out[q] \in ToSet(s)}

(* What Append and ToSet do, for sequences over any set.                   *)
LEMMA AppendFacts ==
  ASSUME NEW S, NEW f \in Seq(S), NEW x \in S
  PROVE  /\ Append(f, x) \in Seq(S)
         /\ Len(Append(f, x)) = Len(f) + 1
         /\ \A n \in 1 .. Len(f) : Append(f, x)[n] = f[n]
         /\ Append(f, x)[Len(f) + 1] = x
         /\ ToSet(Append(f, x)) = ToSet(f) \cup {x}
<1>1. /\ Append(f, x) \in Seq(S)
      /\ Len(Append(f, x)) = Len(f) + 1
      /\ \A n \in 1 .. Len(f) : Append(f, x)[n] = f[n]
      /\ Append(f, x)[Len(f) + 1] = x
  OBVIOUS
<1>2. DOMAIN Append(f, x) = 1 .. Len(f) + 1 /\ DOMAIN f = 1 .. Len(f) /\ Len(f) \in Nat
  OBVIOUS
<1>3. ToSet(Append(f, x)) = ToSet(f) \cup {x}
  <2>1. ASSUME NEW y \in ToSet(Append(f, x))
        PROVE  y \in ToSet(f) \cup {x}
    BY <1>1, <1>2 DEF ToSet
  <2>2. ASSUME NEW y \in ToSet(f)
        PROVE  y \in ToSet(Append(f, x))
    <3>1. PICK n \in 1 .. Len(f) : y = f[n]
      BY <1>2 DEF ToSet
    <3>2. n \in DOMAIN Append(f, x) /\ y = Append(f, x)[n]
      BY <3>1, <1>1, <1>2
    <3> QED
      BY <3>2 DEF ToSet
  <2>3. x \in ToSet(Append(f, x))
    <3>1. Len(f) + 1 \in DOMAIN Append(f, x)
      BY <1>2
    <3> QED
      BY <3>1, <1>1 DEF ToSet
  <2> QED
    BY <2>1, <2>2, <2>3
<1> QED
  BY <1>1, <1>3

LEMMA ToSetFacts ==
  ASSUME NEW S, NEW f \in Seq(S)
  PROVE  /\ ToSet(f) \subseteq S
         /\ DOMAIN f = 1 .. Len(f)
         /\ Len(f) \in Nat
         /\ \A n \in 1 .. Len(f) : f[n] \in ToSet(f)
         /\ \A x \in ToSet(f) : \E n \in 1 .. Len(f) : x = f[n]
BY DEF ToSet

(* Every step of the merge keeps to that.                                  *)
LEMMA ChainStepStays ==
  ASSUME NEW s \in Ivals, NEW t \in Ivals, NEW k \in 1 .. Len(s) + Len(t),
         NEW w \in ChainAfter(s, t, k - 1)
  PROVE  ChainStep(s, t, w) \in ChainAfter(s, t, k)
<1> DEFINE v == ChainStep(s, t, w)
<1>1. /\ w.left \in 1 .. Len(s) + 1 /\ w.right \in 1 .. Len(t) + 1 /\ w.out \in Ivals
      /\ w.left + w.right = k + 1
      /\ Len(w.out) = k - 1
      /\ ToSet(w.out) \subseteq ToSet(s) \cup ToSet(t)
      /\ w.right = 1 => ToSet(w.out) \subseteq ToSet(s)
      /\ w.right = 2 => \E p \in 1 .. k - 1 : /\ w.out[p] = t[1]
                                              /\ \A q \in (1 .. k - 1) \ {p} : w.out[q] \in ToSet(s)
      /\ Len(s) \in Nat /\ Len(t) \in Nat /\ k \in Nat
  BY DEF ChainAfter, Ivals
<1>0. /\ w.left \in Nat /\ w.right \in Nat /\ w.left + w.right = k + 1 /\ k \in Nat
      /\ w.right # 1 => w.right > 1
  BY <1>1
<1>2. CASE w.left <= Len(s) /\ (w.right <= Len(t) => Precedes(s[w.left], t[w.right]))
  <2> DEFINE x == s[w.left]
  <2>1. x \in IntervalType /\ x \in ToSet(s)
    <3>1. w.left \in 1 .. Len(s)
      BY <1>1, <1>2
    <3> QED
      BY <3>1, ToSetFacts DEF Ivals
  <2>2. v = [left |-> w.left + 1, right |-> w.right, out |-> Append(w.out, x)]
    BY <1>2 DEF ChainStep
  <2> HIDE DEF x, v
  <2>3. /\ Append(w.out, x) \in Ivals
        /\ Len(Append(w.out, x)) = k
        /\ \A n \in 1 .. k - 1 : Append(w.out, x)[n] = w.out[n]
        /\ Append(w.out, x)[k] = x
        /\ ToSet(Append(w.out, x)) = ToSet(w.out) \cup {x}
    BY <1>1, <2>1, AppendFacts DEF Ivals
  <2>4. /\ v.left = w.left + 1 /\ v.right = w.right /\ v.out = Append(w.out, x)
        /\ v.left \in 1 .. Len(s) + 1
        /\ v \in [left: 1 .. Len(s) + 1, right: 1 .. Len(t) + 1, out: Ivals]
    BY <2>2, <2>3, <1>1, <1>2, SMTT(30)
  <2>5. v.right = 2 => \E p \in 1 .. k : /\ v.out[p] = t[1]
                                         /\ \A q \in (1 .. k) \ {p} : v.out[q] \in ToSet(s)
    <3> SUFFICES ASSUME v.right = 2
                 PROVE  \E p \in 1 .. k : /\ v.out[p] = t[1]
                                          /\ \A q \in (1 .. k) \ {p} : v.out[q] \in ToSet(s)
      OBVIOUS
    <3>1. PICK p \in 1 .. k - 1 : /\ w.out[p] = t[1]
                                  /\ \A q \in (1 .. k - 1) \ {p} : w.out[q] \in ToSet(s)
      BY <1>1, <2>4
    <3>2. v.out[p] = t[1]
      BY <3>1, <2>3, <2>4
    <3>3. ASSUME NEW q \in (1 .. k) \ {p}
          PROVE  v.out[q] \in ToSet(s)
      <4>1. CASE q = k
        BY <4>1, <2>1, <2>3, <2>4
      <4>2. CASE q # k
        <5>1. q \in (1 .. k - 1) \ {p}
          BY <4>2
        <5> QED
          BY <5>1, <3>1, <2>3, <2>4
      <4> QED
        BY <4>1, <4>2
    <3> QED
      BY <3>2, <3>3
  <2>6. v.left + v.right = k + 2
    <3>1. v.left = w.left + 1 /\ v.right = w.right
      BY <2>2
    <3> QED
      BY <3>1, <1>0
  <2>7. ToSet(v.out) \subseteq ToSet(s) \cup ToSet(t)
    BY <2>3, <2>4, <2>1, <1>1
  <2>8. v.right = 1 => ToSet(v.out) \subseteq ToSet(s)
    BY <2>3, <2>4, <2>1, <1>1
  <2> QED
    BY <2>3, <2>4, <2>5, <2>6, <2>7, <2>8 DEF ChainAfter, v
<1>3. CASE ~(w.left <= Len(s) /\ (w.right <= Len(t) => Precedes(s[w.left], t[w.right])))
  <2> DEFINE x == t[w.right]
  <2>0. w.right \in 1 .. Len(t)
    BY <1>1, <1>3
  <2>1. x \in IntervalType /\ x \in ToSet(t)
    BY <2>0, ToSetFacts DEF Ivals
  <2>2. v = [left |-> w.left, right |-> w.right + 1, out |-> Append(w.out, x)]
    BY <1>3 DEF ChainStep
  <2>11. w.right = 1 => x = t[1]
    OBVIOUS
  <2> HIDE DEF x, v
  <2>3. /\ Append(w.out, x) \in Ivals
        /\ Len(Append(w.out, x)) = k
        /\ \A n \in 1 .. k - 1 : Append(w.out, x)[n] = w.out[n]
        /\ Append(w.out, x)[k] = x
        /\ ToSet(Append(w.out, x)) = ToSet(w.out) \cup {x}
    BY <1>1, <2>1, AppendFacts DEF Ivals
  <2>4. /\ v.left = w.left /\ v.right = w.right + 1 /\ v.out = Append(w.out, x)
        /\ v.right \in 1 .. Len(t) + 1
        /\ v \in [left: 1 .. Len(s) + 1, right: 1 .. Len(t) + 1, out: Ivals]
    BY <2>2, <2>3, <1>1, <2>0, SMTT(30)
  <2>5. v.right = 2 => \E p \in 1 .. k : /\ v.out[p] = t[1]
                                         /\ \A q \in (1 .. k) \ {p} : v.out[q] \in ToSet(s)
    <3> SUFFICES ASSUME v.right = 2
                 PROVE  \E p \in 1 .. k : /\ v.out[p] = t[1]
                                          /\ \A q \in (1 .. k) \ {p} : v.out[q] \in ToSet(s)
      OBVIOUS
    <3>1. w.right = 1
      BY <2>4, <1>0
    <3>2. v.out[k] = t[1] /\ k \in 1 .. k
      BY <3>1, <2>3, <2>4, <2>11, <1>1
    <3>3. \A q \in (1 .. k) \ {k} : v.out[q] \in ToSet(s)
      <4>1. ASSUME NEW q \in 1 .. k - 1
            PROVE  v.out[q] \in ToSet(s)
        <5>1. w.out[q] \in ToSet(w.out)
          BY <1>1, ToSetFacts DEF Ivals
        <5> QED
          BY <5>1, <3>1, <1>1, <2>3, <2>4
      <4>2. \A q \in (1 .. k) \ {k} : q \in 1 .. k - 1
        OBVIOUS
      <4> QED
        BY <4>1, <4>2
    <3> QED
      BY <3>2, <3>3
  <2>6. v.left + v.right = k + 2 /\ v.right # 1
    <3>1. v.left = w.left /\ v.right = w.right + 1
      BY <2>2
    <3> QED
      BY <3>1, <1>0
  <2>7. ToSet(v.out) \subseteq ToSet(s) \cup ToSet(t)
    BY <2>3, <2>4, <2>1, <1>1
  <2> QED
    BY <2>3, <2>4, <2>5, <2>6, <2>7 DEF ChainAfter, v
<1> QED
  BY <1>2, <1>3

(* The merge is computed step by step, each taking one interval.           *)
LEMMA ChainWalk ==
  ASSUME NEW s \in Ivals, NEW t \in Ivals
  PROVE  \E g : /\ ChainOrdered(s, t) = g[Len(s) + Len(t)].out
                /\ g[0] = WalkBegin
                /\ \A n \in 1 .. Len(s) + Len(t) : g[n] = ChainStep(s, t, g[n - 1])
                /\ \A n \in 0 .. Len(s) + Len(t) : g[n] \in ChainAfter(s, t, n)
<1> DEFINE N == Len(s) + Len(t)
           D == [n \in 0 .. N |-> ChainAfter(s, t, n)]
           F == [n \in 1 .. N |-> [w \in ChainAfter(s, t, n - 1) |-> ChainStep(s, t, w)]]
           e == WalkBegin
           IsIt(g) == g = [n \in 0 .. N |-> IF n = 0 THEN WalkBegin ELSE ChainStep(s, t, g[n - 1])]
           j == CHOOSE g : IsIt(g)
<1>1. N \in Nat /\ Len(s) \in Nat /\ Len(t) \in Nat
  BY DEF Ivals
<1>2. e \in D[0]
  <2>1. WalkBegin \in ChainAfter(s, t, 0)
    <3>1. /\ WalkBegin.left = 1 /\ WalkBegin.right = 1 /\ WalkBegin.out = <<>>
          /\ WalkBegin \in [left: 1 .. Len(s) + 1, right: 1 .. Len(t) + 1, out: Ivals]
      BY <1>1 DEF WalkBegin, Ivals
    <3>2. Len(<<>>) = 0 /\ ToSet(<<>>) = {}
      BY DEF ToSet
    <3> QED
      BY <3>1, <3>2 DEF ChainAfter
  <2> QED
    BY <2>1, <1>1
<1>3. PICK g : Computes(g, N, e, F) /\ Stays(g, N, D)
  <2>2. \A k \in 1 .. N : \A x \in D[k - 1] : F[k][x] \in D[k]
    <3>1. ASSUME NEW k \in 1 .. N, NEW x \in D[k - 1]
          PROVE  F[k][x] \in D[k]
      <4>1. x \in ChainAfter(s, t, k - 1) /\ D[k] = ChainAfter(s, t, k)
        BY <1>1
      <4> QED
        BY <4>1, ChainStepStays
    <3> QED
      BY <3>1
  <2> HIDE DEF D, F, N, e
  <2> QED
    BY <1>1, <1>2, <2>2, StepByStep
<1>4. IsIt(g)
  <2>1. ASSUME NEW n \in 0 .. N
        PROVE  (IF n = 0 THEN e ELSE F[n][g[n - 1]]) = (IF n = 0 THEN WalkBegin ELSE ChainStep(s, t, g[n - 1]))
    <3>1. n # 0 => n \in 1 .. N /\ n - 1 \in 0 .. N
      BY <1>1
    <3>2. n # 0 => g[n - 1] \in ChainAfter(s, t, n - 1)
      BY <3>1, <1>3 DEF Stays
    <3> QED
      BY <3>1, <3>2
  <2> HIDE DEF F, D, N, e
  <2> QED
    BY <1>3, <2>1 DEF Computes
<1>5. IsIt(j)
  BY <1>4
<1>6. ChainOrdered(s, t) = j[N].out
  BY DEF ChainOrdered
<1> HIDE DEF j
<1>7. j[0] = WalkBegin /\ \A n \in 1 .. N : j[n] = ChainStep(s, t, j[n - 1])
  BY <1>5, <1>1
<1>8. \A n \in 0 .. N : j[n] \in D[n]
  <2>1. j[0] \in D[0]
    BY <1>7, <1>2
  <2>2. ASSUME NEW n \in 1 .. N, j[n - 1] \in D[n - 1]
        PROVE  j[n] \in D[n]
    <3>1. j[n - 1] \in ChainAfter(s, t, n - 1) /\ D[n] = ChainAfter(s, t, n)
      BY <2>2, <1>1
    <3>2. ChainStep(s, t, j[n - 1]) \in ChainAfter(s, t, n)
      BY <3>1, ChainStepStays
    <3> QED
      BY <3>1, <3>2, <1>7
  <2> HIDE DEF D, N, F
  <2> QED
    BY <1>1, <2>1, <2>2, StepsStay
<1>9. \A n \in 0 .. N : j[n] \in ChainAfter(s, t, n)
  BY <1>8
<1> HIDE DEF D, F, e, IsIt
<1> QED
  BY <1>6, <1>7, <1>9

(* The merge holds what the two sequences hold; with one interval on the   *)
(* right, all but one of its places hold what comes from the left.         *)
LEMMA ChainFacts ==
  ASSUME NEW s \in Ivals, NEW t \in Ivals
  PROVE  /\ ChainOrdered(s, t) \in Ivals
         /\ ToSet(ChainOrdered(s, t)) \subseteq ToSet(s) \cup ToSet(t)
         /\ Len(t) = 1 => \E p \in 1 .. Len(ChainOrdered(s, t)) :
              /\ ChainOrdered(s, t)[p] = t[1]
              /\ \A q \in (1 .. Len(ChainOrdered(s, t))) \ {p} : ChainOrdered(s, t)[q] \in ToSet(s)
<1> DEFINE N == Len(s) + Len(t)
<1>1. N \in Nat /\ Len(s) \in Nat /\ Len(t) \in Nat
  BY DEF Ivals
<1>2. PICK j : ChainOrdered(s, t) = j[N].out /\ \A n \in 0 .. N : j[n] \in ChainAfter(s, t, n)
  BY ChainWalk
<1>3. j[N] \in ChainAfter(s, t, N)
  BY <1>1, <1>2
<1>4. Len(t) = 1 => j[N].right = 2
  <2> SUFFICES ASSUME Len(t) = 1
               PROVE  j[N].right = 2
    OBVIOUS
  <2>1. /\ j[N].left \in 1 .. Len(s) + 1 /\ j[N].right \in 1 .. 2
        /\ j[N].left + j[N].right = Len(s) + 1 + 2
    BY <1>3 DEF ChainAfter
  <2> QED
    BY <2>1, <1>1
<1> HIDE DEF N
<1> QED
  BY <1>2, <1>3, <1>4 DEF ChainAfter

(* The merge leaves nothing out: what lies before its two places has been  *)
(* taken,                                                                  *)
TakenIn(s, t, w) == /\ \A m \in 1 .. w.left - 1 : s[m] \in ToSet(w.out)
                    /\ \A m \in 1 .. w.right - 1 : t[m] \in ToSet(w.out)

LEMMA ChainStepTakes ==
  ASSUME NEW s \in Ivals, NEW t \in Ivals, NEW k \in 1 .. Len(s) + Len(t),
         NEW w \in ChainAfter(s, t, k - 1), TakenIn(s, t, w)
  PROVE  TakenIn(s, t, ChainStep(s, t, w))
<1> DEFINE v == ChainStep(s, t, w)
<1>1. /\ w.left \in 1 .. Len(s) + 1 /\ w.right \in 1 .. Len(t) + 1 /\ w.out \in Ivals
      /\ w.left + w.right = k + 1
      /\ Len(s) \in Nat /\ Len(t) \in Nat /\ k \in Nat
  BY DEF ChainAfter, Ivals
<1>2. CASE w.left <= Len(s) /\ (w.right <= Len(t) => Precedes(s[w.left], t[w.right]))
  <2>0. w.left \in 1 .. Len(s)
    BY <1>1, <1>2
  <2>1. s[w.left] \in IntervalType
    BY <2>0, ToSetFacts DEF Ivals
  <2>2. v.left = w.left + 1 /\ v.right = w.right /\ v.out = Append(w.out, s[w.left])
    BY <1>2 DEF ChainStep
  <2>3. ToSet(v.out) = ToSet(w.out) \cup {s[w.left]}
    BY <1>1, <2>1, <2>2, AppendFacts DEF Ivals
  <2> HIDE DEF v
  <2> DEFINE l == w.left
  <2>4. \A m \in 1 .. v.left - 1 : m \in 1 .. l - 1 \/ m = l
    <3>1. l \in Int /\ v.left = l + 1
      BY <1>1, <2>2
    <3> HIDE DEF l
    <3> QED
      BY <3>1
  <2> QED
    BY <2>2, <2>3, <2>4 DEF TakenIn, v
<1>3. CASE ~(w.left <= Len(s) /\ (w.right <= Len(t) => Precedes(s[w.left], t[w.right])))
  <2>0. w.right \in 1 .. Len(t)
    <3> DEFINE l == w.left
               r == w.right
    <3>1. l \in 1 .. Len(s) + 1 /\ r \in 1 .. Len(t) + 1 /\ l + r = k + 1
      BY <1>1
    <3>2. l <= Len(s) => r <= Len(t)
      BY <1>3
    <3>3. k <= Len(s) + Len(t) /\ k \in Nat /\ Len(s) \in Nat /\ Len(t) \in Nat
      BY <1>1
    <3> HIDE DEF l, r
    <3>4. r <= Len(t)
      BY <3>1, <3>2, <3>3
    <3>5. r \in 1 .. Len(t)
      BY <3>1, <3>4
    <3> QED
      BY <3>5 DEF r
  <2>1. t[w.right] \in IntervalType
    BY <2>0, ToSetFacts DEF Ivals
  <2>2. v.left = w.left /\ v.right = w.right + 1 /\ v.out = Append(w.out, t[w.right])
    BY <1>3 DEF ChainStep
  <2>3. ToSet(v.out) = ToSet(w.out) \cup {t[w.right]}
    BY <1>1, <2>1, <2>2, AppendFacts DEF Ivals
  <2> HIDE DEF v
  <2> DEFINE r == w.right
  <2>4. \A m \in 1 .. v.right - 1 : m \in 1 .. r - 1 \/ m = r
    <3>1. r \in Int /\ v.right = r + 1
      BY <1>1, <2>2
    <3> HIDE DEF r
    <3> QED
      BY <3>1
  <2> QED
    BY <2>2, <2>3, <2>4 DEF TakenIn, v
<1> QED
  BY <1>2, <1>3

(* ... and at the end that is all there is.                                *)
LEMMA ChainTakesAll ==
  ASSUME NEW s \in Ivals, NEW t \in Ivals
  PROVE  ToSet(s) \cup ToSet(t) \subseteq ToSet(ChainOrdered(s, t))
<1> DEFINE N == Len(s) + Len(t)
<1>1. N \in Nat /\ Len(s) \in Nat /\ Len(t) \in Nat
  BY DEF Ivals
<1>2. PICK j : /\ ChainOrdered(s, t) = j[N].out
               /\ j[0] = WalkBegin
               /\ \A n \in 1 .. N : j[n] = ChainStep(s, t, j[n - 1])
               /\ \A n \in 0 .. N : j[n] \in ChainAfter(s, t, n)
  BY ChainWalk
<1> DEFINE D == [n \in 0 .. N |-> {w \in ChainAfter(s, t, n) : TakenIn(s, t, w)}]
<1>3. \A n \in 0 .. N : j[n] \in D[n]
  <2>1. j[0] \in D[0]
    <3>1. j[0] \in ChainAfter(s, t, 0) /\ 0 \in 0 .. N
      BY <1>1, <1>2
    <3>2. TakenIn(s, t, WalkBegin)
      BY DEF TakenIn, WalkBegin
    <3> QED
      BY <3>1, <3>2, <1>2
  <2>2. ASSUME NEW n \in 1 .. N, j[n - 1] \in D[n - 1]
        PROVE  j[n] \in D[n]
    <3>1. n - 1 \in 0 .. N /\ n \in 0 .. N
      BY <1>1
    <3>2. j[n - 1] \in ChainAfter(s, t, n - 1) /\ TakenIn(s, t, j[n - 1])
      BY <2>2, <3>1
    <3>3. j[n] = ChainStep(s, t, j[n - 1]) /\ j[n] \in ChainAfter(s, t, n)
      BY <3>1, <1>2
    <3>4. TakenIn(s, t, j[n])
      BY <3>2, <3>3, ChainStepTakes
    <3> QED
      BY <3>1, <3>3, <3>4
  <2> HIDE DEF D, N
  <2> QED
    BY <1>1, <2>1, <2>2, StepsStay
<1>4. j[N] \in ChainAfter(s, t, N) /\ TakenIn(s, t, j[N])
  BY <1>1, <1>3
<1>5. j[N].left = Len(s) + 1 /\ j[N].right = Len(t) + 1
  <2> DEFINE l == j[N].left
             r == j[N].right
  <2>1. l \in 1 .. Len(s) + 1 /\ r \in 1 .. Len(t) + 1 /\ l + r = Len(s) + Len(t) + 2
    BY <1>4, <1>1 DEF ChainAfter
  <2> HIDE DEF l, r, N
  <2>2. l = Len(s) + 1 /\ r = Len(t) + 1
    BY <2>1, <1>1
  <2> QED
    BY <2>2 DEF l, r
<1>6. /\ \A m \in 1 .. Len(s) : s[m] \in ToSet(ChainOrdered(s, t))
      /\ \A m \in 1 .. Len(t) : t[m] \in ToSet(ChainOrdered(s, t))
  BY <1>1, <1>2, <1>4, <1>5 DEF TakenIn
<1> QED
  BY <1>6, ToSetFacts DEF Ivals

(* Some interval of a set may stand last when the set is sorted.           *)
LEMMA LastOfAll ==
  ASSUME NEW S \in SUBSET IntervalType, S # {}
  PROVE  \E m \in S : \A x \in S : Precedes(m, x) => Precedes(x, m)
<1> DEFINE A == {PosInf - i.lower.value : i \in S}
<1>1. PICK m1 \in S : \A i \in S : i.lower.value <= m1.lower.value
  <2>1. A \in SUBSET Nat
    <3>1. ASSUME NEW i \in S
          PROVE  PosInf - i.lower.value \in Nat
      <4>0. i \in IntervalType
        OBVIOUS
      <4>1. i.lower.value \in Value
        BY <4>0, IntervalParts
      <4> QED
        BY <4>1 DEF Value
    <3> QED
      BY <3>1
  <2>2. A # {}
    OBVIOUS
  <2>3. PICK a \in A : \A b \in A : a <= b
    <3> HIDE DEF A
    <3> QED
      BY <2>1, <2>2, LeastNumber, Zenon
  <2>4. PICK m1 \in S : a = PosInf - m1.lower.value
    OBVIOUS
  <2>5. ASSUME NEW i \in S
        PROVE  i.lower.value <= m1.lower.value
    <3>1. PosInf - i.lower.value \in A
      OBVIOUS
    <3>0. i \in IntervalType /\ m1 \in IntervalType
      OBVIOUS
    <3>2. i.lower.value \in Value /\ m1.lower.value \in Value
      BY <3>0, IntervalParts
    <3>3. PosInf - m1.lower.value <= PosInf - i.lower.value
      BY <2>3, <2>4, <3>1
    <3>4. \A x, y \in Value : PosInf - y <= PosInf - x => x <= y
      BY DEF Value
    <3> QED
      BY <3>2, <3>3, <3>4
  <2> QED
    BY <2>5
<1> DEFINE S2 == {i \in S : i.lower.value = m1.lower.value}
           B == {PosInf - i.upper.value : i \in S2}
<1>2. PICK m \in S2 : \A i \in S2 : i.upper.value <= m.upper.value
  <2>1. B \in SUBSET Nat
    <3>1. ASSUME NEW i \in S
          PROVE  PosInf - i.upper.value \in Nat
      <4>0. i \in IntervalType
        OBVIOUS
      <4>1. i.upper.value \in Value
        BY <4>0, IntervalParts
      <4> QED
        BY <4>1 DEF Value
    <3> QED
      BY <3>1
  <2>2. B # {}
    OBVIOUS
  <2>3. PICK a \in B : \A b \in B : a <= b
    <3> HIDE DEF B
    <3> QED
      BY <2>1, <2>2, LeastNumber, Zenon
  <2>4. PICK m \in S2 : a = PosInf - m.upper.value
    OBVIOUS
  <2>5. ASSUME NEW i \in S2
        PROVE  i.upper.value <= m.upper.value
    <3>1. PosInf - i.upper.value \in B
      OBVIOUS
    <3>0. i \in IntervalType /\ m \in IntervalType
      OBVIOUS
    <3>2. i.upper.value \in Value /\ m.upper.value \in Value
      BY <3>0, IntervalParts
    <3>3. PosInf - m.upper.value <= PosInf - i.upper.value
      BY <2>3, <2>4, <3>1
    <3>4. \A x, y \in Value : PosInf - y <= PosInf - x => x <= y
      BY DEF Value
    <3> QED
      BY <3>2, <3>3, <3>4
  <2> QED
    BY <2>5
<1>3. ASSUME NEW x \in S, Precedes(m, x)
      PROVE  Precedes(x, m)
  <2>1. /\ x.lower.value \in Value /\ m.lower.value \in Value
        /\ x.upper.value \in Value /\ m.upper.value \in Value
    BY IntervalParts
  <2>2. x.lower.value <= m.lower.value
    BY <1>1
  <2>3. CASE Less(m.lower, x.lower)
    BY <2>1, <2>2, <2>3 DEF Less, Precedes, Value
  <2>4. CASE m.lower = x.lower /\ Less(m.upper, x.upper)
    <3>1. x.upper.value <= m.upper.value
      BY <2>4, <1>2
    <3> QED
      BY <2>1, <2>4, <3>1 DEF Less, Precedes, Value
  <2> QED
    BY <1>3, <2>3, <2>4 DEF Precedes
<1> QED
  BY <1>3

(* Two elements stand in the wrong order only if each precedes the other.  *)
InOrder(s) == \A m, n \in DOMAIN s : m < n /\ Precedes(s[n], s[m]) => Precedes(s[m], s[n])

(* Any finite set of intervals can be brought in order.                    *)
LEMMA SortedExists ==
  ASSUME NEW N \in Nat
  PROVE  \A S \in SUBSET IntervalType : IsFiniteSet(S) /\ Cardinality(S) = N =>
           \E s \in [1 .. N -> S] : ToSet(s) = S /\ InOrder(s)
<1> DEFINE Sorts(n) == \A S \in SUBSET IntervalType : IsFiniteSet(S) /\ Cardinality(S) = n =>
                         \E s \in [1 .. n -> S] : ToSet(s) = S /\ InOrder(s)
           T == {n \in 0 .. N : Sorts(n)}
<1>1. 0 \in T
  <2>1. Sorts(0)
    <3>1. ASSUME NEW S \in SUBSET IntervalType, IsFiniteSet(S), Cardinality(S) = 0
          PROVE  \E s \in [1 .. 0 -> S] : ToSet(s) = S /\ InOrder(s)
      <4>1. S = {}
        BY <3>1, FS_EmptySet
      <4> DEFINE s == [n \in 1 .. 0 |-> n]
      <4>2. s \in [1 .. 0 -> S] /\ ToSet(s) = S /\ InOrder(s)
        BY <4>1 DEF ToSet, InOrder
      <4> QED
        BY <4>2
    <3> QED
      BY <3>1
  <2>2. 0 \in 0 .. N
    OBVIOUS
  <2> QED
    BY <2>1, <2>2
<1>2. ASSUME NEW n \in 0 .. N, n + 1 \in 0 .. N, n \in T
      PROVE  n + 1 \in T
  <2>1. Sorts(n)
    BY <1>2
  <2>2. ASSUME NEW S \in SUBSET IntervalType, IsFiniteSet(S), Cardinality(S) = n + 1
        PROVE  \E s \in [1 .. n + 1 -> S] : ToSet(s) = S /\ InOrder(s)
    <3>1. S # {}
      BY <2>2, FS_EmptySet
    <3>2. PICK m \in S : \A x \in S : Precedes(m, x) => Precedes(x, m)
      <4> HIDE DEF T, Sorts
      <4> QED
        BY <3>1, LastOfAll
    <3>3. IsFiniteSet(S \ {m}) /\ Cardinality(S \ {m}) = n
      BY <2>2, FS_RemoveElement
    <3>4. PICK r \in [1 .. n -> S \ {m}] : ToSet(r) = S \ {m} /\ InOrder(r)
      BY <2>1, <3>3
    <3> DEFINE s == [k \in 1 .. n + 1 |-> IF k = n + 1 THEN m ELSE r[k]]
    <3>5. s \in [1 .. n + 1 -> S] /\ \A k \in 1 .. n : k \in 1 .. n + 1 /\ s[k] = r[k] /\ s[k] \in S
      OBVIOUS
    <3>6. s[n + 1] = m /\ n + 1 \in 1 .. n + 1
      OBVIOUS
    <3>7. ToSet(s) = S
      <4>1. ASSUME NEW x \in S
            PROVE  x \in ToSet(s)
        <5>1. CASE x = m
          BY <5>1, <3>6, <3>5 DEF ToSet
        <5>2. CASE x # m
          <6>1. PICK k \in 1 .. n : x = r[k]
            BY <5>2, <3>4 DEF ToSet
          <6> QED
            BY <6>1, <3>5 DEF ToSet
        <5> QED
          BY <5>1, <5>2
      <4>2. ToSet(s) \subseteq S
        BY <3>5 DEF ToSet
      <4> QED
        BY <4>1, <4>2
    <3>8. InOrder(s)
      <4>1. ASSUME NEW a \in 1 .. n + 1, NEW b \in 1 .. n + 1, a < b, Precedes(s[b], s[a])
            PROVE  Precedes(s[a], s[b])
        <5>1. a \in 1 .. n
          BY <4>1
        <5>2. CASE b = n + 1
          BY <5>1, <5>2, <3>2, <3>5, <3>6, <4>1
        <5>3. CASE b # n + 1
          <6>1. b \in 1 .. n
            BY <5>3
          <6>2. s[a] = r[a] /\ s[b] = r[b]
            BY <6>1, <5>1, <3>5
          <6> HIDE DEF s
          <6> QED
            BY <6>1, <6>2, <5>1, <4>1, <3>4 DEF InOrder
        <5> QED
          BY <5>2, <5>3
      <4> QED
        BY <4>1, <3>5 DEF InOrder
    <3> QED
      BY <3>5, <3>7, <3>8
  <2> QED
    BY <2>2, <1>2
<1>3. 0 .. N \subseteq T
  <2> HIDE DEF T
  <2> QED
    BY <1>1, <1>2, UpTo
<1>4. N \in T
  BY <1>3
<1> QED
  BY <1>4

(* ... which sorted does.                                                  *)
LEMMA SortedFacts ==
  ASSUME NEW S \in SUBSET IntervalType, IsFiniteSet(S)
  PROVE  /\ SortedSeq(S) \in Ivals
         /\ ToSet(SortedSeq(S)) = S
         /\ InOrder(SortedSeq(S))
<1>1. Cardinality(S) \in Nat
  BY FS_CardinalityType
<1>2. \E s \in [1 .. Cardinality(S) -> S] : ToSet(s) = S /\ InOrder(s)
  BY <1>1, SortedExists
<1>3. SortedSeq(S) \in [1 .. Cardinality(S) -> S] /\ ToSet(SortedSeq(S)) = S /\ InOrder(SortedSeq(S))
  BY <1>2 DEF SortedSeq, InOrder
<1>4. SortedSeq(S) \in Seq(S)
  BY <1>1, <1>3
<1>5. SortedSeq(S) \in Seq(IntervalType)
  BY <1>4
<1> QED
  BY <1>3, <1>5 DEF Ivals

(* The elements of a finite set in some order, each once.                  *)
LEMMA InSomeOrder ==
  ASSUME NEW S, IsFiniteSet(S)
  PROVE  /\ SetToSeq(S) \in Seq(S)
         /\ \A m, n \in DOMAIN SetToSeq(S) : m # n => SetToSeq(S)[m] # SetToSeq(S)[n]
<1>1. Cardinality(S) \in Nat /\ ExistsBijection(1 .. Cardinality(S), S)
  BY FS_CardinalityType
<1>2. \E f \in [1 .. Cardinality(S) -> S] : IsInjective(f)
  BY <1>1 DEF ExistsBijection, Bijection, Injection, IsInjective
<1>3. SetToSeq(S) \in [1 .. Cardinality(S) -> S] /\ IsInjective(SetToSeq(S))
  BY <1>2 DEF SetToSeq
<1>4. SetToSeq(S) \in Seq(S)
  BY <1>1, <1>3
<1> QED
  BY <1>3, <1>4 DEF IsInjective

(* An interval that includes its ends, unless they are infinite.           *)
IsClosed(i) == /\ i.lower.value \notin Infinite => i.lower.closed
               /\ i.upper.value \notin Infinite => i.upper.closed
AllClosed(S) == \A i \in S : IsClosed(i)

(* Not empty and closed where it begins, as what the program grants.       *)
BeginsClosed(i) == i.lower.value \notin Infinite => i.lower.closed
Proper(i)       == ~IsEmpty(i) /\ BeginsClosed(i)

(* p lies to the right of the bound l, and to the left of the bound u.     *)
From(l, p) == 2 * l.value < p \/ (l.closed /\ 2 * l.value = p)
Till(u, p) == p < 2 * u.value \/ (u.closed /\ 2 * u.value = p)

(* The points of an interval, bound by bound.                              *)
LEMMA PointsAre ==
  ASSUME NEW i
  PROVE  PointsOf(i) = {p \in Point : From(i.lower, p) /\ Till(i.upper, p)}
BY DEF PointsOf, From, Till

(* Which points the lesser of two lower bounds and the greater of two      *)
(* upper bounds let in, whichever way a tie is resolved.                   *)
LEMMA BoundsReach ==
  ASSUME NEW a \in BoundType, NEW b \in BoundType, NEW p \in Point
  PROVE  /\ From(a, p) => From(MinBound(a, b), p)
         /\ a.value \notin Infinite /\ a.closed /\ From(b, p) => From(MinBound(a, b), p)
         /\ a.value \in Infinite /\ From(b, p) => From(MinBound(a, b), p)
         /\ From(MinBound(a, b), p) => From(a, p) \/ From(b, p)
         /\ Till(a, p) => Till(MaxBound(a, b), p)
         /\ a.value \notin Infinite /\ a.closed /\ Till(b, p) => Till(MaxBound(a, b), p)
         /\ a.value \in Infinite /\ Till(b, p) => Till(MaxBound(a, b), p)
         /\ Till(MaxBound(a, b), p) => Till(a, p) \/ Till(b, p)
<1>1. /\ a.value \in Int /\ b.value \in Int /\ p \in Int
      /\ NegInf <= a.value /\ a.value <= PosInf /\ NegInf <= b.value /\ b.value <= PosInf
      /\ 2 * NegInf < p /\ p < 2 * PosInf
      /\ a.closed \in BOOLEAN /\ b.closed \in BOOLEAN
      /\ a.value \in Infinite => ~a.closed
      /\ b.value \in Infinite => ~b.closed
  BY DEF BoundType, Value, Point, Infinite
<1> QED
  BY <1>1 DEF From, Till, MinBound, MaxBound, Less, Infinite

(* A join covers its first operand, and the second one where the first is  *)
(* closed.                                                                 *)
LEMMA JoinReaches ==
  ASSUME NEW i \in IntervalType, NEW j \in IntervalType
  PROVE  /\ PointsOf(i) \subseteq PointsOf(Join(i, j))
         /\ IsClosed(i) => PointsOf(j) \subseteq PointsOf(Join(i, j))
         /\ IsClosed(i) /\ IsClosed(j) => IsClosed(Join(i, j))
<1> DEFINE l == MinBound(i.lower, j.lower)
           u == MaxBound(i.upper, j.upper)
<1>1. Join(i, j).lower = l /\ Join(i, j).upper = u
  BY DEF Join, Ival
<1>2. /\ i.lower \in BoundType /\ i.upper \in BoundType
      /\ j.lower \in BoundType /\ j.upper \in BoundType
  BY IntervalParts
<1>3. PointsOf(i) \subseteq PointsOf(Join(i, j))
  BY <1>1, <1>2, PointsAre, BoundsReach
<1>4. IsClosed(i) => PointsOf(j) \subseteq PointsOf(Join(i, j))
  <2>1. ASSUME IsClosed(i), NEW p \in Point, From(j.lower, p), Till(j.upper, p)
        PROVE  From(l, p) /\ Till(u, p)
    BY <2>1, <1>2, BoundsReach DEF IsClosed
  <2> QED
    BY <2>1, <1>1, PointsAre
<1>5. IsClosed(i) /\ IsClosed(j) => IsClosed(Join(i, j))
  <2>1. l \in {i.lower, j.lower} /\ u \in {i.upper, j.upper}
    BY <1>2, MinMaxTyped
  <2> QED
    BY <2>1, <1>1 DEF IsClosed
<1> QED
  BY <1>3, <1>4, <1>5

(* A bound that loses the tie against an open one loses its own point, if  *)
(* it has it.                                                              *)
LEMMA BoundsLose ==
  ASSUME NEW a \in BoundType, NEW b \in BoundType, NEW p \in Point, p # 2 * b.value
  PROVE  /\ From(b, p) => From(MinBound(a, b), p)
         /\ Till(b, p) => Till(MaxBound(a, b), p)
<1>1. /\ a.value \in Int /\ b.value \in Int /\ p \in Int
      /\ a.closed \in BOOLEAN /\ b.closed \in BOOLEAN
  BY DEF BoundType, Value, Point
<1> QED
  BY <1>1 DEF From, Till, MinBound, MaxBound, Less

(* Where both begin closed, a join loses at most the end of the second.    *)
LEMMA JoinLoses ==
  ASSUME NEW i \in IntervalType, NEW j \in IntervalType, BeginsClosed(i), BeginsClosed(j)
  PROVE  /\ PointsOf(j) \subseteq PointsOf(Join(i, j)) \cup {2 * j.upper.value}
         /\ BeginsClosed(Join(i, j))
<1> DEFINE l == MinBound(i.lower, j.lower)
           u == MaxBound(i.upper, j.upper)
<1>1. Join(i, j).lower = l /\ Join(i, j).upper = u
  BY DEF Join, Ival
<1>2. /\ i.lower \in BoundType /\ i.upper \in BoundType
      /\ j.lower \in BoundType /\ j.upper \in BoundType
  BY IntervalParts
<1>3. ASSUME NEW p \in Point, From(j.lower, p), Till(j.upper, p), p # 2 * j.upper.value
      PROVE  From(l, p) /\ Till(u, p)
  <2>1. From(l, p)
    BY <1>2, <1>3, BoundsReach DEF BeginsClosed
  <2>2. Till(u, p)
    BY <1>2, <1>3, BoundsLose
  <2> QED
    BY <2>1, <2>2
<1>4. l \in {i.lower, j.lower}
  BY <1>2, MinMaxTyped
<1>5. BeginsClosed(Join(i, j))
  BY <1>1, <1>4 DEF BeginsClosed
<1> QED
  BY <1>1, <1>3, <1>5, PointsAre

(* Intervals that overlap or meet have no gap between them.  Where neither *)
(* is closed, meets may be wrong about that.                               *)
LEMMA JoinAddsNothing ==
  ASSUME NEW i \in IntervalType, NEW j \in IntervalType, Joins(i, j),
         IsClosed(i) \/ IsClosed(j)
  PROVE  PointsOf(Join(i, j)) \subseteq PointsOf(i) \cup PointsOf(j)
<1> DEFINE l == MinBound(i.lower, j.lower)
           u == MaxBound(i.upper, j.upper)
<1>1. Join(i, j).lower = l /\ Join(i, j).upper = u
  BY DEF Join, Ival
<1>2. /\ i.lower \in BoundType /\ i.upper \in BoundType
      /\ j.lower \in BoundType /\ j.upper \in BoundType
  BY IntervalParts
<1>3. ASSUME NEW p \in Point, From(l, p), Till(u, p)
      PROVE  \/ From(i.lower, p) /\ Till(i.upper, p)
             \/ From(j.lower, p) /\ Till(j.upper, p)
  <2>1. From(i.lower, p) \/ From(j.lower, p)
    BY <1>2, <1>3, BoundsReach
  <2>2. Till(i.upper, p) \/ Till(j.upper, p)
    BY <1>2, <1>3, BoundsReach
  <2>3. /\ p \in Int
        /\ i.lower.value \in Int /\ i.upper.value \in Int
        /\ j.lower.value \in Int /\ j.upper.value \in Int
        /\ 2 * NegInf < p /\ p < 2 * PosInf
    BY <1>2 DEF BoundType, Value, Point
  <2>4. CASE Overlaps(i, j)
    BY <2>1, <2>2, <2>3, <2>4 DEF Overlaps, Leq, From, Till, Infinite
  <2>5. CASE Meets(i, j)
    <3>1. i.lower.value <= i.upper.value /\ j.lower.value <= j.upper.value
      BY IntervalParts
    <3>2. i.upper.value = j.lower.value /\ (i.upper.closed \/ i.lower.closed)
      BY <2>5 DEF Meets
    <3>3. i.upper.value \notin Infinite
      <4>1. j.lower.value = j.upper.value => j.lower.value \in Instant
        BY IntervalParts
      <4>2. i.lower.value = i.upper.value => i.lower.value \in Instant
        BY IntervalParts
      <4>3. i.lower.value >= NegInf /\ j.upper.value <= PosInf
        BY <1>2 DEF BoundType, Value
      <4> QED
        BY <2>3, <3>1, <3>2, <4>1, <4>2, <4>3 DEF Instant, Infinite
    <3>4. i.upper.closed \/ j.lower.closed
      BY <3>2, <3>3 DEF IsClosed
    <3>5. i.lower.value = j.lower.value => From(i.lower, p)
      <4>1. i.lower.value = j.lower.value => l = i.lower
        BY <2>3, <3>1, <3>2, <3>3 DEF MinBound, Less
      <4> QED
        BY <4>1, <1>3
    <3> HIDE DEF l, u
    <3> QED
      BY <2>1, <2>2, <2>3, <3>1, <3>2, <3>4, <3>5 DEF From, Till
  <2> QED
    BY <2>4, <2>5 DEF Joins
<1> QED
  BY <1>1, <1>3, PointsAre

LEMMA EmptyHasNoPoint ==
  ASSUME NEW i \in IntervalType, IsEmpty(i)
  PROVE  PointsOf(i) = {}
<1>1. i.lower.value \in Int
  BY IntervalParts DEF Value
<1> QED
  BY <1>1, PointsAre DEF IsEmpty, From, Till, Point

(* What a set of intervals covers, one by one.                             *)
LEMMA CoveredOf ==
  /\ \A S, x : Covered(S \cup {x}) = Covered(S) \cup PointsOf(x)
  /\ \A S : \A p : p \in Covered(S) <=> \E x \in S : p \in PointsOf(x)
  /\ Covered({}) = {}
  /\ \A S : \A x \in S : PointsOf(x) \subseteq Covered(S)
BY DEF Covered

(* _join takes nothing away, adds the interval where what it has is        *)
(* closed, and adds nothing else.                                          *)
LEMMA AddedCovers ==
  ASSUME NEW acc \in Ivals, NEW i \in IntervalType
  PROVE  /\ Covered(ToSet(acc)) \subseteq Covered(ToSet(Added(acc, i)))
         /\ AllClosed(ToSet(acc)) => PointsOf(i) \subseteq Covered(ToSet(Added(acc, i)))
         /\ AllClosed(ToSet(acc)) /\ IsClosed(i) => AllClosed(ToSet(Added(acc, i)))
         /\ AllClosed(ToSet(acc)) \/ IsClosed(i) =>
              Covered(ToSet(Added(acc, i))) \subseteq Covered(ToSet(acc)) \cup PointsOf(i)
<1>1. CASE IsEmpty(i)
  BY <1>1, EmptyHasNoPoint DEF Added
<1>2. CASE ~IsEmpty(i) /\ acc # <<>> /\ Joins(Last(acc), i)
  <2> DEFINE f == Front(acc)
             x == Last(acc)
  <2>1. x \in IntervalType /\ f \in Ivals /\ acc = Append(f, x)
    BY <1>2 DEF Last, Front, Ivals
  <2>2. Join(x, i) \in IntervalType
    BY <2>1, JoinTyped
  <2>3. Added(acc, i) = Append(f, Join(x, i))
    BY <1>2 DEF Added
  <2> HIDE DEF f, x
  <2>4. /\ ToSet(acc) = ToSet(f) \cup {x}
        /\ ToSet(Added(acc, i)) = ToSet(f) \cup {Join(x, i)}
    BY <2>1, <2>2, <2>3, AppendFacts DEF Ivals
  <2>5. /\ Covered(ToSet(acc)) = Covered(ToSet(f)) \cup PointsOf(x)
        /\ Covered(ToSet(Added(acc, i))) = Covered(ToSet(f)) \cup PointsOf(Join(x, i))
    BY <2>4, CoveredOf
  <2>6. AllClosed(ToSet(acc)) => IsClosed(x)
    BY <2>4 DEF AllClosed
  <2>7. Joins(x, i)
    BY <1>2 DEF x
  <2>8. AllClosed(ToSet(acc)) /\ IsClosed(i) => AllClosed(ToSet(Added(acc, i)))
    BY <2>1, <2>4, JoinReaches DEF AllClosed
  <2> QED
    BY <2>1, <2>5, <2>6, <2>7, <2>8, JoinReaches, JoinAddsNothing
<1>3. CASE ~IsEmpty(i) /\ ~(acc # <<>> /\ Joins(Last(acc), i))
  <2>1. Added(acc, i) = Append(acc, i)
    BY <1>3 DEF Added
  <2>2. ToSet(Added(acc, i)) = ToSet(acc) \cup {i}
    BY <2>1, AppendFacts DEF Ivals
  <2>3. Covered(ToSet(Added(acc, i))) = Covered(ToSet(acc)) \cup PointsOf(i)
    BY <2>2, CoveredOf
  <2>4. AllClosed(ToSet(acc)) /\ IsClosed(i) => AllClosed(ToSet(Added(acc, i)))
    BY <2>2 DEF AllClosed
  <2> QED
    BY <2>3, <2>4
<1> QED
  BY <1>1, <1>2, <1>3

LEMMA NothingCovered == Covered(ToSet(<<>>)) = {} /\ AllClosed(ToSet(<<>>))
BY DEF Covered, ToSet, AllClosed

(* Joining closed intervals covers what they cover, with closed intervals. *)
LEMMA JoinedClosed ==
  ASSUME NEW s \in Ivals, AllClosed(ToSet(s))
  PROVE  /\ JoinSorted(s) \in Ivals
         /\ AllClosed(ToSet(JoinSorted(s)))
         /\ Covered(ToSet(JoinSorted(s))) = Covered(ToSet(s))
<1> DEFINE N == Len(s)
<1>1. N \in Nat /\ \A n \in 1 .. N : s[n] \in IntervalType /\ s[n] \in ToSet(s)
  BY ToSetFacts DEF Ivals
<1>2. PICK g : /\ JoinSorted(s) = g[N]
               /\ g[0] = <<>>
               /\ \A n \in 1 .. N : g[n] = Added(g[n - 1], s[n])
               /\ \A n \in 0 .. N : g[n] \in Ivals
  BY JoinedTyped
<1> DEFINE D == [n \in 0 .. N |->
                   {acc \in Ivals : /\ AllClosed(ToSet(acc))
                                    /\ Covered(ToSet(acc)) = Covered({s[m] : m \in 1 .. n})}]
<1>3. \A n \in 0 .. N : g[n] \in D[n]
  <2>1. g[0] \in D[0]
    <3>1. {s[m] : m \in 1 .. 0} = {} /\ 0 \in 0 .. N
      BY <1>1
    <3>2. g[0] \in Ivals
      BY <1>2, <3>1
    <3> QED
      BY <3>1, <3>2, <1>2, NothingCovered, CoveredOf
  <2>2. ASSUME NEW n \in 1 .. N, g[n - 1] \in D[n - 1]
        PROVE  g[n] \in D[n]
    <3>1. n - 1 \in 0 .. N /\ n \in 0 .. N
      BY <1>1
    <3>2. /\ g[n - 1] \in Ivals /\ g[n] \in Ivals /\ g[n] = Added(g[n - 1], s[n])
          /\ AllClosed(ToSet(g[n - 1]))
          /\ Covered(ToSet(g[n - 1])) = Covered({s[m] : m \in 1 .. n - 1})
      BY <2>2, <3>1, <1>2
    <3>3. s[n] \in IntervalType /\ IsClosed(s[n])
      BY <1>1 DEF AllClosed
    <3>4. {s[m] : m \in 1 .. n} = {s[m] : m \in 1 .. n - 1} \cup {s[n]}
      <4>1. \A m \in 1 .. n : m \in 1 .. n - 1 \/ m = n
        OBVIOUS
      <4>2. \A m \in 1 .. n - 1 : m \in 1 .. n
        OBVIOUS
      <4> QED
        BY <4>1, <4>2
    <3>5. Covered({s[m] : m \in 1 .. n}) = Covered({s[m] : m \in 1 .. n - 1}) \cup PointsOf(s[n])
      BY <3>4, CoveredOf
    <3>6. /\ AllClosed(ToSet(g[n]))
          /\ Covered(ToSet(g[n])) = Covered(ToSet(g[n - 1])) \cup PointsOf(s[n])
      BY <3>2, <3>3, AddedCovers
    <3> QED
      BY <3>1, <3>2, <3>5, <3>6
  <2> HIDE DEF D, N
  <2> QED
    BY <1>1, <2>1, <2>2, StepsStay
<1>4. {s[m] : m \in 1 .. N} = ToSet(s)
  BY <1>1, ToSetFacts DEF ToSet, Ivals
<1>5. N \in 0 .. N
  BY <1>1
<1>6. g[N] \in D[N]
  <2> HIDE DEF D
  <2> QED
    BY <1>3, <1>5
<1>7. g[N] \in Ivals /\ AllClosed(ToSet(g[N])) /\ Covered(ToSet(g[N])) = Covered({s[m] : m \in 1 .. N})
  BY <1>5, <1>6
<1> QED
  BY <1>2, <1>4, <1>7

(* With one other interval among them, that one is covered and nothing     *)
(* that is not in one of them.                                             *)
LEMMA JoinedButOne ==
  ASSUME NEW s \in Ivals, NEW p \in 1 .. Len(s),
         \A q \in (1 .. Len(s)) \ {p} : IsClosed(s[q])
  PROVE  /\ JoinSorted(s) \in Ivals
         /\ PointsOf(s[p]) \subseteq Covered(ToSet(JoinSorted(s)))
         /\ Covered(ToSet(JoinSorted(s))) \subseteq Covered(ToSet(s))
<1> DEFINE N == Len(s)
<1>1. N \in Nat /\ \A n \in 1 .. N : s[n] \in IntervalType /\ s[n] \in ToSet(s)
  BY ToSetFacts DEF Ivals
<1>2. PICK g : /\ JoinSorted(s) = g[N]
               /\ g[0] = <<>>
               /\ \A n \in 1 .. N : g[n] = Added(g[n - 1], s[n])
               /\ \A n \in 0 .. N : g[n] \in Ivals
  BY JoinedTyped
<1> DEFINE D == [n \in 0 .. N |->
                   {acc \in Ivals : /\ n < p => AllClosed(ToSet(acc))
                                    /\ n >= p => PointsOf(s[p]) \subseteq Covered(ToSet(acc))
                                    /\ Covered(ToSet(acc)) \subseteq Covered(ToSet(s))}]
<1>3. \A n \in 0 .. N : g[n] \in D[n]
  <2>1. g[0] \in D[0]
    <3>1. g[0] \in Ivals /\ 0 \in 0 .. N /\ 0 < p
      BY <1>1, <1>2
    <3> QED
      BY <3>1, <1>2, NothingCovered
  <2>2. ASSUME NEW n \in 1 .. N, g[n - 1] \in D[n - 1]
        PROVE  g[n] \in D[n]
    <3>1. n - 1 \in 0 .. N /\ n \in 0 .. N /\ n \in Int /\ p \in Int
      BY <1>1
    <3>2. /\ g[n - 1] \in Ivals /\ g[n] \in Ivals /\ g[n] = Added(g[n - 1], s[n])
          /\ n - 1 < p => AllClosed(ToSet(g[n - 1]))
          /\ n - 1 >= p => PointsOf(s[p]) \subseteq Covered(ToSet(g[n - 1]))
          /\ Covered(ToSet(g[n - 1])) \subseteq Covered(ToSet(s))
      BY <2>2, <3>1, <1>2
    <3>3. /\ s[n] \in IntervalType
          /\ n # p => IsClosed(s[n])
          /\ PointsOf(s[n]) \subseteq Covered(ToSet(s))
      BY <1>1, CoveredOf
    <3>4. AllClosed(ToSet(g[n - 1])) \/ IsClosed(s[n])
      BY <3>1, <3>2, <3>3
    <3>5. Covered(ToSet(g[n])) \subseteq Covered(ToSet(s))
      BY <3>2, <3>3, <3>4, AddedCovers
    <3>6. n < p => AllClosed(ToSet(g[n]))
      BY <3>1, <3>2, <3>3, AddedCovers
    <3>7. n >= p => PointsOf(s[p]) \subseteq Covered(ToSet(g[n]))
      <4>1. CASE n = p
        BY <4>1, <3>1, <3>2, <3>3, AddedCovers
      <4>2. CASE n > p
        <5>1. PointsOf(s[p]) \subseteq Covered(ToSet(g[n - 1]))
          BY <4>2, <3>1, <3>2
        <5> QED
          BY <5>1, <3>2, <3>3, AddedCovers
      <4> QED
        BY <4>1, <4>2, <3>1
    <3> QED
      BY <3>1, <3>2, <3>5, <3>6, <3>7
  <2> HIDE DEF D, N
  <2> QED
    BY <1>1, <2>1, <2>2, StepsStay
<1>4. g[N] \in D[N] /\ N \in 0 .. N /\ N >= p
  BY <1>1, <1>3
<1> QED
  BY <1>2, <1>4

(* Where all intervals begin closed, joining them takes from each one at   *)
(* most its end, and ends nowhere else than they do.                       *)
LEMMA AddedKeeps ==
  ASSUME NEW acc \in Ivals, NEW i \in IntervalType, BeginsClosed(i),
         \A x \in ToSet(acc) : BeginsClosed(x)
  PROVE  /\ PointsOf(i) \subseteq Covered(ToSet(Added(acc, i))) \cup {2 * i.upper.value}
         /\ \A x \in ToSet(Added(acc, i)) :
              /\ BeginsClosed(x)
              /\ \E y \in ToSet(acc) \cup {i} : x.upper.value = y.upper.value
<1>1. CASE IsEmpty(i)
  BY <1>1, EmptyHasNoPoint DEF Added
<1>2. CASE ~IsEmpty(i) /\ acc # <<>> /\ Joins(Last(acc), i)
  <2> DEFINE f == Front(acc)
             x == Last(acc)
  <2>1. x \in IntervalType /\ f \in Ivals /\ acc = Append(f, x)
    BY <1>2 DEF Last, Front, Ivals
  <2>2. Join(x, i) \in IntervalType
    BY <2>1, JoinTyped
  <2>3. Added(acc, i) = Append(f, Join(x, i))
    BY <1>2 DEF Added
  <2> HIDE DEF f, x
  <2>4. /\ ToSet(acc) = ToSet(f) \cup {x}
        /\ ToSet(Added(acc, i)) = ToSet(f) \cup {Join(x, i)}
    BY <2>1, <2>2, <2>3, AppendFacts DEF Ivals
  <2>5. /\ PointsOf(i) \subseteq PointsOf(Join(x, i)) \cup {2 * i.upper.value}
        /\ BeginsClosed(Join(x, i))
    BY <2>1, <2>4, JoinLoses
  <2>6. Join(x, i).upper.value \in {x.upper.value, i.upper.value}
    <3>1. Join(x, i).upper = MaxBound(x.upper, i.upper)
      BY DEF Join, Ival
    <3> QED
      BY <3>1 DEF MaxBound
  <2>7. PointsOf(Join(x, i)) \subseteq Covered(ToSet(Added(acc, i)))
    BY <2>4, CoveredOf
  <2>8. \A y \in ToSet(f) : y \in ToSet(acc)
    BY <2>4
  <2>9. x \in ToSet(acc)
    BY <2>4
  <2> QED
    BY <2>4, <2>5, <2>6, <2>7, <2>8, <2>9
<1>3. CASE ~IsEmpty(i) /\ ~(acc # <<>> /\ Joins(Last(acc), i))
  <2>1. Added(acc, i) = Append(acc, i)
    BY <1>3 DEF Added
  <2>2. ToSet(Added(acc, i)) = ToSet(acc) \cup {i}
    BY <2>1, AppendFacts DEF Ivals
  <2> QED
    BY <2>2, CoveredOf
<1> QED
  BY <1>1, <1>2, <1>3

LEMMA JoinedKeeps ==
  ASSUME NEW s \in Ivals, \A i \in ToSet(s) : BeginsClosed(i)
  PROVE  /\ \A i \in ToSet(s) : PointsOf(i) \subseteq Covered(ToSet(JoinSorted(s))) \cup {2 * i.upper.value}
         /\ \A x \in ToSet(JoinSorted(s)) : \E y \in ToSet(s) : x.upper.value = y.upper.value
<1> DEFINE N == Len(s)
<1>1. N \in Nat /\ \A n \in 1 .. N : s[n] \in IntervalType /\ s[n] \in ToSet(s)
  BY ToSetFacts DEF Ivals
<1>2. PICK g : /\ JoinSorted(s) = g[N]
               /\ g[0] = <<>>
               /\ \A n \in 1 .. N : g[n] = Added(g[n - 1], s[n])
               /\ \A n \in 0 .. N : g[n] \in Ivals
  BY JoinedTyped
<1> DEFINE D == [n \in 0 .. N |->
                   {acc \in Ivals :
                      /\ \A x \in ToSet(acc) : BeginsClosed(x) /\ \E y \in ToSet(s) : x.upper.value = y.upper.value
                      /\ \A m \in 1 .. n : PointsOf(s[m]) \subseteq Covered(ToSet(acc)) \cup {2 * s[m].upper.value}}]
<1>3. \A n \in 0 .. N : g[n] \in D[n]
  <2>1. g[0] \in D[0]
    <3>1. g[0] \in Ivals /\ 0 \in 0 .. N /\ ToSet(<<>>) = {}
      BY <1>1, <1>2 DEF ToSet
    <3>2. \A m \in 1 .. 0 : FALSE
      OBVIOUS
    <3> QED
      BY <3>1, <3>2, <1>2
  <2>2. ASSUME NEW n \in 1 .. N, g[n - 1] \in D[n - 1]
        PROVE  g[n] \in D[n]
    <3>1. n - 1 \in 0 .. N /\ n \in 0 .. N
      BY <1>1
    <3>2. /\ g[n - 1] \in Ivals /\ g[n] \in Ivals /\ g[n] = Added(g[n - 1], s[n])
          /\ \A x \in ToSet(g[n - 1]) : BeginsClosed(x) /\ \E y \in ToSet(s) : x.upper.value = y.upper.value
          /\ \A m \in 1 .. n - 1 : PointsOf(s[m]) \subseteq Covered(ToSet(g[n - 1])) \cup {2 * s[m].upper.value}
      BY <2>2, <3>1, <1>2
    <3>3. s[n] \in IntervalType /\ s[n] \in ToSet(s) /\ BeginsClosed(s[n])
      BY <1>1
    <3>4. /\ PointsOf(s[n]) \subseteq Covered(ToSet(g[n])) \cup {2 * s[n].upper.value}
          /\ \A x \in ToSet(g[n]) : BeginsClosed(x) /\ \E y \in ToSet(g[n - 1]) \cup {s[n]} : x.upper.value = y.upper.value
      BY <3>2, <3>3, AddedKeeps
    <3>5. Covered(ToSet(g[n - 1])) \subseteq Covered(ToSet(g[n]))
      BY <3>2, <3>3, AddedCovers
    <3>6. \A x \in ToSet(g[n]) : BeginsClosed(x) /\ \E y \in ToSet(s) : x.upper.value = y.upper.value
      BY <3>2, <3>3, <3>4
    <3>7. \A m \in 1 .. n : PointsOf(s[m]) \subseteq Covered(ToSet(g[n])) \cup {2 * s[m].upper.value}
      <4>1. \A m \in 1 .. n : m \in 1 .. n - 1 \/ m = n
        OBVIOUS
      <4> QED
        BY <4>1, <3>2, <3>4, <3>5
    <3> QED
      BY <3>1, <3>2, <3>6, <3>7
  <2> HIDE DEF D, N
  <2> QED
    BY <1>1, <2>1, <2>2, StepsStay
<1>4. N \in 0 .. N
  BY <1>1
<1>5. g[N] \in D[N]
  <2> HIDE DEF D
  <2> QED
    BY <1>3, <1>4
<1>6. \A i \in ToSet(s) : \E n \in 1 .. N : i = s[n]
  BY ToSetFacts DEF Ivals
<1> HIDE DEF N
<1> QED
  BY <1>2, <1>4, <1>5, <1>6

(* Joining keeps an interval proper,                                       *)
LEMMA JoinProper ==
  ASSUME NEW i \in IntervalType, NEW j \in IntervalType, Proper(i), BeginsClosed(j)
  PROVE  Proper(Join(i, j))
<1> DEFINE l == MinBound(i.lower, j.lower)
           u == MaxBound(i.upper, j.upper)
<1>1. Join(i, j).lower = l /\ Join(i, j).upper = u
  BY DEF Join, Ival
<1>2. l \in {i.lower, j.lower}
  BY DEF MinBound
<1>3. /\ i.lower.value \in Int /\ i.upper.value \in Int /\ j.lower.value \in Int /\ j.upper.value \in Int
      /\ i.lower.value <= i.upper.value
      /\ i.lower.value = i.upper.value => i.lower.value \notin Infinite
  BY IntervalParts DEF Value, Instant, Infinite
<1>4. l.value = u.value => l = i.lower /\ u = i.upper
  BY <1>3 DEF MinBound, MaxBound, Less
<1> HIDE DEF l, u
<1>5. ~IsEmpty(Join(i, j))
  BY <1>1, <1>4 DEF Proper, IsEmpty
<1>6. BeginsClosed(Join(i, j))
  BY <1>1, <1>2 DEF Proper, BeginsClosed
<1> QED
  BY <1>5, <1>6 DEF Proper

(* ... a step of _join a sequence of them,                                 *)
LEMMA AddedProper ==
  ASSUME NEW acc \in Ivals, NEW i \in IntervalType, BeginsClosed(i),
         \A x \in ToSet(acc) : Proper(x)
  PROVE  \A x \in ToSet(Added(acc, i)) : Proper(x)
<1>1. CASE IsEmpty(i)
  BY <1>1 DEF Added
<1>2. CASE ~IsEmpty(i) /\ acc # <<>> /\ Joins(Last(acc), i)
  <2> DEFINE f == Front(acc)
             x == Last(acc)
  <2>1. x \in IntervalType /\ f \in Ivals /\ acc = Append(f, x)
    BY <1>2 DEF Last, Front, Ivals
  <2>2. Join(x, i) \in IntervalType
    BY <2>1, JoinTyped
  <2>3. Added(acc, i) = Append(f, Join(x, i))
    BY <1>2 DEF Added
  <2> HIDE DEF f, x
  <2>4. /\ ToSet(acc) = ToSet(f) \cup {x}
        /\ ToSet(Added(acc, i)) = ToSet(f) \cup {Join(x, i)}
    BY <2>1, <2>2, <2>3, AppendFacts DEF Ivals
  <2> QED
    BY <2>1, <2>4, JoinProper
<1>3. CASE ~IsEmpty(i) /\ ~(acc # <<>> /\ Joins(Last(acc), i))
  <2>1. Added(acc, i) = Append(acc, i)
    BY <1>3 DEF Added
  <2>2. ToSet(Added(acc, i)) = ToSet(acc) \cup {i}
    BY <2>1, AppendFacts DEF Ivals
  <2> QED
    BY <1>3, <2>2 DEF Proper
<1> QED
  BY <1>1, <1>2, <1>3

(* ... and _join yields no other.                                          *)
LEMMA JoinedProper ==
  ASSUME NEW s \in Ivals, \A i \in ToSet(s) : BeginsClosed(i)
  PROVE  \A x \in ToSet(JoinSorted(s)) : Proper(x)
<1> DEFINE N == Len(s)
<1>1. N \in Nat /\ \A n \in 1 .. N : s[n] \in IntervalType /\ s[n] \in ToSet(s)
  BY ToSetFacts DEF Ivals
<1>2. PICK g : /\ JoinSorted(s) = g[N]
               /\ g[0] = <<>>
               /\ \A n \in 1 .. N : g[n] = Added(g[n - 1], s[n])
               /\ \A n \in 0 .. N : g[n] \in Ivals
  BY JoinedTyped
<1> DEFINE D == [n \in 0 .. N |-> {acc \in Ivals : \A x \in ToSet(acc) : Proper(x)}]
<1>3. \A n \in 0 .. N : g[n] \in D[n]
  <2>1. g[0] \in D[0]
    <3>1. g[0] \in Ivals /\ 0 \in 0 .. N /\ ToSet(<<>>) = {}
      BY <1>1, <1>2 DEF ToSet
    <3> QED
      BY <3>1, <1>2
  <2>2. ASSUME NEW n \in 1 .. N, g[n - 1] \in D[n - 1]
        PROVE  g[n] \in D[n]
    <3>1. n - 1 \in 0 .. N /\ n \in 0 .. N
      BY <1>1
    <3>2. /\ g[n - 1] \in Ivals /\ g[n] \in Ivals /\ g[n] = Added(g[n - 1], s[n])
          /\ \A x \in ToSet(g[n - 1]) : Proper(x)
      BY <2>2, <3>1, <1>2
    <3>3. s[n] \in IntervalType /\ BeginsClosed(s[n])
      BY <1>1
    <3>4. \A x \in ToSet(g[n]) : Proper(x)
      BY <3>2, <3>3, AddedProper
    <3> QED
      BY <3>1, <3>2, <3>4
  <2> HIDE DEF D, N
  <2> QED
    BY <1>1, <2>1, <2>2, StepsStay
<1>4. N \in 0 .. N
  BY <1>1
<1>5. g[N] \in D[N]
  <2> HIDE DEF D
  <2> QED
    BY <1>3, <1>4
<1> QED
  BY <1>2, <1>4, <1>5

----------------------------------------------------------------------------
LEMMA BoundValue ==
  ASSUME NEW v, NEW c
  PROVE  Bnd(v, c).value = v
BY DEF Bnd

(* A row is loaded as an interval, also one that holds the empty range.    *)
LEMMA LoadedTyped ==
  ASSUME NEW r \in DbRange
  PROVE  Loaded(r) \in IntervalType
<1>1. /\ Bnd(NegInf, FALSE) \in BoundType
      /\ Bnd(PosInf, FALSE) \in BoundType
      /\ ~Less(Bnd(PosInf, FALSE), Bnd(NegInf, FALSE))
  <2>1. /\ Bnd(NegInf, FALSE) = [value |-> NegInf, closed |-> FALSE]
        /\ Bnd(PosInf, FALSE) = [value |-> PosInf, closed |-> FALSE]
    BY DEF Bnd
  <2>2. NegInf \in Value /\ PosInf \in Value
    BY DEF Value, InfinityAssumption
  <2>3. NegInf < PosInf /\ NegInf \in Int /\ PosInf \in Int
    BY DEF InfinityAssumption
  <2>4. \A v \in Value : [value |-> v, closed |-> FALSE] \in BoundType
    BY DEF BoundType
  <2>5. ~Less(Bnd(PosInf, FALSE), Bnd(NegInf, FALSE))
    <3>1. Bnd(PosInf, FALSE).value = PosInf /\ Bnd(NegInf, FALSE).value = NegInf
      BY BoundValue
    <3>2. ~(PosInf < NegInf) /\ PosInf # NegInf
      BY <2>3
    <3> QED
      BY <3>1, <3>2 DEF Less
  <2> QED
    BY <2>1, <2>2, <2>4, <2>5
<1>2. Unbounded \in IntervalType
  <2>1. Bnd(NegInf, FALSE) \in BoundType /\ Bnd(PosInf, FALSE) \in BoundType
    BY <1>1
  <2> QED
    BY <1>1, IntervalTyped DEF Unbounded, Open
<1> QED
  BY <1>2 DEF Loaded, DbRange

LEMMA ClosureClosed ==
  ASSUME NEW i
  PROVE  IsClosed(Closure(i))
BY DEF IsClosed, Closure, Closed, Ival, Bnd

(* No interval of a sequence begins before an earlier one has ended.       *)
Separate(s) == \A m, n \in 1 .. Len(s) : m < n => s[m].upper.value <= s[n].lower.value

(* An interval that begins after the others have ended may follow them.    *)
LEMMA SeparateAppend ==
  ASSUME NEW acc \in Ivals, NEW i \in IntervalType, Separate(acc),
         \A m \in 1 .. Len(acc) : acc[m].upper.value <= i.lower.value
  PROVE  Separate(Append(acc, i))
<1>1. /\ Len(Append(acc, i)) = Len(acc) + 1
      /\ \A n \in 1 .. Len(acc) : Append(acc, i)[n] = acc[n]
      /\ Append(acc, i)[Len(acc) + 1] = i
      /\ Len(acc) \in Nat
  BY AppendFacts DEF Ivals
<1>2. ASSUME NEW m \in 1 .. Len(acc) + 1, NEW n \in 1 .. Len(acc) + 1, m < n
      PROVE  Append(acc, i)[m].upper.value <= Append(acc, i)[n].lower.value
  <2>1. m \in 1 .. Len(acc)
    BY <1>1, <1>2
  <2>2. CASE n = Len(acc) + 1
    BY <1>1, <2>1, <2>2
  <2>3. CASE n # Len(acc) + 1
    <3>1. n \in 1 .. Len(acc)
      BY <1>1, <2>3
    <3> QED
      BY <1>1, <1>2, <2>1, <3>1 DEF Separate
  <2> QED
    BY <2>2, <2>3
<1> QED
  BY <1>1, <1>2 DEF Separate

(* A step of _join keeps closed intervals separate, if the next one begins *)
(* no earlier than those before it,                                        *)
LEMMA AddedSeparate ==
  ASSUME NEW acc \in Ivals, AllClosed(ToSet(acc)), Separate(acc),
         NEW i \in IntervalType, IsClosed(i),
         \A x \in ToSet(acc) : x.lower.value <= i.lower.value
  PROVE  /\ Separate(Added(acc, i))
         /\ \A x \in ToSet(Added(acc, i)) :
              x.lower.value = i.lower.value \/ \E y \in ToSet(acc) : x.lower.value = y.lower.value
<1>1. CASE IsEmpty(i)
  BY <1>1 DEF Added
<1>2. CASE ~IsEmpty(i) /\ acc # <<>> /\ Joins(Last(acc), i)
  <2> DEFINE f == Front(acc)
             x == Last(acc)
  <2>1. x \in IntervalType /\ f \in Ivals /\ acc = Append(f, x)
    BY <1>2 DEF Last, Front, Ivals
  <2>2. Join(x, i) \in IntervalType
    BY <2>1, JoinTyped
  <2>3. Added(acc, i) = Append(f, Join(x, i))
    BY <1>2 DEF Added
  <2> HIDE DEF f, x
  <2>4. /\ ToSet(acc) = ToSet(f) \cup {x}
        /\ ToSet(Added(acc, i)) = ToSet(f) \cup {Join(x, i)}
        /\ Len(acc) = Len(f) + 1
        /\ acc[Len(f) + 1] = x
        /\ \A n \in 1 .. Len(f) : acc[n] = f[n]
        /\ Len(f) \in Nat
    BY <2>1, <2>2, <2>3, AppendFacts DEF Ivals
  <2>5. x.lower.value <= i.lower.value
    BY <2>4
  <2>6. Join(x, i).lower.value = x.lower.value
    <3>1. x.lower.value \in Int /\ i.lower.value \in Int
      BY <2>1, IntervalParts DEF Value
    <3> QED
      BY <3>1, <2>5 DEF Join, Ival, MinBound, Less
  <2>7. Separate(f)
    <3>1. ASSUME NEW m \in 1 .. Len(f), NEW n \in 1 .. Len(f), m < n
          PROVE  f[m].upper.value <= f[n].lower.value
      <4>1. m \in 1 .. Len(acc) /\ n \in 1 .. Len(acc) /\ acc[m] = f[m] /\ acc[n] = f[n]
        BY <2>4
      <4> QED
        BY <4>1, <3>1 DEF Separate
    <3> QED
      BY <3>1 DEF Separate
  <2>8. ASSUME NEW m \in 1 .. Len(f)
        PROVE  f[m].upper.value <= Join(x, i).lower.value
    <3>1. m \in 1 .. Len(acc) /\ Len(acc) \in 1 .. Len(acc) /\ m < Len(acc)
          /\ acc[m] = f[m] /\ acc[Len(acc)] = x
      BY <2>4
    <3> QED
      BY <3>1, <2>6 DEF Separate
  <2>9. Separate(Added(acc, i))
    BY <2>1, <2>2, <2>3, <2>7, <2>8, SeparateAppend
  <2> QED
    BY <2>4, <2>6, <2>9
<1>3. CASE ~IsEmpty(i) /\ ~(acc # <<>> /\ Joins(Last(acc), i))
  <2>1. Added(acc, i) = Append(acc, i)
    BY <1>3 DEF Added
  <2>2. ToSet(Added(acc, i)) = ToSet(acc) \cup {i}
    BY <2>1, AppendFacts DEF Ivals
  <2>3. ASSUME NEW m \in 1 .. Len(acc)
        PROVE  acc[m].upper.value <= i.lower.value
    <3>1. acc # <<>> /\ Len(acc) \in 1 .. Len(acc) /\ Last(acc) = acc[Len(acc)]
      BY DEF Ivals, Last
    <3> DEFINE x == Last(acc)
    <3>2. x \in IntervalType /\ acc[m] \in IntervalType /\ x \in ToSet(acc)
      BY <3>1, ToSetFacts DEF Ivals
    <3>3. x.lower.value <= i.lower.value /\ IsClosed(x) /\ ~Overlaps(x, i)
      BY <1>3, <3>1, <3>2 DEF AllClosed, Joins
    <3> HIDE DEF x
    <3>4. /\ x.lower.value \in Value /\ x.upper.value \in Value
          /\ i.lower.value \in Value /\ i.upper.value \in Value
          /\ x.lower.value <= x.upper.value /\ i.lower.value <= i.upper.value
          /\ acc[m].lower.value \in Value /\ acc[m].upper.value \in Value
      BY <3>2, IntervalParts
    <3>5. Leq(x.lower, i.upper)
      BY <3>3, <3>4 DEF Leq, IsClosed, Value
    <3>6. x.upper.value <= i.lower.value
      BY <3>3, <3>4, <3>5 DEF Overlaps, Leq, Value
    <3>7. CASE m = Len(acc)
      BY <3>1, <3>6, <3>7 DEF x
    <3>8. CASE m # Len(acc)
      <4>1. m < Len(acc)
        BY <3>8 DEF Ivals
      <4>2. acc[m].upper.value <= x.lower.value
        BY <4>1, <3>1 DEF Separate, x
      <4> QED
        BY <4>2, <3>3, <3>4 DEF Value
    <3> QED
      BY <3>7, <3>8
  <2>4. Separate(Added(acc, i))
    BY <2>1, <2>3, SeparateAppend
  <2> QED
    BY <2>2, <2>4
<1> QED
  BY <1>1, <1>2, <1>3

(* ... so that joining sorted intervals separates them.                    *)
LEMMA JoinedSeparate ==
  ASSUME NEW s \in Ivals, AllClosed(ToSet(s)), InOrder(s)
  PROVE  Separate(JoinSorted(s))
<1> DEFINE N == Len(s)
<1>1. N \in Nat /\ DOMAIN s = 1 .. N /\ \A n \in 1 .. N : s[n] \in IntervalType /\ s[n] \in ToSet(s)
  BY ToSetFacts DEF Ivals
<1>2. PICK g : /\ JoinSorted(s) = g[N]
               /\ g[0] = <<>>
               /\ \A n \in 1 .. N : g[n] = Added(g[n - 1], s[n])
               /\ \A n \in 0 .. N : g[n] \in Ivals
  BY JoinedTyped
<1> DEFINE D == [n \in 0 .. N |->
                   {acc \in Ivals : /\ AllClosed(ToSet(acc))
                                    /\ Separate(acc)
                                    /\ \A x \in ToSet(acc) : \E q \in 1 .. n : x.lower.value = s[q].lower.value}]
<1>3. \A n \in 0 .. N : g[n] \in D[n]
  <2>1. g[0] \in D[0]
    <3>1. g[0] \in Ivals /\ 0 \in 0 .. N
      BY <1>1, <1>2
    <3>2. Separate(<<>>) /\ ToSet(<<>>) = {} /\ AllClosed({})
      BY DEF Separate, ToSet, AllClosed
    <3> QED
      BY <3>1, <3>2, <1>2
  <2>2. ASSUME NEW n \in 1 .. N, g[n - 1] \in D[n - 1]
        PROVE  g[n] \in D[n]
    <3>1. n - 1 \in 0 .. N /\ n \in 0 .. N
      BY <1>1
    <3>2. /\ g[n - 1] \in Ivals /\ g[n] \in Ivals /\ g[n] = Added(g[n - 1], s[n])
          /\ AllClosed(ToSet(g[n - 1]))
          /\ Separate(g[n - 1])
          /\ \A x \in ToSet(g[n - 1]) : \E q \in 1 .. n - 1 : x.lower.value = s[q].lower.value
      BY <2>2, <3>1, <1>2
    <3>3. s[n] \in IntervalType /\ IsClosed(s[n])
      BY <1>1 DEF AllClosed
    <3>4. ASSUME NEW q \in 1 .. n - 1
          PROVE  s[q].lower.value <= s[n].lower.value
      <4>1. q \in 1 .. N /\ q < n
        BY <1>1
      <4>2. s[q].lower.value \in Int /\ s[n].lower.value \in Int
        BY <1>1, <4>1, IntervalParts DEF Value
      <4>3. Precedes(s[n], s[q]) => Precedes(s[q], s[n])
        BY <4>1, <1>1 DEF InOrder
      <4> QED
        BY <4>2, <4>3 DEF Precedes, Less
    <3>5. \A x \in ToSet(g[n - 1]) : x.lower.value <= s[n].lower.value
      BY <3>2, <3>4
    <3>6. /\ Separate(g[n])
          /\ \A x \in ToSet(g[n]) :
               x.lower.value = s[n].lower.value \/ \E y \in ToSet(g[n - 1]) : x.lower.value = y.lower.value
      BY <3>2, <3>3, <3>5, AddedSeparate
    <3>7. \A x \in ToSet(g[n]) : \E q \in 1 .. n : x.lower.value = s[q].lower.value
      <4>1. n \in 1 .. n /\ \A q \in 1 .. n - 1 : q \in 1 .. n
        BY <1>1
      <4> QED
        BY <3>2, <3>6, <4>1
    <3>8. AllClosed(ToSet(g[n]))
      BY <3>2, <3>3, AddedCovers
    <3> QED
      BY <3>1, <3>2, <3>6, <3>7, <3>8
  <2> HIDE DEF D, N
  <2> QED
    BY <1>1, <2>1, <2>2, StepsStay
<1>4. N \in 0 .. N
  BY <1>1
<1>5. g[N] \in D[N]
  <2> HIDE DEF D
  <2> QED
    BY <1>3, <1>4
<1>6. Separate(g[N])
  BY <1>4, <1>5
<1> QED
  BY <1>2, <1>6

(* What active_memberships yields, joined: closed, separate intervals  *)
(* that cover the closures of the selected rows.                           *)
LEMMA ClosuresFacts ==
  ASSUME NEW t, IsTable(t), NEW during
  PROVE  /\ Closures(t, during) \in Ivals
         /\ AllClosed(ToSet(Closures(t, during)))
         /\ Separate(Closures(t, during))
         /\ Covered(ToSet(Closures(t, during))) = Covered({Closure(Loaded(t[k])) : k \in Selected(t, during)})
         /\ \A x \in ToSet(Closures(t, during)) :
              \E k \in Selected(t, during) : x.upper.value = Loaded(t[k]).upper.value
<1> DEFINE K == Selected(t, during)
           S == {Closure(Loaded(t[k])) : k \in K}
<1>1. K \in SUBSET RowId /\ \A k \in K : t[k] \in DbRange
  BY DEF Selected, IsTable
<1>2. S \in SUBSET IntervalType
  BY <1>1, LoadedTyped, ClosureTyped
<1>3. AllClosed(S)
  BY ClosureClosed DEF AllClosed
<1>4. IsFiniteSet(S)
  <2>1. IsFiniteSet(RowId)
    BY MaxRowsAssumption, FS_Interval DEF RowId, MaxRowsAssumption
  <2>2. IsFiniteSet(K)
    BY <2>1, <1>1, FS_Subset
  <2> DEFINE f == [k \in K |-> Closure(Loaded(t[k]))]
  <2>3. f \in Surjection(K, S)
    BY DEF Surjection
  <2> HIDE DEF f, K, S
  <2> QED
    BY <2>2, <2>3, FS_Surjection
<1>5. Closures(t, during) = JoinSorted(SortedSeq(S))
  BY DEF Closures, FromIntervals
<1> HIDE DEF S
<1>6. SortedSeq(S) \in Ivals /\ ToSet(SortedSeq(S)) = S /\ InOrder(SortedSeq(S))
  BY <1>2, <1>4, SortedFacts
<1>7. Closures(t, during) \in Ivals /\ AllClosed(ToSet(Closures(t, during))) /\ Separate(Closures(t, during))
      /\ Covered(ToSet(Closures(t, during))) = Covered(S)
  BY <1>3, <1>5, <1>6, JoinedClosed, JoinedSeparate
<1>8. \A x \in ToSet(Closures(t, during)) : \E y \in S : x.upper.value = y.upper.value
  <2>1. \A i \in ToSet(SortedSeq(S)) : BeginsClosed(i)
    BY <1>3, <1>6 DEF AllClosed, IsClosed, BeginsClosed
  <2> QED
    BY <1>5, <1>6, <2>1, JoinedKeeps
<1>9. \A y \in S : \E k \in K : y.upper.value = Loaded(t[k]).upper.value
  <2>1. \A i : Closure(i).upper.value = i.upper.value
    BY DEF Closure, Closed, Ival, Bnd
  <2> QED
    BY <2>1 DEF S
<1>10. \A x \in ToSet(Closures(t, during)) : \E k \in K : x.upper.value = Loaded(t[k]).upper.value
  BY <1>8, <1>9
<1> QED
  BY <1>7, <1>10 DEF S, K

(* What make_member_of inserts covers the granted interval and else only   *)
(* closures of the rows it deletes.                                        *)
LEMMA MadeFacts ==
  ASSUME NEW t, IsTable(t), NEW during \in IntervalType
  PROVE  /\ Made(t, during) \in Ivals
         /\ PointsOf(during) \subseteq Covered(ToSet(Made(t, during)))
         /\ Covered(ToSet(Made(t, during)))
              \subseteq Covered({Closure(Loaded(t[k])) : k \in Selected(t, during)}) \cup PointsOf(during)
         /\ BeginsClosed(during) =>
              /\ \A x \in ToSet(Made(t, during)) : Proper(x)
              /\ Covered({Closure(Loaded(t[k])) : k \in Selected(t, during)})
                   \subseteq Covered(ToSet(Made(t, during)))
                             \cup {2 * Loaded(t[k]).upper.value : k \in Selected(t, during)}
<1> DEFINE s == Closures(t, during)
           d == <<during>>
           c == ChainOrdered(s, d)
<1>1. s \in Ivals /\ AllClosed(ToSet(s))
      /\ Covered(ToSet(s)) = Covered({Closure(Loaded(t[k])) : k \in Selected(t, during)})
      /\ \A x \in ToSet(s) : \E k \in Selected(t, during) : x.upper.value = Loaded(t[k]).upper.value
  BY ClosuresFacts
<1>2. d \in Ivals /\ Len(d) = 1 /\ d[1] = during /\ ToSet(d) = {during}
  BY DEF Ivals, ToSet
<1>3. Made(t, during) = JoinSorted(c)
  BY DEF Made, UnionOf
<1> HIDE DEF s, d
<1>4. /\ c \in Ivals
      /\ ToSet(c) \subseteq ToSet(s) \cup {during}
      /\ ToSet(s) \subseteq ToSet(c)
      /\ \E p \in 1 .. Len(c) : c[p] = during /\ \A q \in (1 .. Len(c)) \ {p} : c[q] \in ToSet(s)
  <2>1. /\ c \in Ivals
        /\ ToSet(c) \subseteq ToSet(s) \cup ToSet(d)
        /\ ToSet(s) \subseteq ToSet(c)
        /\ \E p \in 1 .. Len(c) : c[p] = d[1] /\ \A q \in (1 .. Len(c)) \ {p} : c[q] \in ToSet(s)
    BY <1>1, <1>2, ChainFacts, ChainTakesAll
  <2> HIDE DEF c
  <2> QED
    BY <2>1, <1>2
<1> HIDE DEF c
<1>0. BeginsClosed(during) => \A i \in ToSet(c) : BeginsClosed(i)
  BY <1>1, <1>4 DEF AllClosed, IsClosed, BeginsClosed
<1>5. PICK p \in 1 .. Len(c) : c[p] = during /\ \A q \in (1 .. Len(c)) \ {p} : c[q] \in ToSet(s)
  BY <1>4
<1>6. \A q \in (1 .. Len(c)) \ {p} : IsClosed(c[q])
  BY <1>1, <1>5 DEF AllClosed
<1>7. /\ JoinSorted(c) \in Ivals
      /\ PointsOf(during) \subseteq Covered(ToSet(JoinSorted(c)))
      /\ Covered(ToSet(JoinSorted(c))) \subseteq Covered(ToSet(c))
  BY <1>4, <1>5, <1>6, JoinedButOne
<1>8. Covered(ToSet(c)) \subseteq Covered(ToSet(s)) \cup PointsOf(during)
  BY <1>4 DEF Covered
<1>9. BeginsClosed(during) => \A x \in ToSet(JoinSorted(c)) : Proper(x)
  BY <1>0, <1>4, JoinedProper
<1>10. BeginsClosed(during) =>
         Covered(ToSet(s)) \subseteq Covered(ToSet(JoinSorted(c)))
                                     \cup {2 * Loaded(t[k]).upper.value : k \in Selected(t, during)}
  <2> SUFFICES ASSUME BeginsClosed(during), NEW q \in Covered(ToSet(s)), q \notin Covered(ToSet(JoinSorted(c)))
               PROVE  \E k \in Selected(t, during) : q = 2 * Loaded(t[k]).upper.value
    OBVIOUS
  <2>1. PICK x \in ToSet(s) : q \in PointsOf(x)
    BY CoveredOf
  <2>2. q = 2 * x.upper.value
    BY <1>0, <1>4, <2>1, JoinedKeeps
  <2> QED
    BY <1>1, <2>1, <2>2
<1> QED
  BY <1>1, <1>3, <1>7, <1>8, <1>9, <1>10

(* All time before a moment, and what of a set of points lies there.       *)
Past(from)      == Ival(Bnd(NegInf, FALSE), Bnd(from, FALSE))
PointsBefore(P, from) == {p \in P : p < 2 * from}

(* Everything but the time from a moment on is the time before it.         *)
LEMMA PastFacts ==
  ASSUME NEW from \in Instant
  PROVE  /\ Past(from) \in IntervalType
         /\ Past(from).lower = Bnd(NegInf, FALSE) /\ Past(from).upper = Bnd(from, FALSE)
         /\ Bnd(NegInf, FALSE) = [value |-> NegInf, closed |-> FALSE]
         /\ Bnd(from, FALSE) = [value |-> from, closed |-> FALSE]
         /\ Complement(<<StartingFrom(from)>>) = <<Past(from)>>
<1> DEFINE d == StartingFrom(from)
<1>1. Past(from).lower = Bnd(NegInf, FALSE) /\ Past(from).upper = Bnd(from, FALSE)
  BY DEF Past, Ival
<1>2. /\ Bnd(NegInf, FALSE) = [value |-> NegInf, closed |-> FALSE]
      /\ Bnd(from, FALSE) = [value |-> from, closed |-> FALSE]
  BY DEF Bnd
<1>3. NegInf < from /\ from < PosInf /\ NegInf \in Value /\ from \in Value /\ PosInf \in Value
      /\ NegInf \in Int /\ from \in Int /\ PosInf \in Int
  BY DEF Instant, Value
<1>4. Past(from) \in IntervalType
  <2>1. Bnd(NegInf, FALSE) \in BoundType /\ Bnd(from, FALSE) \in BoundType
    BY <1>3, BoundTyped
  <2>2. ~Less(Bnd(from, FALSE), Bnd(NegInf, FALSE))
    <3>1. Bnd(from, FALSE).value = from /\ Bnd(NegInf, FALSE).value = NegInf
      BY BoundValue
    <3>2. ~(from < NegInf) /\ from # NegInf
      BY <1>3
    <3> QED
      BY <3>1, <3>2 DEF Less
  <2> QED
    BY <2>1, <2>2, IntervalTyped DEF Past
<1>5. d.lower.value = from /\ d.lower.closed /\ d.upper.value = PosInf
  <2>1. d.lower = Bnd(from, TRUE) /\ d.upper = Bnd(PosInf, FALSE)
    BY DEF StartingFrom, ClosedOpen, Ival
  <2>2. from \notin Infinite
    BY <1>3 DEF Infinite
  <2>3. Bnd(from, TRUE).closed
    BY <2>2 DEF Bnd
  <2> HIDE DEF d
  <2> QED
    BY <2>1, <2>3, BoundValue
<1>6. Invert(d.lower) = Bnd(from, FALSE)
  <2>1. (~d.lower.closed) = FALSE
    BY <1>5
  <2> HIDE DEF d
  <2> QED
    BY <1>5, <2>1 DEF Invert
<1>7. Complement(<<d>>) = <<Past(from)>>
  <2> DEFINE s == <<d>>
  <2>1. s # <<>> /\ s[1] = d /\ Last(s) = d /\ Len(s) = 1
    BY DEF Last
  <2>2. s[1].lower.value \notin Infinite /\ Last(s).upper.value \in Infinite
    BY <2>1, <1>5, <1>3 DEF Infinite
  <2>3. GapBefore(s) = <<Past(from)>>
    BY <2>1, <1>6 DEF GapBefore, Past
  <2>4. Gaps(s) = <<>>
    BY <2>1 DEF Gaps
  <2> HIDE DEF s
  <2>5. Complement(s) = (GapBefore(s) \o Gaps(s)) \o <<>>
    BY <2>1, <2>2 DEF Complement
  <2>6. Complement(s) = <<Past(from)>>
    BY <2>3, <2>4, <2>5
  <2> QED
    BY <2>6 DEF s
<1> QED
  BY <1>1, <1>2, <1>4, <1>7

(* What an interval has in common with the past: its points there, and     *)
(* perhaps the very moment.                                                *)
LEMMA CommonWithPast ==
  ASSUME NEW from \in Instant, NEW i \in IntervalType
  PROVE  /\ Common(i, Past(from)) \in Ivals
         /\ IsClosed(i) => \A y \in ToSet(Common(i, Past(from))) : Proper(y)
         /\ Covered(ToSet(Common(i, Past(from)))) \ {2 * from} = PointsBefore(PointsOf(i), from)
<1> DEFINE x == Past(from)
           c == Intersect(i, x)
<1>1. /\ x \in IntervalType
      /\ x.lower.value = NegInf /\ ~x.lower.closed
      /\ x.upper.value = from /\ ~x.upper.closed
  <2>1. x \in IntervalType /\ x.lower = Bnd(NegInf, FALSE) /\ x.upper = Bnd(from, FALSE)
    BY PastFacts
  <2>2. \A v : ~Bnd(v, FALSE).closed
    BY DEF Bnd
  <2> HIDE DEF x
  <2> QED
    BY <2>1, <2>2, BoundValue
<1>2. /\ i.lower \in BoundType /\ i.upper \in BoundType
      /\ i.lower.value \in Int /\ i.upper.value \in Int
      /\ NegInf <= i.lower.value /\ i.lower.value <= i.upper.value /\ i.upper.value <= PosInf
      /\ i.upper.value = NegInf => FALSE
  <2>1. i.lower.value = i.upper.value => i.lower.value \in Instant
    BY IntervalParts
  <2>2. i.lower \in BoundType /\ i.upper \in BoundType /\ i.lower.value \in Value /\ i.upper.value \in Value
        /\ i.lower.value <= i.upper.value
    BY IntervalParts
  <2> QED
    BY <2>1, <2>2 DEF Value, Instant
<1>3. from \in Int /\ NegInf < from /\ from < PosInf /\ from \notin Infinite
  BY DEF Instant, Infinite
<1>4. Overlaps(i, x) <=> i.lower.value < from
  BY <1>1, <1>2, <1>3 DEF Overlaps, Leq, Infinite
<1>5. Overlaps(i, x) => Common(i, x) \in Ivals
                        /\ Covered(ToSet(Common(i, x))) = PointsOf(c)
  <2> SUFFICES ASSUME Overlaps(i, x)
               PROVE  Common(i, x) \in Ivals /\ Covered(ToSet(Common(i, x))) = PointsOf(c)
    OBVIOUS
  <2>1. c \in IntervalType
    BY <1>1, IntersectTyped
  <2> HIDE DEF c
  <2>2. <<c>> \in Ivals /\ <<>> \in Ivals /\ ToSet(<<c>>) = {c} /\ ToSet(<<>>) = {}
    BY <2>1 DEF Ivals, ToSet
  <2>3. Covered({c}) = PointsOf(c) /\ Covered({}) = {}
    BY DEF Covered
  <2>4. Common(i, x) = IF IsEmpty(c) THEN <<>> ELSE <<c>>
    BY DEF Common, c
  <2> QED
    BY <2>1, <2>2, <2>3, <2>4, EmptyHasNoPoint
<1>6. Overlaps(i, x) => PointsOf(c) \ {2 * from} = PointsBefore(PointsOf(i), from)
  <2>1. /\ c.lower = MaxBound(i.lower, x.lower)
        /\ c.upper = MinBound(i.upper, x.upper)
    BY DEF Intersect, Ival
  <2>2. c.lower.value = i.lower.value /\ (c.lower.closed <=> i.lower.closed)
    <3>1. i.lower.value \in Infinite => ~i.lower.closed
      BY <1>2 DEF BoundType
    <3> QED
      BY <2>1, <3>1, <1>1, <1>2 DEF MaxBound, Less, Infinite
  <2>3. c.upper = IF from < i.upper.value THEN x.upper ELSE i.upper
    BY <2>1, <1>1, <1>2, <1>3 DEF MinBound, Less
  <2>4. ASSUME NEW p \in Point, p # 2 * from
        PROVE  From(c.lower, p) /\ Till(c.upper, p) <=> From(i.lower, p) /\ Till(i.upper, p) /\ p < 2 * from
    BY <2>2, <2>3, <2>4, <1>1, <1>2, <1>3 DEF From, Till, Point
  <2>5. 2 * from \in Int /\ \A p \in Point : p \in Int /\ (p < 2 * from => p # 2 * from)
    BY <1>3 DEF Point
  <2>6. PointsOf(c) = {p \in Point : From(c.lower, p) /\ Till(c.upper, p)}
    BY PointsAre
  <2>7. PointsOf(i) = {p \in Point : From(i.lower, p) /\ Till(i.upper, p)}
    BY PointsAre
  <2> HIDE DEF c
  <2>8. PointsOf(c) \ {2 * from} = PointsBefore(PointsOf(i), from)
    BY <2>4, <2>5, <2>6, <2>7 DEF PointsBefore
  <2> QED
    BY <2>8
<1>7. ~Overlaps(i, x) => Common(i, x) = <<>> /\ PointsBefore(PointsOf(i), from) = {}
  <2> SUFFICES ASSUME ~Overlaps(i, x)
               PROVE  Common(i, x) = <<>> /\ PointsBefore(PointsOf(i), from) = {}
    OBVIOUS
  <2>1. ASSUME NEW p \in Point, From(i.lower, p)
        PROVE  ~(p < 2 * from)
    BY <2>1, <1>2, <1>3, <1>4 DEF From, Point
  <2>2. Common(i, x) = <<>>
    BY DEF Common
  <2> QED
    BY <2>1, <2>2, PointsAre DEF PointsBefore
<1>8. <<>> \in Ivals /\ Covered(ToSet(<<>>)) = {}
  BY NothingCovered DEF Ivals
<1>10. IsClosed(i) => \A y \in ToSet(Common(i, x)) : Proper(y)
  <2>1. c.lower = MaxBound(i.lower, x.lower)
    BY DEF Intersect, Ival
  <2>2. c.lower \in {i.lower, x.lower}
    BY <2>1 DEF MaxBound
  <2>3. x.lower.value \in Infinite
    BY <1>1 DEF Infinite
  <2>4. IsClosed(i) => BeginsClosed(c)
    BY <2>2, <2>3 DEF IsClosed, BeginsClosed
  <2> HIDE DEF c, x
  <2>5. ToSet(<<c>>) = {c} /\ ToSet(<<>>) = {}
    BY DEF ToSet
  <2>6. Common(i, x) = IF Overlaps(i, x) /\ ~IsEmpty(c) THEN <<c>> ELSE <<>>
    BY DEF Common, c
  <2> QED
    BY <2>4, <2>5, <2>6 DEF Proper
<1> HIDE DEF c, x
<1>9. /\ Common(i, x) \in Ivals
      /\ Covered(ToSet(Common(i, x))) \ {2 * from} = PointsBefore(PointsOf(i), from)
  <2>1. CASE Overlaps(i, x)
    BY <2>1, <1>5, <1>6
  <2>2. CASE ~Overlaps(i, x)
    BY <2>2, <1>7, <1>8
  <2> QED
    BY <2>1, <2>2
<1> QED
  BY <1>9, <1>10 DEF x

LEMMA ConcatFacts ==
  ASSUME NEW f \in Ivals, NEW h \in Ivals
  PROVE  f \o h \in Ivals /\ ToSet(f \o h) = ToSet(f) \cup ToSet(h)
<1>1. /\ f \o h \in Ivals
      /\ Len(f \o h) = Len(f) + Len(h)
      /\ \A n \in 1 .. Len(f) : (f \o h)[n] = f[n]
      /\ \A n \in 1 .. Len(h) : (f \o h)[Len(f) + n] = h[n]
      /\ \A n \in 1 .. Len(f) + Len(h) : n \notin 1 .. Len(f) => n - Len(f) \in 1 .. Len(h) /\ (f \o h)[n] = h[n - Len(f)]
      /\ DOMAIN (f \o h) = 1 .. Len(f) + Len(h) /\ DOMAIN f = 1 .. Len(f) /\ DOMAIN h = 1 .. Len(h)
      /\ Len(f) \in Nat /\ Len(h) \in Nat
  BY DEF Ivals
<1>2. ASSUME NEW y \in ToSet(f \o h)
      PROVE  y \in ToSet(f) \cup ToSet(h)
  BY <1>1 DEF ToSet
<1>3. ASSUME NEW y \in ToSet(f)
      PROVE  y \in ToSet(f \o h)
  <2>1. PICK n \in 1 .. Len(f) : y = f[n]
    BY <1>1 DEF ToSet
  <2>2. n \in DOMAIN (f \o h) /\ y = (f \o h)[n]
    BY <2>1, <1>1
  <2> QED
    BY <2>2 DEF ToSet
<1>4. ASSUME NEW y \in ToSet(h)
      PROVE  y \in ToSet(f \o h)
  <2>1. PICK n \in 1 .. Len(h) : y = h[n]
    BY <1>1 DEF ToSet
  <2>2. Len(f) + n \in DOMAIN (f \o h) /\ y = (f \o h)[Len(f) + n]
    BY <2>1, <1>1
  <2> QED
    BY <2>2 DEF ToSet
<1> QED
  BY <1>1, <1>2, <1>3, <1>4

(* What the first n intervals cover.                                       *)
CoveredTo(s, n) == Covered({s[m] : m \in 1 .. n})

(* Where _intersect of s with the past may be after k steps.               *)
CutAfter(s, from, k) ==
  {w \in [left: 1 .. Len(s) + 1, right: 1 .. 2, out: Ivals] :
     /\ \A x \in ToSet(w.out) : Proper(x)
     /\ w.right = 1 => /\ w.left = k + 1 \/ w.left = Len(s) + 1
                       /\ Covered(ToSet(w.out)) \ {2 * from} = PointsBefore(CoveredTo(s, w.left - 1), from)
     /\ w.right = 2 => /\ w.left <= Len(s) /\ from <= s[w.left].upper.value
                       /\ Covered(ToSet(w.out)) \ {2 * from} = PointsBefore(CoveredTo(s, w.left), from)}

LEMMA CoveredMore ==
  ASSUME NEW s, NEW n \in Nat \ {0}
  PROVE  CoveredTo(s, n) = CoveredTo(s, n - 1) \cup PointsOf(s[n])
<1>1. \A m \in 1 .. n : m \in 1 .. n - 1 \/ m = n
  OBVIOUS
<1>2. n \in 1 .. n /\ \A m \in 1 .. n - 1 : m \in 1 .. n
  OBVIOUS
<1>3. {s[m] : m \in 1 .. n} = {s[m] : m \in 1 .. n - 1} \cup {s[n]}
  BY <1>1, <1>2
<1> QED
  BY <1>3, CoveredOf DEF CoveredTo

(* Every step of the intersection keeps to that.                           *)
LEMMA CutStepStays ==
  ASSUME NEW s \in Ivals, AllClosed(ToSet(s)), NEW from \in Instant, NEW k \in 1 .. Len(s) + 1,
         NEW w \in CutAfter(s, from, k - 1)
  PROVE  IntersectStep(s, <<Past(from)>>, w) \in CutAfter(s, from, k)
<1> DEFINE t == <<Past(from)>>
           v == IntersectStep(s, t, w)
           i == s[w.left]
<1> SUFFICES v \in CutAfter(s, from, k)
  OBVIOUS
<1>1. /\ w \in [left: 1 .. Len(s) + 1, right: 1 .. 2, out: Ivals]
      /\ w.left \in 1 .. Len(s) + 1 /\ w.right \in 1 .. 2 /\ w.out \in Ivals
      /\ Len(s) \in Nat /\ k \in Nat
      /\ \A x \in ToSet(w.out) : Proper(x)
      /\ w.right = 1 => /\ w.left = k \/ w.left = Len(s) + 1
                        /\ Covered(ToSet(w.out)) \ {2 * from} = PointsBefore(CoveredTo(s, w.left - 1), from)
      /\ w.right = 2 => /\ w.left <= Len(s) /\ from <= s[w.left].upper.value
                        /\ Covered(ToSet(w.out)) \ {2 * from} = PointsBefore(CoveredTo(s, w.left), from)
  BY DEF CutAfter, Ivals
<1>2. Len(t) = 1 /\ t[1] = Past(from)
  OBVIOUS
<1> HIDE DEF t
<1>3. CASE w.left > Len(s) \/ w.right > Len(t)
  <2>1. v = w
    BY <1>3 DEF IntersectStep
  <2>2. w.right = 1 => w.left = k + 1 \/ w.left = Len(s) + 1
    BY <1>1, <1>2, <1>3
  <2> QED
    BY <1>1, <2>1, <2>2 DEF CutAfter
<1>4. CASE ~(w.left > Len(s) \/ w.right > Len(t))
  <2>1. w.right = 1 /\ w.left \in 1 .. Len(s) /\ w.left = k
    BY <1>1, <1>2, <1>4
  <2>2. i \in IntervalType /\ IsClosed(i)
    BY <2>1, ToSetFacts DEF Ivals, AllClosed
  <2> DEFINE c == Common(i, Past(from))
             out == w.out \o c
  <2>3. /\ c \in Ivals /\ Covered(ToSet(c)) \ {2 * from} = PointsBefore(PointsOf(i), from)
        /\ \A x \in ToSet(c) : Proper(x)
    BY <2>2, CommonWithPast
  <2>4. v = IF Less(i.upper, Past(from).upper)
            THEN [left |-> w.left + 1, right |-> w.right, out |-> out]
            ELSE [left |-> w.left, right |-> w.right + 1, out |-> out]
    BY <1>2, <1>4, <2>1 DEF IntersectStep
  <2> HIDE DEF c
  <2>5. out \in Ivals /\ ToSet(out) = ToSet(w.out) \cup ToSet(c)
    BY <1>1, <2>3, ConcatFacts
  <2> HIDE DEF out, i
  <2>11. \A x \in ToSet(out) : Proper(x)
    BY <1>1, <2>3, <2>5
  <2>6. Covered(ToSet(out)) = Covered(ToSet(w.out)) \cup Covered(ToSet(c))
    BY <2>5 DEF Covered
  <2>7. CoveredTo(s, w.left) = CoveredTo(s, w.left - 1) \cup PointsOf(i)
    BY <2>1, CoveredMore DEF i
  <2>8. Covered(ToSet(out)) \ {2 * from} = PointsBefore(CoveredTo(s, w.left), from)
    <3>1. Covered(ToSet(w.out)) \ {2 * from} = PointsBefore(CoveredTo(s, w.left - 1), from)
      BY <1>1, <2>1
    <3>2. PointsBefore(CoveredTo(s, w.left), from)
          = PointsBefore(CoveredTo(s, w.left - 1), from) \cup PointsBefore(PointsOf(i), from)
      BY <2>7 DEF PointsBefore
    <3> QED
      BY <2>3, <2>6, <3>1, <3>2
  <2>9. CASE Less(i.upper, Past(from).upper)
    <3>1. v = [left |-> w.left + 1, right |-> w.right, out |-> out]
      BY <2>4, <2>9
    <3>2. /\ v \in [left: 1 .. Len(s) + 1, right: 1 .. 2, out: Ivals]
          /\ v.left = k + 1 /\ v.right = 1 /\ v.out = out /\ v.left - 1 = w.left
      BY <3>1, <2>1, <2>5, <1>1
    <3> HIDE DEF v
    <3> QED
      BY <3>2, <2>8, <2>11 DEF CutAfter
  <2>10. CASE ~Less(i.upper, Past(from).upper)
    <3>1. v = [left |-> w.left, right |-> w.right + 1, out |-> out]
      BY <2>4, <2>10
    <3>2. /\ v \in [left: 1 .. Len(s) + 1, right: 1 .. 2, out: Ivals]
          /\ v.left = w.left /\ v.right = 2 /\ v.out = out /\ v.left <= Len(s)
      BY <3>1, <2>1, <2>5, <1>1
    <3>3. from <= i.upper.value
      <4>1. Past(from).upper.value = from
        BY PastFacts, BoundValue
      <4>2. i.upper.value \in Int /\ from \in Int
        BY <2>2, IntervalParts DEF Value, Instant
      <4> QED
        BY <2>10, <4>1, <4>2 DEF Less
    <3>4. s[v.left] = i
      BY <3>2 DEF i
    <3> HIDE DEF v
    <3> QED
      BY <3>2, <3>3, <3>4, <2>8, <2>11 DEF CutAfter
  <2> QED
    BY <2>9, <2>10
<1> QED
  BY <1>3, <1>4

(* Intersecting separate intervals with the past leaves of what they cover *)
(* what lies there, but for the very moment.                               *)
LEMMA CutFacts ==
  ASSUME NEW s \in Ivals, AllClosed(ToSet(s)), Separate(s), NEW from \in Instant
  PROVE  /\ IntersectionOf(s, <<Past(from)>>) \in Ivals
         /\ Covered(ToSet(IntersectionOf(s, <<Past(from)>>))) \ {2 * from}
              = PointsBefore(Covered(ToSet(s)), from)
         /\ \A x \in ToSet(IntersectionOf(s, <<Past(from)>>)) : Proper(x)
<1> DEFINE t == <<Past(from)>>
           N == Len(s) + Len(t)
           D == [n \in 0 .. N |-> CutAfter(s, from, n)]
           F == [n \in 1 .. N |-> [w \in CutAfter(s, from, n - 1) |-> IntersectStep(s, t, w)]]
           e == WalkBegin
           IsIt(g) == g = [n \in 0 .. N |-> IF n = 0 THEN WalkBegin ELSE IntersectStep(s, t, g[n - 1])]
           j == CHOOSE g : IsIt(g)
<1>1. N \in Nat /\ Len(s) \in Nat /\ N = Len(s) + 1
  BY DEF Ivals
<1>2. e \in D[0]
  <2>1. WalkBegin \in CutAfter(s, from, 0)
    <3>1. /\ WalkBegin.left = 1 /\ WalkBegin.right = 1 /\ WalkBegin.out = <<>>
          /\ WalkBegin \in [left: 1 .. Len(s) + 1, right: 1 .. 2, out: Ivals]
      BY <1>1 DEF WalkBegin, Ivals
    <3>2. CoveredTo(s, 1 - 1) = {}
      <4>1. {s[m] : m \in 1 .. 1 - 1} = {}
        OBVIOUS
      <4> QED
        BY <4>1, CoveredOf DEF CoveredTo
    <3>3. Covered(ToSet(<<>>)) \ {2 * from} = PointsBefore(CoveredTo(s, 1 - 1), from)
      BY <3>2, NothingCovered DEF PointsBefore
    <3>4. ToSet(<<>>) = {}
      BY DEF ToSet
    <3> QED
      BY <3>1, <3>3, <3>4 DEF CutAfter
  <2> QED
    BY <2>1, <1>1
<1>3. PICK g : Computes(g, N, e, F) /\ Stays(g, N, D)
  <2>2. \A k \in 1 .. N : \A x \in D[k - 1] : F[k][x] \in D[k]
    <3>1. ASSUME NEW k \in 1 .. N, NEW x \in D[k - 1]
          PROVE  F[k][x] \in D[k]
      <4>1. x \in CutAfter(s, from, k - 1) /\ D[k] = CutAfter(s, from, k) /\ k \in 1 .. Len(s) + 1
        BY <1>1
      <4>2. IntersectStep(s, t, x) \in CutAfter(s, from, k)
        BY <4>1, CutStepStays
      <4> QED
        BY <4>1, <4>2
    <3> QED
      BY <3>1
  <2> HIDE DEF D, F, N, e
  <2> QED
    BY <1>1, <1>2, <2>2, StepByStep
<1>4. IsIt(g)
  <2>1. ASSUME NEW n \in 0 .. N
        PROVE  (IF n = 0 THEN e ELSE F[n][g[n - 1]]) = (IF n = 0 THEN WalkBegin ELSE IntersectStep(s, t, g[n - 1]))
    <3>1. n # 0 => n \in 1 .. N /\ n - 1 \in 0 .. N
      BY <1>1
    <3>2. n # 0 => g[n - 1] \in CutAfter(s, from, n - 1)
      BY <3>1, <1>3 DEF Stays
    <3> QED
      BY <3>1, <3>2
  <2> HIDE DEF F, D, N, e
  <2> QED
    BY <1>3, <2>1 DEF Computes
<1>5. IsIt(j)
  BY <1>4
<1>6. IntersectionOf(s, t) = j[N].out
  BY DEF IntersectionOf
<1> HIDE DEF j
<1>7. j[0] = WalkBegin /\ \A n \in 1 .. N : j[n] = IntersectStep(s, t, j[n - 1])
  BY <1>5, <1>1
<1>8. \A n \in 0 .. N : j[n] \in D[n]
  <2>1. j[0] \in D[0]
    BY <1>7, <1>2
  <2>2. ASSUME NEW n \in 1 .. N, j[n - 1] \in D[n - 1]
        PROVE  j[n] \in D[n]
    <3>1. j[n - 1] \in CutAfter(s, from, n - 1) /\ D[n] = CutAfter(s, from, n) /\ n \in 1 .. Len(s) + 1
      BY <2>2, <1>1
    <3>2. IntersectStep(s, t, j[n - 1]) \in CutAfter(s, from, n)
      BY <3>1, CutStepStays
    <3> QED
      BY <3>1, <3>2, <1>7
  <2> HIDE DEF D, N, F
  <2> QED
    BY <1>1, <2>1, <2>2, StepsStay
<1> DEFINE w == j[N]
<1>9. w \in CutAfter(s, from, Len(s) + 1)
  BY <1>8, <1>1
<1> HIDE DEF w, N
<1>10. /\ \A x \in ToSet(w.out) : Proper(x)
       /\ w.left \in 1 .. Len(s) + 1 /\ w.right \in 1 .. 2 /\ w.out \in Ivals
       /\ w.right = 1 => /\ w.left = Len(s) + 1
                         /\ Covered(ToSet(w.out)) \ {2 * from} = PointsBefore(CoveredTo(s, w.left - 1), from)
       /\ w.right = 2 => /\ w.left <= Len(s) /\ from <= s[w.left].upper.value
                         /\ Covered(ToSet(w.out)) \ {2 * from} = PointsBefore(CoveredTo(s, w.left), from)
  BY <1>9, <1>1 DEF CutAfter
<1>11. ToSet(s) = {s[m] : m \in 1 .. Len(s)}
  BY ToSetFacts DEF ToSet, Ivals
<1>12. Covered(ToSet(s)) = CoveredTo(s, Len(s))
  BY <1>11 DEF CoveredTo
<1>13. Covered(ToSet(w.out)) \ {2 * from} = PointsBefore(CoveredTo(s, Len(s)), from)
  <2>1. CASE w.right = 1
    <3>1. w.left - 1 = Len(s)
      BY <2>1, <1>10, <1>1
    <3> QED
      BY <2>1, <3>1, <1>10
  <2>2. CASE w.right = 2
    <3>1. w.left \in 1 .. Len(s) /\ from <= s[w.left].upper.value
      BY <2>2, <1>10, <1>1
    <3>2. ASSUME NEW m \in 1 .. Len(s), ~(m \in 1 .. w.left)
          PROVE  PointsBefore(PointsOf(s[m]), from) = {}
      <4>1. w.left < m /\ s[w.left].upper.value <= s[m].lower.value
        BY <3>1, <3>2, <1>1 DEF Separate
      <4>2. s[m] \in IntervalType /\ s[w.left] \in IntervalType
        BY <3>1 DEF Ivals
      <4>3. s[m].lower.value \in Int /\ s[w.left].upper.value \in Int /\ from \in Int
        BY <4>2, IntervalParts DEF Value, Instant
      <4>4. ASSUME NEW p \in Point, From(s[m].lower, p)
            PROVE  ~(p < 2 * from)
        BY <4>1, <4>3, <4>4, <3>1 DEF From, Point
      <4> QED
        BY <4>4, PointsAre DEF PointsBefore
    <3>3. PointsBefore(CoveredTo(s, Len(s)), from) = PointsBefore(CoveredTo(s, w.left), from)
      <4>1. \A m \in 1 .. w.left : m \in 1 .. Len(s)
        BY <3>1, <1>1
      <4>2. ASSUME NEW p
            PROVE  p \in CoveredTo(s, Len(s)) /\ p < 2 * from <=> p \in CoveredTo(s, w.left) /\ p < 2 * from
        <5>1. p \in CoveredTo(s, Len(s)) <=> \E m \in 1 .. Len(s) : p \in PointsOf(s[m])
          BY DEF CoveredTo, Covered
        <5>2. p \in CoveredTo(s, w.left) <=> \E m \in 1 .. w.left : p \in PointsOf(s[m])
          BY DEF CoveredTo, Covered
        <5>3. \A m \in 1 .. Len(s) : m \notin 1 .. w.left => ~(p \in PointsOf(s[m]) /\ p < 2 * from)
          BY <3>2 DEF PointsBefore
        <5> QED
          BY <4>1, <5>1, <5>2, <5>3
      <4> QED
        BY <4>2 DEF PointsBefore
    <3> QED
      BY <2>2, <3>3, <1>10
  <2> QED
    BY <2>1, <2>2, <1>10
<1> QED
  BY <1>6, <1>10, <1>12, <1>13 DEF w

(* What remove_member_of inserts covers what lies before the moment it     *)
(* ends the memberships at, but perhaps for that very moment.              *)
LEMMA RemovedFacts ==
  ASSUME NEW t, IsTable(t), NEW from \in Instant
  PROVE  /\ Removed(t, StartingFrom(from)) \in Ivals
         /\ Covered(ToSet(Removed(t, StartingFrom(from)))) \ {2 * from}
              = PointsBefore(Covered({Closure(Loaded(t[k])) : k \in Selected(t, StartingFrom(from))}), from)
         /\ \A x \in ToSet(Removed(t, StartingFrom(from))) : Proper(x)
<1> DEFINE d == StartingFrom(from)
           s == Closures(t, d)
<1>1. Removed(t, d) = IntersectionOf(s, <<Past(from)>>)
  BY PastFacts DEF Removed, Difference
<1>2. s \in Ivals /\ AllClosed(ToSet(s)) /\ Separate(s)
      /\ Covered(ToSet(s)) = Covered({Closure(Loaded(t[k])) : k \in Selected(t, d)})
  BY ClosuresFacts
<1> HIDE DEF s, d
<1> QED
  BY <1>1, <1>2, CutFacts DEF d

----------------------------------------------------------------------------
(* What half-open intervals and sets of them denote.                       *)

(* Begin and end of an interval, whichever of them belongs to it.          *)
Lo(i) == i.lower.value
Up(i) == i.upper.value

(* The half-open intervals that are not empty.                             *)
Span == {i \in HalfOpen : Lo(i) < Up(i)}

(* A half-open interval is given by its ends: it includes the lower one    *)
(* unless it is infinite, never the upper one.                             *)
LEMMA HalfOpenIs ==
  ASSUME NEW i \in HalfOpen
  PROVE  /\ i \in IntervalType
         /\ i = ClosedOpen(Lo(i), Up(i))
         /\ i.lower = [value |-> Lo(i), closed |-> Lo(i) \notin Infinite]
         /\ i.upper = [value |-> Up(i), closed |-> FALSE]
         /\ i.lower.value = Lo(i) /\ (i.lower.closed <=> Lo(i) \notin Infinite)
         /\ i.upper.value = Up(i) /\ ~i.upper.closed
         /\ Lo(i) \in Int /\ Up(i) \in Int /\ NegInf <= Lo(i) /\ Lo(i) <= Up(i) /\ Up(i) <= PosInf
         /\ Lo(i) = Up(i) => Lo(i) # NegInf /\ Lo(i) # PosInf
         /\ IsEmpty(i) <=> Lo(i) = Up(i)
<1>1. PICK b \in Value, e \in Value : i = ClosedOpen(b, e)
  BY DEF HalfOpen
<1>2. i \in IntervalType
  BY DEF HalfOpen
<1>3. i.lower = [value |-> b, closed |-> b \notin Infinite] /\ i.upper = [value |-> e, closed |-> FALSE]
  BY <1>1 DEF ClosedOpen, Ival, Bnd
<1>4. Lo(i) = b /\ Up(i) = e
  BY <1>3 DEF Lo, Up
<1>5. /\ Lo(i) \in Int /\ Up(i) \in Int /\ NegInf <= Lo(i) /\ Lo(i) <= Up(i) /\ Up(i) <= PosInf
      /\ Lo(i) = Up(i) => Lo(i) # NegInf /\ Lo(i) # PosInf
  BY <1>2, IntervalParts DEF Lo, Up, Value, Instant
<1>6. /\ i.lower.value = Lo(i) /\ (i.lower.closed <=> Lo(i) \notin Infinite)
      /\ i.upper.value = Up(i) /\ ~i.upper.closed
  <2>1. i.lower.value = b /\ i.upper.value = e /\ i.upper.closed = FALSE
    BY <1>3
  <2>2. CASE b \in Infinite
    <3>1. i.lower = [value |-> b, closed |-> FALSE]
      BY <1>1, <2>2 DEF ClosedOpen, Ival, Bnd
    <3> QED
      BY <2>1, <2>2, <3>1, <1>4
  <2>3. CASE b \notin Infinite
    <3>1. i.lower = [value |-> b, closed |-> TRUE]
      BY <1>1, <2>3 DEF ClosedOpen, Ival, Bnd
    <3> QED
      BY <2>1, <2>3, <3>1, <1>4
  <2> QED
    BY <2>2, <2>3
<1>7. IsEmpty(i) <=> Lo(i) = Up(i)
  BY <1>6 DEF IsEmpty
<1> QED
  BY <1>1, <1>2, <1>3, <1>4, <1>5, <1>6, <1>7

LEMMA SpanIs ==
  ASSUME NEW i \in Span
  PROVE  /\ i \in HalfOpen /\ i \in IntervalType
         /\ i = ClosedOpen(Lo(i), Up(i))
         /\ i.lower = [value |-> Lo(i), closed |-> Lo(i) \notin Infinite]
         /\ i.upper = [value |-> Up(i), closed |-> FALSE]
         /\ i.lower.value = Lo(i) /\ (i.lower.closed <=> Lo(i) \notin Infinite)
         /\ i.upper.value = Up(i) /\ ~i.upper.closed
         /\ Lo(i) \in Int /\ Up(i) \in Int /\ NegInf <= Lo(i) /\ Lo(i) < Up(i) /\ Up(i) <= PosInf
         /\ ~IsEmpty(i)
BY HalfOpenIs DEF Span

(* Two ends in order make one.                                             *)
LEMMA SpanMade ==
  ASSUME NEW b \in Value, NEW e \in Value, b < e
  PROVE  /\ ClosedOpen(b, e) \in Span
         /\ Lo(ClosedOpen(b, e)) = b /\ Up(ClosedOpen(b, e)) = e
<1>1. /\ ClosedOpen(b, e).lower = [value |-> b, closed |-> b \notin Infinite]
      /\ ClosedOpen(b, e).upper = [value |-> e, closed |-> FALSE]
      /\ ClosedOpen(b, e) = Ival(Bnd(b, TRUE), Bnd(e, FALSE))
  BY DEF ClosedOpen, Ival, Bnd
<1>2. Lo(ClosedOpen(b, e)) = b /\ Up(ClosedOpen(b, e)) = e
  BY <1>1 DEF Lo, Up
<1>3. Bnd(b, TRUE) \in BoundType /\ Bnd(e, FALSE) \in BoundType
  BY BoundTyped
<1>4. ~Less(Bnd(e, FALSE), Bnd(b, TRUE))
  BY DEF Less, Bnd, Value
<1>5. ClosedOpen(b, e) \in IntervalType
  BY <1>1, <1>3, <1>4, IntervalTyped
<1> QED
  BY <1>2, <1>5 DEF Span, HalfOpen

(* The points of a half-open interval.                                     *)
LEMMA HalfOpenPoints ==
  ASSUME NEW i \in HalfOpen
  PROVE  PointsOf(i) = {p \in Point : 2 * Lo(i) <= p /\ p < 2 * Up(i)}
<1>1. /\ i.lower.value = Lo(i) /\ (i.lower.closed <=> Lo(i) \notin Infinite)
      /\ i.upper.value = Up(i) /\ ~i.upper.closed
      /\ Lo(i) \in Int /\ Up(i) \in Int /\ NegInf <= Lo(i) /\ Lo(i) <= Up(i) /\ Up(i) <= PosInf
  BY HalfOpenIs
<1>2. ASSUME NEW p \in Point
      PROVE  p \in PointsOf(i) <=> 2 * Lo(i) <= p /\ p < 2 * Up(i)
  <2>1. p \in Int /\ 2 * NegInf < p /\ p < 2 * PosInf
    BY DEF Point
  <2>2. p \in PointsOf(i) <=> /\ 2 * Lo(i) < p \/ (Lo(i) \notin Infinite /\ 2 * Lo(i) = p)
                              /\ p < 2 * Up(i)
    BY <1>1 DEF PointsOf
  <2> QED
    BY <1>1, <2>1, <2>2 DEF Infinite
<1> QED
  BY <1>2 DEF PointsOf

(* How the operations compare, cut and join two of them.                   *)
LEMMA TwoHalfOpen ==
  ASSUME NEW i \in HalfOpen, NEW j \in HalfOpen
  PROVE  /\ Overlaps(i, j) <=> Lo(i) < Up(j) /\ Lo(j) < Up(i)
         /\ Meets(i, j) <=> Up(i) = Lo(j) /\ Lo(i) # NegInf
         /\ Intersect(i, j) = ClosedOpen(IF Lo(i) < Lo(j) THEN Lo(j) ELSE Lo(i),
                                         IF Up(j) < Up(i) THEN Up(j) ELSE Up(i))
         /\ Join(i, j) = ClosedOpen(IF Lo(j) < Lo(i) THEN Lo(j) ELSE Lo(i),
                                    IF Up(i) < Up(j) THEN Up(j) ELSE Up(i))
<1>1. /\ i.lower = [value |-> Lo(i), closed |-> Lo(i) \notin Infinite]
      /\ i.upper = [value |-> Up(i), closed |-> FALSE]
      /\ i.lower.value = Lo(i) /\ (i.lower.closed <=> Lo(i) \notin Infinite)
      /\ i.upper.value = Up(i) /\ ~i.upper.closed
      /\ Lo(i) \in Int /\ Up(i) \in Int /\ NegInf <= Lo(i) /\ Lo(i) <= Up(i) /\ Up(i) <= PosInf
      /\ Lo(i) = Up(i) => Lo(i) # NegInf /\ Lo(i) # PosInf
  BY HalfOpenIs
<1>2. /\ j.lower = [value |-> Lo(j), closed |-> Lo(j) \notin Infinite]
      /\ j.upper = [value |-> Up(j), closed |-> FALSE]
      /\ j.lower.value = Lo(j) /\ (j.lower.closed <=> Lo(j) \notin Infinite)
      /\ j.upper.value = Up(j) /\ ~j.upper.closed
      /\ Lo(j) \in Int /\ Up(j) \in Int /\ NegInf <= Lo(j) /\ Lo(j) <= Up(j) /\ Up(j) <= PosInf
      /\ Lo(j) = Up(j) => Lo(j) # NegInf /\ Lo(j) # PosInf
  BY HalfOpenIs
<1>3. Overlaps(i, j) <=> Lo(i) < Up(j) /\ Lo(j) < Up(i)
  BY <1>1, <1>2 DEF Overlaps, Leq, Infinite
<1>4. Meets(i, j) <=> Up(i) = Lo(j) /\ Lo(i) # NegInf
  BY <1>1, <1>2 DEF Meets, Infinite
<1>5. /\ Less(i.lower, j.lower) <=> Lo(i) < Lo(j) \/ (Lo(i) = Lo(j) /\ Lo(i) \in Infinite)
      /\ Less(j.lower, i.lower) <=> Lo(j) < Lo(i) \/ (Lo(i) = Lo(j) /\ Lo(i) \in Infinite)
      /\ Less(i.upper, j.upper) <=> Up(i) < Up(j) \/ (Up(i) = Up(j) /\ Up(i) \in Infinite)
      /\ Less(j.upper, i.upper) <=> Up(j) < Up(i) \/ (Up(i) = Up(j) /\ Up(i) \in Infinite)
  BY <1>1, <1>2 DEF Less
<1>6. /\ Lo(i) = Lo(j) => i.lower = j.lower
      /\ Up(i) = Up(j) => i.upper = j.upper
  BY <1>1, <1>2
<1>7. /\ MaxBound(i.lower, j.lower) = IF Lo(i) < Lo(j) THEN j.lower ELSE i.lower
      /\ MinBound(i.lower, j.lower) = IF Lo(j) < Lo(i) THEN j.lower ELSE i.lower
      /\ MaxBound(i.upper, j.upper) = IF Up(i) < Up(j) THEN j.upper ELSE i.upper
      /\ MinBound(i.upper, j.upper) = IF Up(j) < Up(i) THEN j.upper ELSE i.upper
  BY <1>5, <1>6 DEF MaxBound, MinBound
<1>8. /\ i.lower = Bnd(Lo(i), TRUE) /\ j.lower = Bnd(Lo(j), TRUE)
      /\ i.upper = Bnd(Up(i), FALSE) /\ j.upper = Bnd(Up(j), FALSE)
  BY <1>1, <1>2 DEF Bnd
<1>9. Intersect(i, j) = ClosedOpen(IF Lo(i) < Lo(j) THEN Lo(j) ELSE Lo(i),
                                   IF Up(j) < Up(i) THEN Up(j) ELSE Up(i))
  BY <1>7, <1>8 DEF Intersect, ClosedOpen
<1>10. Join(i, j) = ClosedOpen(IF Lo(j) < Lo(i) THEN Lo(j) ELSE Lo(i),
                               IF Up(i) < Up(j) THEN Up(j) ELSE Up(i))
  BY <1>7, <1>8 DEF Join, ClosedOpen
<1> QED
  BY <1>3, <1>4, <1>9, <1>10

(* Joined, they are one again.                                             *)
LEMMA JoinOfTwo ==
  ASSUME NEW i \in Span, NEW j \in Span
  PROVE  /\ Join(i, j) \in Span
         /\ Lo(Join(i, j)) = IF Lo(j) < Lo(i) THEN Lo(j) ELSE Lo(i)
         /\ Up(Join(i, j)) = IF Up(i) < Up(j) THEN Up(j) ELSE Up(i)
<1> DEFINE b == IF Lo(j) < Lo(i) THEN Lo(j) ELSE Lo(i)
           e == IF Up(i) < Up(j) THEN Up(j) ELSE Up(i)
<1>1. /\ Lo(i) \in Int /\ Up(i) \in Int /\ NegInf <= Lo(i) /\ Lo(i) < Up(i) /\ Up(i) <= PosInf
      /\ Lo(j) \in Int /\ Up(j) \in Int /\ NegInf <= Lo(j) /\ Lo(j) < Up(j) /\ Up(j) <= PosInf
      /\ i \in HalfOpen /\ j \in HalfOpen
  BY SpanIs
<1>2. Join(i, j) = ClosedOpen(b, e)
  BY <1>1, TwoHalfOpen
<1>3. b \in Value /\ e \in Value /\ b < e
  BY <1>1 DEF Value
<1> HIDE DEF b, e
<1>4. ClosedOpen(b, e) \in Span /\ Lo(ClosedOpen(b, e)) = b /\ Up(ClosedOpen(b, e)) = e
  BY <1>3, SpanMade
<1> QED
  BY <1>2, <1>4 DEF b, e

(* What the intersection of two sets takes from them.                      *)
LEMMA CommonOfTwo ==
  ASSUME NEW i \in HalfOpen, NEW j \in HalfOpen
  PROVE  \/ /\ Common(i, j) = <<>>
            /\ PointsOf(i) \cap PointsOf(j) = {}
         \/ \E x \in Span :
              /\ Common(i, j) = <<x>>
              /\ Lo(x) = (IF Lo(i) < Lo(j) THEN Lo(j) ELSE Lo(i))
              /\ Up(x) = (IF Up(j) < Up(i) THEN Up(j) ELSE Up(i))
              /\ PointsOf(x) = PointsOf(i) \cap PointsOf(j)
<1> DEFINE l == IF Lo(i) < Lo(j) THEN Lo(j) ELSE Lo(i)
           u == IF Up(j) < Up(i) THEN Up(j) ELSE Up(i)
           x == ClosedOpen(l, u)
<1>1. /\ Lo(i) \in Int /\ Up(i) \in Int /\ NegInf <= Lo(i) /\ Lo(i) <= Up(i) /\ Up(i) <= PosInf
      /\ Lo(j) \in Int /\ Up(j) \in Int /\ NegInf <= Lo(j) /\ Lo(j) <= Up(j) /\ Up(j) <= PosInf
  BY HalfOpenIs
<1>2. /\ Overlaps(i, j) <=> Lo(i) < Up(j) /\ Lo(j) < Up(i)
      /\ Intersect(i, j) = x
  BY TwoHalfOpen
<1>3. l \in Value /\ u \in Value
  BY <1>1 DEF Value
<1>4. /\ x.lower.value = l /\ x.upper.value = u /\ ~x.upper.closed
  <2> HIDE DEF l, u
  <2> QED
    BY DEF ClosedOpen, Ival, Bnd
<1>5. IsEmpty(x) <=> l = u
  <2> HIDE DEF l, u, x
  <2> QED
    BY <1>4 DEF IsEmpty
<1>6. /\ PointsOf(i) = {p \in Point : 2 * Lo(i) <= p /\ p < 2 * Up(i)}
      /\ PointsOf(j) = {p \in Point : 2 * Lo(j) <= p /\ p < 2 * Up(j)}
      /\ \A p \in Point : p \in Int
  BY HalfOpenPoints DEF Point
<1>7. CASE l < u
  <2>1. Overlaps(i, j)
    BY <1>1, <1>2, <1>7
  <2>2. l # u
    BY <1>7, <1>3 DEF Value
  <2>3. x \in Span /\ Lo(x) = l /\ Up(x) = u
    <3> HIDE DEF l, u
    <3> QED
      BY <1>3, <1>7, SpanMade
  <2>4. Common(i, j) = <<x>>
    <3> HIDE DEF l, u, x
    <3> QED
      BY <2>1, <2>2, <1>2, <1>5 DEF Common
  <2>5. PointsOf(x) = PointsOf(i) \cap PointsOf(j)
    <3>1. PointsOf(x) = {p \in Point : 2 * l <= p /\ p < 2 * u}
      <4> HIDE DEF l, u, x
      <4> QED
        BY <2>3, HalfOpenPoints DEF Span
    <3>2. ASSUME NEW p \in Point
          PROVE  2 * l <= p /\ p < 2 * u
                 <=> 2 * Lo(i) <= p /\ p < 2 * Up(i) /\ 2 * Lo(j) <= p /\ p < 2 * Up(j)
      BY <1>1, <1>6
    <3> HIDE DEF l, u, x
    <3> QED
      BY <3>1, <3>2, <1>6
  <2> HIDE DEF x
  <2> QED
    BY <2>3, <2>4, <2>5
<1>8. CASE ~(l < u)
  <2>1. PointsOf(i) \cap PointsOf(j) = {}
    <3>1. ASSUME NEW p \in Point, 2 * Lo(i) <= p, p < 2 * Up(i), 2 * Lo(j) <= p, p < 2 * Up(j)
          PROVE  FALSE
      BY <1>1, <1>6, <1>8, <3>1
    <3> HIDE DEF l, u, x
    <3> QED
      BY <3>1, <1>6
  <2>2. ~Overlaps(i, j) \/ l = u
    BY <1>1, <1>2, <1>8
  <2>3. Common(i, j) = <<>>
    <3> HIDE DEF l, u, x
    <3> QED
      BY <2>2, <1>2, <1>5 DEF Common
  <2> QED
    BY <2>1, <2>3
<1> QED
  BY <1>7, <1>8

(* What comparing two intervals says of their points.                      *)
LEMMA RelatesHolds ==
  ASSUME NEW i \in Span, NEW j \in Span
  PROVE  Relates(i, j)
<1> DEFINE P == PointsOf(i)
           Q == PointsOf(j)
<1>1. /\ i \in HalfOpen
      /\ i.lower.value = Lo(i) /\ (i.lower.closed <=> Lo(i) \notin Infinite)
      /\ i.upper.value = Up(i) /\ ~i.upper.closed
      /\ Lo(i) \in Int /\ Up(i) \in Int /\ NegInf <= Lo(i) /\ Lo(i) < Up(i) /\ Up(i) <= PosInf
      /\ P = {p \in Point : 2 * Lo(i) <= p /\ p < 2 * Up(i)}
  BY SpanIs, HalfOpenPoints DEF Span
<1>2. /\ j \in HalfOpen
      /\ j.lower.value = Lo(j) /\ (j.lower.closed <=> Lo(j) \notin Infinite)
      /\ j.upper.value = Up(j) /\ ~j.upper.closed
      /\ Lo(j) \in Int /\ Up(j) \in Int /\ NegInf <= Lo(j) /\ Lo(j) < Up(j) /\ Up(j) <= PosInf
      /\ Q = {p \in Point : 2 * Lo(j) <= p /\ p < 2 * Up(j)}
  BY SpanIs, HalfOpenPoints DEF Span
<1>3. /\ \A p \in Point : p \in Int
      /\ \A b, e \in Int : NegInf <= b /\ b < e /\ e <= PosInf => 2 * b + 1 \in Point /\ 2 * e - 1 \in Point
  BY DEF Point
<1>4. /\ Overlaps(i, j) <=> Lo(i) < Up(j) /\ Lo(j) < Up(i)
      /\ Join(i, j) \in Span
      /\ Lo(Join(i, j)) = IF Lo(j) < Lo(i) THEN Lo(j) ELSE Lo(i)
      /\ Up(Join(i, j)) = IF Up(i) < Up(j) THEN Up(j) ELSE Up(i)
  BY <1>1, <1>2, TwoHalfOpen, JoinOfTwo
<1>5. StrictlyBefore(i, j) \/ StrictlyAfter(j, i) => \A p \in P, q \in Q : p < q
  <2>1. StrictlyBefore(i, j) \/ StrictlyAfter(j, i) => Up(i) <= Lo(j)
    BY <1>1, <1>2 DEF StrictlyBefore, StrictlyAfter, Less
  <2> HIDE DEF P, Q
  <2> QED
    BY <1>1, <1>2, <1>3, <2>1
<1>6. IsBefore(i, j) \/ IsAfter(j, i) => \A p \in P, q \in Q : p <= q
  <2>1. IsBefore(i, j) \/ IsAfter(j, i) => Up(i) <= Lo(j)
    BY <1>1, <1>2 DEF IsBefore, IsAfter, Leq
  <2> HIDE DEF P, Q
  <2> QED
    BY <1>1, <1>2, <1>3, <2>1
<1>7. Overlaps(i, j) <=> P \cap Q # {}
  <2>1. ASSUME Overlaps(i, j)
        PROVE  P \cap Q # {}
    <3> DEFINE l == IF Lo(i) < Lo(j) THEN Lo(j) ELSE Lo(i)
    <3>1. 2 * l + 1 \in Point /\ l \in Int
      BY <1>1, <1>2, <1>3
    <3>2. /\ 2 * Lo(i) <= 2 * l + 1 /\ 2 * l + 1 < 2 * Up(i)
          /\ 2 * Lo(j) <= 2 * l + 1 /\ 2 * l + 1 < 2 * Up(j)
      BY <1>1, <1>2, <1>4, <2>1
    <3> HIDE DEF l, P, Q
    <3> QED
      BY <1>1, <1>2, <3>1, <3>2
  <2>2. ASSUME NEW p \in P, p \in Q
        PROVE  Overlaps(i, j)
    <3> HIDE DEF P, Q
    <3>1. p \in Int /\ 2 * Lo(i) <= p /\ p < 2 * Up(i) /\ 2 * Lo(j) <= p /\ p < 2 * Up(j)
      BY <1>1, <1>2, <1>3, <2>2
    <3> QED
      BY <1>1, <1>2, <1>4, <3>1
  <2> HIDE DEF P, Q
  <2> QED
    BY <2>1, <2>2
<1>8. StrictlyOverlaps(i, j) => Overlaps(i, j)
  BY <1>1, <1>2, <1>4 DEF StrictlyOverlaps, Less, Infinite
<1>9. Overlaps(i, j) => PointsOf(Intersect(i, j)) = P \cap Q
  <2> SUFFICES ASSUME Overlaps(i, j)
               PROVE  PointsOf(Intersect(i, j)) = P \cap Q
    OBVIOUS
  <2>1. P \cap Q # {}
    BY <1>7
  <2>2. PICK x \in Span : Common(i, j) = <<x>> /\ PointsOf(x) = P \cap Q
    BY <1>1, <1>2, <2>1, CommonOfTwo
  <2>3. x = Intersect(i, j)
    <3> HIDE DEF P, Q
    <3> QED
      BY <2>2 DEF Common
  <2> QED
    BY <2>2, <2>3
<1>10. Overlaps(i, j) => PointsOf(Join(i, j)) = P \cup Q
  <2> SUFFICES ASSUME Overlaps(i, j)
               PROVE  PointsOf(Join(i, j)) = P \cup Q
    OBVIOUS
  <2>1. PointsOf(Join(i, j)) = {p \in Point : 2 * Lo(Join(i, j)) <= p /\ p < 2 * Up(Join(i, j))}
    BY <1>4, HalfOpenPoints DEF Span
  <2>2. ASSUME NEW p \in Point
        PROVE  2 * Lo(Join(i, j)) <= p /\ p < 2 * Up(Join(i, j))
               <=> (2 * Lo(i) <= p /\ p < 2 * Up(i)) \/ (2 * Lo(j) <= p /\ p < 2 * Up(j))
    BY <1>1, <1>2, <1>3, <1>4
  <2> HIDE DEF P, Q
  <2> QED
    BY <1>1, <1>2, <2>1, <2>2
<1>11. During(i, j) \/ Comprises(j, i) => P \subseteq Q
  <2>1. During(i, j) \/ Comprises(j, i) => Lo(j) <= Lo(i) /\ Up(i) <= Up(j)
    BY <1>1, <1>2 DEF During, Comprises, Leq
  <2> HIDE DEF P, Q
  <2> QED
    BY <1>1, <1>2, <1>3, <2>1
<1>12. StrictlyDuring(i, j) \/ StrictlyContains(j, i) => P \subseteq Q /\ (P # Q \/ i = Unbounded)
  <2> SUFFICES ASSUME StrictlyDuring(i, j) \/ StrictlyContains(j, i)
               PROVE  P \subseteq Q /\ (P # Q \/ i = Unbounded)
    OBVIOUS
  <2>1. /\ Lo(j) < Lo(i) \/ (Lo(j) = Lo(i) /\ Lo(i) = NegInf)
        /\ Up(i) < Up(j) \/ (Up(i) = Up(j) /\ Up(i) = PosInf)
    BY <1>1, <1>2 DEF StrictlyDuring, StrictlyContains, Less, Infinite
  <2>2. P \subseteq Q
    <3> HIDE DEF P, Q
    <3> QED
      BY <1>1, <1>2, <1>3, <2>1
  <2>3. CASE Lo(j) < Lo(i)
    <3>1. 2 * Lo(j) + 1 \in Point
      BY <1>2, <1>3
    <3>2. 2 * Lo(j) <= 2 * Lo(j) + 1 /\ 2 * Lo(j) + 1 < 2 * Up(j) /\ ~(2 * Lo(i) <= 2 * Lo(j) + 1)
      BY <1>1, <1>2, <2>3
    <3> HIDE DEF P, Q
    <3> QED
      BY <1>1, <1>2, <2>2, <3>1, <3>2
  <2>4. CASE Up(i) < Up(j)
    <3>1. 2 * Up(j) - 1 \in Point
      BY <1>2, <1>3
    <3>2. 2 * Lo(j) <= 2 * Up(j) - 1 /\ 2 * Up(j) - 1 < 2 * Up(j) /\ ~(2 * Up(j) - 1 < 2 * Up(i))
      BY <1>1, <1>2, <2>4
    <3> HIDE DEF P, Q
    <3> QED
      BY <1>1, <1>2, <2>2, <3>1, <3>2
  <2>5. CASE Lo(i) = NegInf /\ Up(i) = PosInf
    <3>1. i = ClosedOpen(NegInf, PosInf)
      BY <2>5, SpanIs
    <3>2. i = Unbounded
      BY <3>1 DEF ClosedOpen, Unbounded, Open, Ival, Bnd, Infinite
    <3> QED
      BY <2>2, <3>2
  <2> QED
    BY <2>1, <2>3, <2>4, <2>5
<1> HIDE DEF P, Q
<1> QED
  BY <1>5, <1>6, <1>7, <1>8, <1>9, <1>10, <1>11, <1>12 DEF Relates, P, Q

(* An instant as a bound.                                                  *)
LEMMA InstantBound ==
  ASSUME NEW v \in Instant
  PROVE  /\ v \in Int /\ NegInf < v /\ v < PosInf /\ 2 * v \in Point
         /\ Bnd(v, TRUE).value = v /\ Bnd(v, TRUE).closed
         /\ Bnd(v, FALSE).value = v /\ ~Bnd(v, FALSE).closed
<1>1. v \in Int /\ NegInf < v /\ v < PosInf /\ 2 * v \in Point
  BY DEF Instant, Point
<1>2. v \notin Infinite
  BY <1>1 DEF Infinite
<1>3. Bnd(v, TRUE).closed
  <2>1. Bnd(v, TRUE).closed = (TRUE /\ v \notin Infinite)
    BY DEF Bnd
  <2> QED
    BY <2>1, <1>2
<1> QED
  BY <1>1, <1>3 DEF Bnd

(* What single instants, and the ends of an interval, add to its points.   *)
LEMMA InstantPoints ==
  ASSUME NEW v \in Instant
  PROVE  /\ PointsOf(Single(v)) = {2 * v} /\ PointsOf(EmptyAt(v)) = {}
         /\ \A i \in HalfOpen : Includes(i, v) <=> 2 * v \in PointsOf(i)
<1> DEFINE c == Bnd(v, TRUE)
           o == Bnd(v, FALSE)
<1>0. \A p \in Point : p \in Int
  BY DEF Point
<1>1. v \in Int /\ NegInf < v /\ v < PosInf /\ 2 * v \in Point
  BY InstantBound
<1>2. c.value = v /\ c.closed /\ o.value = v /\ ~o.closed
  BY InstantBound
<1>6. /\ Single(v).lower = c /\ Single(v).upper = c
      /\ EmptyAt(v).lower = o /\ EmptyAt(v).upper = o
  BY DEF Single, EmptyAt, Closed, Open, Ival
<1>7. \A i : Includes(i, v) <=> Leq(i.lower, c) /\ Leq(c, i.upper)
  BY DEF Includes
<1> HIDE DEF c, o
<1>3. PointsOf(Single(v)) = {2 * v}
  <2>1. PointsOf(Single(v)) = {p \in Point : 2 * v <= p /\ p <= 2 * v}
    <3>2. ASSUME NEW p \in Point
          PROVE  p \in PointsOf(Single(v)) <=> 2 * v <= p /\ p <= 2 * v
      BY <1>0, <1>1, <1>2, <1>6 DEF PointsOf
    <3> QED
      BY <3>2 DEF PointsOf
  <2> QED
    BY <2>1, <1>0, <1>1
<1>4. PointsOf(EmptyAt(v)) = {}
  <2>2. ASSUME NEW p \in Point
        PROVE  p \notin PointsOf(EmptyAt(v))
    BY <1>0, <1>1, <1>2, <1>6 DEF PointsOf
  <2> QED
    BY <2>2 DEF PointsOf
<1>5. ASSUME NEW i \in HalfOpen
      PROVE  Includes(i, v) <=> 2 * v \in PointsOf(i)
  <2>1. /\ i.lower.value = Lo(i) /\ (i.lower.closed <=> Lo(i) \notin Infinite)
        /\ i.upper.value = Up(i) /\ ~i.upper.closed
        /\ Lo(i) \in Int /\ Up(i) \in Int /\ NegInf <= Lo(i) /\ Lo(i) <= Up(i) /\ Up(i) <= PosInf
        /\ PointsOf(i) = {p \in Point : 2 * Lo(i) <= p /\ p < 2 * Up(i)}
    BY HalfOpenIs, HalfOpenPoints
  <2>2. Includes(i, v) <=> Lo(i) <= v /\ v < Up(i)
    BY <1>1, <1>2, <1>7, <2>1 DEF Leq, Infinite
  <2> QED
    BY <1>1, <2>1, <2>2
<1> QED
  BY <1>3, <1>4, <1>5

LEMMA EndPoints ==
  ASSUME NEW b \in Instant, NEW e \in Instant, b < e
  PROVE  /\ PointsOf(OpenClosed(b, e)) = PointsOf(Open(b, e)) \cup {2 * e}
         /\ PointsOf(Closed(b, e)) = PointsOf(OpenClosed(b, e)) \cup {2 * b}
<1> DEFINE bc == Bnd(b, TRUE)
           bo == Bnd(b, FALSE)
           ec == Bnd(e, TRUE)
           eo == Bnd(e, FALSE)
<1>0. \A p \in Point : p \in Int
  BY DEF Point
<1>1. b \in Int /\ e \in Int /\ 2 * b \in Point /\ 2 * e \in Point
  BY InstantBound
<1>2. /\ bc.value = b /\ bc.closed /\ bo.value = b /\ ~bo.closed
      /\ ec.value = e /\ ec.closed /\ eo.value = e /\ ~eo.closed
  BY InstantBound
<1>3. /\ Open(b, e) = Ival(bo, eo)
      /\ OpenClosed(b, e) = Ival(bo, ec)
      /\ Closed(b, e) = Ival(bc, ec)
  BY DEF Open, OpenClosed, Closed
<1> HIDE DEF bc, bo, ec, eo
<1>4. PointsOf(Open(b, e)) = {p \in Point : 2 * b < p /\ p < 2 * e}
  BY <1>2, <1>3 DEF PointsOf, Ival
<1>5. PointsOf(OpenClosed(b, e)) = {p \in Point : 2 * b < p /\ (p < 2 * e \/ 2 * e = p)}
  BY <1>2, <1>3 DEF PointsOf, Ival
<1>6. PointsOf(Closed(b, e)) = {p \in Point : (2 * b < p \/ 2 * b = p) /\ (p < 2 * e \/ 2 * e = p)}
  BY <1>2, <1>3 DEF PointsOf, Ival
<1> QED
  BY <1>0, <1>1, <1>4, <1>5, <1>6

(* One after the other, perhaps touching, some perhaps empty.              *)
HalfOpens == Seq(HalfOpen)
Lined(s)  == \A m, n \in 1 .. Len(s) : m < n => Up(s[m]) <= Lo(s[n])
(* Beginning one after the other. *)
Rising(s) == \A m, n \in 1 .. Len(s) : m < n => Lo(s[m]) <= Lo(s[n])

LEMMA HalfOpensAre ==
  ASSUME NEW s \in HalfOpens
  PROVE  /\ s \in Ivals /\ Len(s) \in Nat
         /\ \A n \in 1 .. Len(s) : s[n] \in HalfOpen
         /\ DOMAIN s = 1 .. Len(s)
         /\ ToSet(s) = {s[n] : n \in 1 .. Len(s)}
         /\ ToSet(s) \subseteq HalfOpen
<1>1. HalfOpen \subseteq IntervalType
  BY DEF HalfOpen
<1>2. /\ s \in Ivals /\ Len(s) \in Nat
      /\ \A n \in 1 .. Len(s) : s[n] \in HalfOpen
      /\ DOMAIN s = 1 .. Len(s)
  BY <1>1 DEF HalfOpens, Ivals
<1>3. ToSet(s) = {s[n] : n \in 1 .. Len(s)}
  BY <1>2 DEF ToSet
<1> QED
  BY <1>2, <1>3

(* Intervals in line share no point and are in order, and begin in order.  *)
LEMMA LinedIsOrdered ==
  ASSUME NEW s \in HalfOpens, Lined(s)
  PROVE  Ordered(s) /\ Rising(s)
<1>1. /\ Len(s) \in Nat /\ DOMAIN s = 1 .. Len(s)
      /\ \A n \in 1 .. Len(s) : s[n] \in HalfOpen
      /\ ToSet(s) \subseteq HalfOpen
  BY HalfOpensAre
<1>2. ToSet(s) \subseteq IntervalType
  BY <1>1, HalfOpenIs
<1>3. ASSUME NEW m \in 1 .. Len(s), NEW n \in 1 .. Len(s), m < n
      PROVE  /\ \A p \in PointsOf(s[m]), q \in PointsOf(s[n]) : p < q
             /\ Lo(s[m]) <= Lo(s[n])
  <2>1. Up(s[m]) <= Lo(s[n])
    BY <1>3 DEF Lined
  <2>2. s[m] \in HalfOpen /\ s[n] \in HalfOpen
    BY <1>1
  <2>3. /\ PointsOf(s[m]) = {p \in Point : 2 * Lo(s[m]) <= p /\ p < 2 * Up(s[m])}
        /\ PointsOf(s[n]) = {p \in Point : 2 * Lo(s[n]) <= p /\ p < 2 * Up(s[n])}
    BY <2>2, HalfOpenPoints
  <2>4. Lo(s[m]) \in Int /\ Up(s[m]) \in Int /\ Lo(s[n]) \in Int /\ Lo(s[m]) <= Up(s[m])
    BY <2>2, HalfOpenIs
  <2>5. \A p \in Point : p \in Int
    BY DEF Point
  <2>6. ASSUME NEW p \in PointsOf(s[m]), NEW q \in PointsOf(s[n])
        PROVE  p < q
    BY <2>1, <2>3, <2>4, <2>5
  <2> QED
    BY <2>1, <2>4, <2>6
<1> QED
  BY <1>1, <1>2, <1>3 DEF Ordered, Rising

LEMMA FrontFacts ==
  ASSUME NEW S, NEW f \in Seq(S), f # <<>>
  PROVE  /\ Front(f) \in Seq(S) /\ Len(Front(f)) = Len(f) - 1
         /\ \A k \in 1 .. Len(f) - 1 : Front(f)[k] = f[k]
<1>1. Len(f) \in Nat /\ Len(f) # 0 /\ \A k \in 1 .. Len(f) : f[k] \in S
  OBVIOUS
<1>2. Front(f) = [k \in 1 .. Len(f) - 1 |-> f[k]]
  BY <1>1 DEF Front
<1>3. \A k \in 1 .. Len(f) - 1 : f[k] \in S
  BY <1>1
<1> DEFINE n == Len(f) - 1
<1>4. n \in Nat
  BY <1>1
<1>5. [k \in 1 .. n |-> f[k]] \in Seq(S) /\ Len([k \in 1 .. n |-> f[k]]) = n
  <2> HIDE DEF n
  <2> QED
    BY <1>3, <1>4 DEF n
<1> QED
  BY <1>2, <1>5

(* A step of _join, for intervals that come in the order of their begins.  *)
LEMMA AddedLined ==
  ASSUME NEW acc \in Seq(Span), Lined(acc), NEW i \in HalfOpen,
         \A k \in 1 .. Len(acc) : Lo(acc[k]) <= Lo(i)
  PROVE  /\ Added(acc, i) \in Seq(Span) /\ Lined(Added(acc, i))
         /\ \A k \in 1 .. Len(Added(acc, i)) : Lo(Added(acc, i)[k]) <= Lo(i)
         /\ Covered(ToSet(Added(acc, i))) = Covered(ToSet(acc)) \cup PointsOf(i)
<1>1. /\ Len(acc) \in Nat
      /\ \A k \in 1 .. Len(acc) : acc[k] \in Span
      /\ \A x \in Span : Lo(x) \in Int /\ Up(x) \in Int /\ Lo(x) < Up(x) /\ x \in HalfOpen
  <2>1. \A x \in Span : Lo(x) \in Int /\ Up(x) \in Int /\ Lo(x) < Up(x) /\ x \in HalfOpen
    BY SpanIs
  <2> QED
    BY <2>1
<1>2. /\ Lo(i) \in Int /\ Up(i) \in Int /\ Lo(i) <= Up(i)
      /\ IsEmpty(i) <=> Lo(i) = Up(i)
  BY HalfOpenIs
<1>3. CASE IsEmpty(i)
  <2>1. Added(acc, i) = acc
    BY <1>3 DEF Added
  <2>2. PointsOf(i) = {}
    <3>1. PointsOf(i) = {p \in Point : 2 * Lo(i) <= p /\ p < 2 * Up(i)}
      BY HalfOpenPoints
    <3>2. \A p \in Point : p \in Int
      BY DEF Point
    <3> QED
      BY <3>1, <3>2, <1>2, <1>3
  <2> QED
    BY <2>1, <2>2
<1>4. CASE ~IsEmpty(i) /\ acc # <<>> /\ Joins(Last(acc), i)
  <2> DEFINE last == acc[Len(acc)]
             f    == Front(acc)
             j    == Join(last, i)
  <2>1. Last(acc) = last /\ Len(acc) \in 1 .. Len(acc)
    BY <1>1, <1>4 DEF Last
  <2>2. i \in Span /\ last \in Span
    BY <1>1, <1>2, <1>4, <2>1 DEF Span
  <2>3. j \in Span /\ Lo(j) = Lo(last) /\ Up(last) <= Up(j)
    <3>1. Lo(last) <= Lo(i)
      BY <2>1
    <3> HIDE DEF last
    <3> QED
      BY <2>2, <3>1, <1>1, JoinOfTwo
  <2>4. /\ f \in Seq(Span) /\ Len(f) = Len(acc) - 1
        /\ \A k \in 1 .. Len(f) : f[k] = acc[k]
        /\ ToSet(acc) = ToSet(f) \cup {last}
    <3>1. acc # <<>> /\ f = Front(acc)
      BY <1>4
    <3> HIDE DEF f
    <3>2. f \in Seq(Span) /\ Len(f) = Len(acc) - 1 /\ \A k \in 1 .. Len(f) : f[k] = acc[k]
      BY <3>1, FrontFacts
    <3>3. /\ ToSet(f) = {f[k] : k \in 1 .. Len(f)}
          /\ ToSet(acc) = {acc[k] : k \in 1 .. Len(acc)}
      BY <3>2 DEF ToSet
    <3>4. \A k \in 1 .. Len(acc) : k = Len(acc) \/ k \in 1 .. Len(f)
      BY <1>1, <3>2
    <3>5. \A k \in 1 .. Len(f) : k \in 1 .. Len(acc)
      BY <1>1, <3>2
    <3> QED
      BY <2>1, <3>2, <3>3, <3>4, <3>5
  <2>5. Added(acc, i) = Append(f, j)
    BY <1>4, <2>1 DEF Added
  <2> HIDE DEF last, f, j
  <2>6. /\ Append(f, j) \in Seq(Span)
        /\ Len(Append(f, j)) = Len(acc)
        /\ \A k \in 1 .. Len(acc) - 1 : Append(f, j)[k] = acc[k]
        /\ Append(f, j)[Len(acc)] = j
        /\ ToSet(Append(f, j)) = ToSet(f) \cup {j}
    BY <1>1, <2>1, <2>3, <2>4, AppendFacts
  <2>7. \A k \in 1 .. Len(acc) : k = Len(acc) \/ k \in 1 .. Len(acc) - 1
    BY <1>1
  <2>8. Lo(Append(f, j)[Len(acc)]) = Lo(acc[Len(acc)])
    BY <2>3, <2>6 DEF last
  <2>9. \A k \in 1 .. Len(acc) : Lo(Append(f, j)[k]) = Lo(acc[k])
    BY <2>6, <2>7, <2>8
  <2>10. Lined(Append(f, j))
    <3>1. ASSUME NEW m \in 1 .. Len(acc), NEW n \in 1 .. Len(acc), m < n
          PROVE  Up(Append(f, j)[m]) <= Lo(Append(f, j)[n])
      <4>0. m \in 1 .. Len(acc) - 1
        BY <3>1, <1>1
      <4>1. Append(f, j)[m] = acc[m]
        BY <4>0, <2>6
      <4> QED
        BY <4>1, <3>1, <2>9 DEF Lined
    <3> QED
      BY <3>1, <2>6 DEF Lined
  <2>11. PointsOf(j) = PointsOf(last) \cup PointsOf(i)
    <3>1. /\ PointsOf(j) = {p \in Point : 2 * Lo(j) <= p /\ p < 2 * Up(j)}
          /\ PointsOf(last) = {p \in Point : 2 * Lo(last) <= p /\ p < 2 * Up(last)}
          /\ PointsOf(i) = {p \in Point : 2 * Lo(i) <= p /\ p < 2 * Up(i)}
      BY <1>1, <2>2, <2>3, HalfOpenPoints
    <3>2. /\ Lo(last) <= Lo(i) /\ Lo(i) <= Up(last)
          /\ Lo(j) = Lo(last) /\ Up(j) = IF Up(last) < Up(i) THEN Up(i) ELSE Up(last)
      <4>1. Lo(last) <= Lo(i)
        BY <2>1 DEF last
      <4>2. Lo(i) <= Up(last)
        <5>1. Overlaps(last, i) \/ Meets(last, i)
          BY <1>4, <2>1 DEF Joins
        <5>2. Overlaps(last, i) => Lo(i) < Up(last)
          BY <1>1, <2>2, TwoHalfOpen
        <5>3. Meets(last, i) => Up(last) = Lo(i)
          BY <1>1, <2>2, TwoHalfOpen
        <5> QED
          BY <5>1, <5>2, <5>3, <1>1, <2>2
      <4>3. Up(j) = IF Up(last) < Up(i) THEN Up(i) ELSE Up(last)
        BY <2>2, JoinOfTwo DEF j
      <4> QED
        BY <4>1, <4>2, <4>3, <2>3
    <3>3. \A p \in Point : p \in Int
      BY DEF Point
    <3>4. ASSUME NEW p \in Point
          PROVE  2 * Lo(j) <= p /\ p < 2 * Up(j)
                 <=> (2 * Lo(last) <= p /\ p < 2 * Up(last)) \/ (2 * Lo(i) <= p /\ p < 2 * Up(i))
      <4>1. /\ Lo(last) \in Int /\ Up(last) \in Int /\ Lo(last) < Up(last)
            /\ Lo(i) \in Int /\ Up(i) \in Int /\ Lo(i) < Up(i) /\ p \in Int
        BY <1>1, <2>2, <3>3
      <4> QED
        BY <4>1, <3>2
    <3> QED
      BY <3>1, <3>4
  <2>12. Covered(ToSet(Append(f, j))) = Covered(ToSet(acc)) \cup PointsOf(i)
    <3>1. Covered(ToSet(Append(f, j))) = Covered(ToSet(f)) \cup PointsOf(j)
      BY <2>6, CoveredOf
    <3>2. Covered(ToSet(acc)) = Covered(ToSet(f)) \cup PointsOf(last)
      BY <2>4, CoveredOf
    <3> QED
      BY <3>1, <3>2, <2>11
  <2> QED
    BY <2>5, <2>6, <2>9, <2>10, <2>12
<1>5. CASE ~IsEmpty(i) /\ ~(acc # <<>> /\ Joins(Last(acc), i))
  <2>1. Added(acc, i) = Append(acc, i)
    BY <1>5 DEF Added
  <2>2. i \in Span
    BY <1>1, <1>2, <1>5 DEF Span
  <2>3. /\ Append(acc, i) \in Seq(Span)
        /\ Len(Append(acc, i)) = Len(acc) + 1
        /\ \A k \in 1 .. Len(acc) : Append(acc, i)[k] = acc[k]
        /\ Append(acc, i)[Len(acc) + 1] = i
        /\ ToSet(Append(acc, i)) = ToSet(acc) \cup {i}
    BY <2>2, AppendFacts
  <2>4. \A k \in 1 .. Len(acc) + 1 : k = Len(acc) + 1 \/ k \in 1 .. Len(acc)
    BY <1>1
  <2>5. ASSUME NEW k \in 1 .. Len(acc)
        PROVE  Up(acc[k]) <= Lo(i)
    <3> DEFINE last == acc[Len(acc)]
    <3>1. acc # <<>> /\ Last(acc) = last /\ last \in Span /\ Len(acc) \in 1 .. Len(acc)
      BY <1>1 DEF Last
    <3>2. Up(last) <= Lo(i)
      <4>1. ~Overlaps(last, i)
        BY <1>5, <3>1 DEF Joins
      <4>2. Lo(last) <= Lo(i)
        BY <3>1
      <4> HIDE DEF last
      <4>3. ~(Lo(last) < Up(i) /\ Lo(i) < Up(last))
        BY <4>1, <3>1, <2>2, <1>1, TwoHalfOpen
      <4> QED
        BY <4>2, <4>3, <3>1, <2>2, <1>1
    <3>3. CASE k = Len(acc)
      BY <3>2, <3>3
    <3>4. CASE k # Len(acc)
      <4>1. Up(acc[k]) <= Lo(last)
        BY <3>1, <3>4, <1>1 DEF Lined
      <4>2. acc[k] \in Span
        BY <1>1
      <4> HIDE DEF last
      <4> QED
        BY <4>1, <4>2, <3>1, <3>2, <1>1, <1>2
    <3> QED
      BY <3>3, <3>4
  <2>6. Lined(Append(acc, i))
    <3>1. ASSUME NEW m \in 1 .. Len(acc) + 1, NEW n \in 1 .. Len(acc) + 1, m < n
          PROVE  Up(Append(acc, i)[m]) <= Lo(Append(acc, i)[n])
      <4>1. m \in 1 .. Len(acc)
        BY <3>1, <1>1
      <4>2. CASE n = Len(acc) + 1
        BY <4>1, <4>2, <2>3, <2>5
      <4>3. CASE n \in 1 .. Len(acc)
        BY <4>1, <4>3, <3>1, <2>3 DEF Lined
      <4> QED
        BY <4>2, <4>3, <2>4
    <3> QED
      BY <3>1, <2>3 DEF Lined
  <2>7. \A k \in 1 .. Len(acc) + 1 : Lo(Append(acc, i)[k]) <= Lo(i)
    BY <2>3, <2>4, <1>2
  <2>8. Covered(ToSet(Append(acc, i))) = Covered(ToSet(acc)) \cup PointsOf(i)
    BY <2>3, CoveredOf
  <2> QED
    BY <2>1, <2>3, <2>6, <2>7, <2>8
<1> QED
  BY <1>3, <1>4, <1>5

(* What joining makes of intervals that begin one after the other: they    *)
(* are in line, none is empty, and they cover the same points.             *)
LEMMA JoinSortedLined ==
  ASSUME NEW s \in HalfOpens, Rising(s)
  PROVE  /\ JoinSorted(s) \in Seq(Span) /\ Lined(JoinSorted(s))
         /\ Covered(ToSet(JoinSorted(s))) = Covered(ToSet(s))
<1> DEFINE N == Len(s)
           After(n) == {acc \in Seq(Span) :
                          /\ Lined(acc) /\ Covered(ToSet(acc)) = CoveredTo(s, n)
                          /\ \A k \in 1 .. Len(acc) : \A m \in n + 1 .. N : Lo(acc[k]) <= Lo(s[m])}
           D == [n \in 0 .. N |-> After(n)]
<1>1. /\ N \in Nat /\ \A n \in 1 .. N : s[n] \in HalfOpen
      /\ s \in Ivals /\ ToSet(s) = {s[n] : n \in 1 .. N}
  BY HalfOpensAre
<1>2. PICK g : /\ JoinSorted(s) = g[N]
               /\ g[0] = <<>>
               /\ \A n \in 1 .. N : g[n] = Added(g[n - 1], s[n])
  BY <1>1, JoinedTyped
<1>3. g[0] \in D[0]
  <2>1. <<>> \in Seq(Span) /\ Lined(<<>>) /\ Len(<<>>) = 0 /\ ToSet(<<>>) = {}
    BY DEF Lined, ToSet
  <2>2. {s[m] : m \in 1 .. 0} = {}
    OBVIOUS
  <2>3. <<>> \in After(0)
    BY <2>1, <2>2 DEF CoveredTo
  <2> HIDE DEF After
  <2> QED
    BY <2>3, <1>1, <1>2
<1>4. ASSUME NEW n \in 1 .. N, g[n - 1] \in D[n - 1]
      PROVE  g[n] \in D[n]
  <2> DEFINE acc == g[n - 1]
  <2>1. acc \in After(n - 1)
    <3> HIDE DEF After
    <3> QED
      BY <1>4, <1>1
  <2> HIDE DEF acc
  <2>2. /\ acc \in Seq(Span) /\ Lined(acc) /\ Covered(ToSet(acc)) = CoveredTo(s, n - 1)
        /\ \A k \in 1 .. Len(acc) : \A m \in n .. N : Lo(acc[k]) <= Lo(s[m])
        /\ n \in n .. N
    BY <2>1, <1>1
  <2>3. s[n] \in HalfOpen /\ \A k \in 1 .. Len(acc) : Lo(acc[k]) <= Lo(s[n])
    BY <2>2, <1>1
  <2>4. g[n] = Added(acc, s[n])
    BY <1>2 DEF acc
  <2>5. /\ Added(acc, s[n]) \in Seq(Span) /\ Lined(Added(acc, s[n]))
        /\ \A k \in 1 .. Len(Added(acc, s[n])) : Lo(Added(acc, s[n])[k]) <= Lo(s[n])
        /\ Covered(ToSet(Added(acc, s[n]))) = Covered(ToSet(acc)) \cup PointsOf(s[n])
    BY <2>2, <2>3, AddedLined
  <2>6. Covered(ToSet(g[n])) = CoveredTo(s, n)
    BY <2>2, <2>4, <2>5, <1>1, CoveredMore
  <2>7. ASSUME NEW k \in 1 .. Len(g[n]), NEW m \in n + 1 .. N
        PROVE  Lo(g[n][k]) <= Lo(s[m])
    <3>1. Lo(s[n]) <= Lo(s[m]) /\ s[m] \in HalfOpen
      <4>1. m \in 1 .. N /\ n < m
        BY <1>1
      <4> QED
        BY <4>1, <1>1 DEF Rising
    <3>2. Lo(g[n][k]) <= Lo(s[n]) /\ g[n][k] \in Span
      BY <2>4, <2>5
    <3>3. Lo(g[n][k]) \in Int /\ Lo(s[n]) \in Int /\ Lo(s[m]) \in Int
      BY <3>1, <3>2, <2>3, SpanIs, HalfOpenIs
    <3> QED
      BY <3>1, <3>2, <3>3
  <2>8. g[n] \in After(n)
    BY <2>4, <2>5, <2>6, <2>7
  <2> HIDE DEF After
  <2> QED
    BY <2>8, <1>1
<1>5. \A n \in 0 .. N : g[n] \in D[n]
  <2> HIDE DEF D, N
  <2> QED
    BY <1>1, <1>3, <1>4, StepsStay
<1>6. g[N] \in After(N)
  <2> HIDE DEF After
  <2> QED
    BY <1>1, <1>5
<1>7. CoveredTo(s, N) = Covered(ToSet(s))
  BY <1>1 DEF CoveredTo
<1> QED
  BY <1>2, <1>6, <1>7

(* An interval set made of any finite set of them.                         *)
LEMMA FromIntervalsLined ==
  ASSUME NEW S \in SUBSET HalfOpen, IsFiniteSet(S)
  PROVE  /\ FromIntervals(S) \in Seq(Span) /\ Lined(FromIntervals(S))
         /\ Covered(ToSet(FromIntervals(S))) = Covered(S)
<1> DEFINE s == SortedSeq(S)
<1>1. S \in SUBSET IntervalType
  BY HalfOpenIs
<1>2. s \in Ivals /\ ToSet(s) = S /\ InOrder(s)
  BY <1>1, SortedFacts
<1>3. FromIntervals(S) = JoinSorted(s)
  BY DEF FromIntervals
<1> HIDE DEF s
<1>4. DOMAIN s = 1 .. Len(s) /\ Len(s) \in Nat /\ \A n \in 1 .. Len(s) : s[n] \in HalfOpen
  BY <1>2 DEF Ivals, ToSet
<1>5. s \in HalfOpens
  <2>1. s = [n \in 1 .. Len(s) |-> s[n]]
    BY <1>2, <1>4 DEF Ivals
  <2> QED
    BY <2>1, <1>4 DEF HalfOpens
<1>6. ASSUME NEW m \in 1 .. Len(s), NEW n \in 1 .. Len(s), m < n
      PROVE  Lo(s[m]) <= Lo(s[n])
  <2>1. /\ Lo(s[m]) \in Int /\ Lo(s[n]) \in Int
        /\ s[m].lower.value = Lo(s[m]) /\ s[n].lower.value = Lo(s[n])
    BY <1>4, HalfOpenIs
  <2>2. SUFFICES ASSUME Lo(s[n]) < Lo(s[m])
                 PROVE  FALSE
    BY <2>1
  <2>3. Precedes(s[n], s[m])
    BY <2>1, <2>2 DEF Precedes, Less
  <2>4. Precedes(s[m], s[n])
    BY <1>2, <1>4, <1>6, <2>3 DEF InOrder
  <2> QED
    BY <2>1, <2>2, <2>4 DEF Precedes, Less
<1> QED
  BY <1>2, <1>3, <1>5, <1>6, JoinSortedLined DEF Rising

(* Where the merge of two sets may be: it has taken what lies before the   *)
(* two places, in order, and nothing of it begins after what is left.      *)
MergedAfter(s, t, k) ==
  {w \in ChainAfter(s, t, k) :
     /\ w.out \in HalfOpens /\ Rising(w.out)
     /\ ToSet(w.out) = {s[m] : m \in 1 .. w.left - 1} \cup {t[m] : m \in 1 .. w.right - 1}
     /\ \A x \in ToSet(w.out) :
          /\ \A m \in w.left .. Len(s) : Lo(x) <= Lo(s[m])
          /\ \A m \in w.right .. Len(t) : Lo(x) <= Lo(t[m])}

LEMMA TakenInOrder ==
  ASSUME NEW out \in HalfOpens, Rising(out), NEW x \in HalfOpen, \A y \in ToSet(out) : Lo(y) <= Lo(x)
  PROVE  /\ Append(out, x) \in HalfOpens /\ Rising(Append(out, x))
         /\ ToSet(Append(out, x)) = ToSet(out) \cup {x}
<1>1. /\ Len(out) \in Nat
      /\ \A n \in 1 .. Len(out) : out[n] \in ToSet(out)
  BY HalfOpensAre
<1>2. /\ Append(out, x) \in HalfOpens
      /\ Len(Append(out, x)) = Len(out) + 1
      /\ \A n \in 1 .. Len(out) : Append(out, x)[n] = out[n]
      /\ Append(out, x)[Len(out) + 1] = x
      /\ ToSet(Append(out, x)) = ToSet(out) \cup {x}
  BY AppendFacts DEF HalfOpens
<1>3. ASSUME NEW m \in 1 .. Len(out) + 1, NEW n \in 1 .. Len(out) + 1, m < n
      PROVE  Lo(Append(out, x)[m]) <= Lo(Append(out, x)[n])
  <2>1. m \in 1 .. Len(out) /\ (n = Len(out) + 1 \/ n \in 1 .. Len(out))
    BY <1>1, <1>3
  <2>2. CASE n = Len(out) + 1
    BY <2>1, <2>2, <1>1, <1>2
  <2>3. CASE n \in 1 .. Len(out)
    BY <2>1, <2>3, <1>2, <1>3 DEF Rising
  <2> QED
    BY <2>1, <2>2, <2>3
<1> QED
  BY <1>2, <1>3 DEF Rising

LEMMA MergeStepStays ==
  ASSUME NEW s \in HalfOpens, Rising(s), NEW t \in HalfOpens, Rising(t),
         NEW k \in 1 .. Len(s) + Len(t), NEW w \in MergedAfter(s, t, k - 1)
  PROVE  ChainStep(s, t, w) \in MergedAfter(s, t, k)
<1> DEFINE v == ChainStep(s, t, w)
           l == w.left
           r == w.right
<1>1. /\ s \in Ivals /\ Len(s) \in Nat /\ \A n \in 1 .. Len(s) : s[n] \in HalfOpen
      /\ t \in Ivals /\ Len(t) \in Nat /\ \A n \in 1 .. Len(t) : t[n] \in HalfOpen
  BY HalfOpensAre
<1>2. /\ w \in ChainAfter(s, t, k - 1)
      /\ w.out \in HalfOpens /\ Rising(w.out)
      /\ ToSet(w.out) = {s[m] : m \in 1 .. l - 1} \cup {t[m] : m \in 1 .. r - 1}
      /\ \A x \in ToSet(w.out) :
           /\ \A m \in l .. Len(s) : Lo(x) <= Lo(s[m])
           /\ \A m \in r .. Len(t) : Lo(x) <= Lo(t[m])
  BY DEF MergedAfter
<1>3. v \in ChainAfter(s, t, k)
  BY <1>1, <1>2, ChainStepStays
<1>4. /\ l \in 1 .. Len(s) + 1 /\ r \in 1 .. Len(t) + 1 /\ l + r = k + 1
  BY <1>2 DEF ChainAfter
<1> HIDE DEF l, r
<1>5. CASE l <= Len(s) /\ (r <= Len(t) => Precedes(s[l], t[r]))
  <2>1. v = [left |-> l + 1, right |-> r, out |-> Append(w.out, s[l])]
    BY <1>5 DEF ChainStep, l, r
  <2>2. l \in 1 .. Len(s) /\ l \in l .. Len(s) /\ s[l] \in HalfOpen
    BY <1>1, <1>4, <1>5
  <2>3. /\ Append(w.out, s[l]) \in HalfOpens /\ Rising(Append(w.out, s[l]))
        /\ ToSet(Append(w.out, s[l])) = ToSet(w.out) \cup {s[l]}
    BY <1>2, <2>2, TakenInOrder
  <2>4. v.left = l + 1 /\ v.right = r /\ v.out = Append(w.out, s[l])
    BY <2>1
  <2> HIDE DEF v
  <2>5. {s[m] : m \in 1 .. l} = {s[m] : m \in 1 .. l - 1} \cup {s[l]}
    <3>1. /\ \A m \in 1 .. l : m \in 1 .. l - 1 \/ m = l
          /\ l \in 1 .. l /\ \A m \in 1 .. l - 1 : m \in 1 .. l
      BY <1>4
    <3> QED
      BY <3>1
  <2>6. ToSet(v.out) = {s[m] : m \in 1 .. v.left - 1} \cup {t[m] : m \in 1 .. v.right - 1}
    <3>1. v.left - 1 = l
      BY <2>4, <1>4
    <3> QED
      BY <3>1, <1>2, <2>3, <2>4, <2>5
  <2>7. ASSUME NEW x \in ToSet(v.out)
        PROVE  /\ \A m \in v.left .. Len(s) : Lo(x) <= Lo(s[m])
               /\ \A m \in v.right .. Len(t) : Lo(x) <= Lo(t[m])
    <3>1. CASE x \in ToSet(w.out)
      <4>1. \A m \in l + 1 .. Len(s) : m \in l .. Len(s)
        BY <1>4
      <4> QED
        BY <3>1, <4>1, <1>2, <2>4
    <3>2. CASE x = s[l]
      <4>1. ASSUME NEW m \in l + 1 .. Len(s)
            PROVE  Lo(x) <= Lo(s[m])
        <5>1. m \in 1 .. Len(s) /\ l < m
          BY <1>4
        <5> QED
          BY <5>1, <2>2, <3>2 DEF Rising
      <4>2. ASSUME NEW m \in r .. Len(t)
            PROVE  Lo(x) <= Lo(t[m])
        <5>1. r \in 1 .. Len(t) /\ m \in 1 .. Len(t) /\ r <= m
          BY <1>4
        <5>2. /\ t[r] \in HalfOpen /\ t[m] \in HalfOpen
              /\ Lo(t[r]) \in Int /\ Lo(t[m]) \in Int /\ Lo(s[l]) \in Int
              /\ s[l].lower.value = Lo(s[l]) /\ t[r].lower.value = Lo(t[r])
          BY <1>1, <2>2, <5>1, HalfOpenIs
        <5>3. Precedes(s[l], t[r])
          BY <1>5, <5>1
        <5>4. Lo(s[l]) <= Lo(t[r])
          BY <5>2, <5>3 DEF Precedes, Less
        <5>5. Lo(t[r]) <= Lo(t[m])
          <6>1. CASE r = m
            BY <5>2, <6>1
          <6>2. CASE r < m
            BY <5>1, <6>2 DEF Rising
          <6> QED
            BY <5>1, <6>1, <6>2
        <5> QED
          BY <3>2, <5>2, <5>4, <5>5
      <4> QED
        BY <2>4, <4>1, <4>2
    <3> QED
      BY <2>3, <2>4, <3>1, <3>2
  <2> QED
    BY <1>3, <2>3, <2>4, <2>6, <2>7 DEF MergedAfter, v
<1>6. CASE ~(l <= Len(s) /\ (r <= Len(t) => Precedes(s[l], t[r])))
  <2>1. v = [left |-> l, right |-> r + 1, out |-> Append(w.out, t[r])]
    BY <1>6 DEF ChainStep, l, r
  <2>2. r \in 1 .. Len(t) /\ r \in r .. Len(t) /\ t[r] \in HalfOpen
    <3>1. r \in 1 .. Len(t)
      BY <1>1, <1>4, <1>6
    <3> QED
      BY <3>1, <1>1
  <2>3. /\ Append(w.out, t[r]) \in HalfOpens /\ Rising(Append(w.out, t[r]))
        /\ ToSet(Append(w.out, t[r])) = ToSet(w.out) \cup {t[r]}
    BY <1>2, <2>2, TakenInOrder
  <2>4. v.left = l /\ v.right = r + 1 /\ v.out = Append(w.out, t[r])
    BY <2>1
  <2> HIDE DEF v
  <2>5. {t[m] : m \in 1 .. r} = {t[m] : m \in 1 .. r - 1} \cup {t[r]}
    <3>1. /\ \A m \in 1 .. r : m \in 1 .. r - 1 \/ m = r
          /\ r \in 1 .. r /\ \A m \in 1 .. r - 1 : m \in 1 .. r
      BY <1>4
    <3> QED
      BY <3>1
  <2>6. ToSet(v.out) = {s[m] : m \in 1 .. v.left - 1} \cup {t[m] : m \in 1 .. v.right - 1}
    <3>1. v.right - 1 = r
      BY <2>4, <1>4
    <3> QED
      BY <3>1, <1>2, <2>3, <2>4, <2>5
  <2>7. ASSUME NEW x \in ToSet(v.out)
        PROVE  /\ \A m \in v.left .. Len(s) : Lo(x) <= Lo(s[m])
               /\ \A m \in v.right .. Len(t) : Lo(x) <= Lo(t[m])
    <3>1. CASE x \in ToSet(w.out)
      <4>1. \A m \in r + 1 .. Len(t) : m \in r .. Len(t)
        BY <1>4
      <4> QED
        BY <3>1, <4>1, <1>2, <2>4
    <3>2. CASE x = t[r]
      <4>1. ASSUME NEW m \in r + 1 .. Len(t)
            PROVE  Lo(x) <= Lo(t[m])
        <5>1. m \in 1 .. Len(t) /\ r < m
          BY <1>4
        <5> QED
          BY <5>1, <2>2, <3>2 DEF Rising
      <4>2. ASSUME NEW m \in l .. Len(s)
            PROVE  Lo(x) <= Lo(s[m])
        <5>1. l \in 1 .. Len(s) /\ m \in 1 .. Len(s) /\ l <= m
          BY <1>4
        <5>2. /\ s[l] \in HalfOpen /\ s[m] \in HalfOpen
              /\ Lo(s[l]) \in Int /\ Lo(s[m]) \in Int /\ Lo(t[r]) \in Int
              /\ s[l].lower.value = Lo(s[l]) /\ t[r].lower.value = Lo(t[r])
          BY <1>1, <2>2, <5>1, HalfOpenIs
        <5>3. ~Precedes(s[l], t[r])
          BY <1>6, <2>2, <5>1
        <5>4. Lo(t[r]) <= Lo(s[l])
          BY <5>2, <5>3 DEF Precedes, Less
        <5>5. Lo(s[l]) <= Lo(s[m])
          <6>1. CASE l = m
            BY <5>2, <6>1
          <6>2. CASE l < m
            BY <5>1, <6>2 DEF Rising
          <6> QED
            BY <5>1, <6>1, <6>2
        <5> QED
          BY <3>2, <5>2, <5>4, <5>5
      <4> QED
        BY <2>4, <4>1, <4>2
    <3> QED
      BY <2>3, <2>4, <3>1, <3>2
  <2> QED
    BY <1>3, <2>3, <2>4, <2>6, <2>7 DEF MergedAfter, v
<1> QED
  BY <1>5, <1>6

(* The union of two sets.                                                  *)
LEMMA UnionLined ==
  ASSUME NEW s \in HalfOpens, Lined(s), NEW t \in HalfOpens, Lined(t)
  PROVE  /\ UnionOf(s, t) \in Seq(Span) /\ Lined(UnionOf(s, t))
         /\ Covered(ToSet(UnionOf(s, t))) = Covered(ToSet(s)) \cup Covered(ToSet(t))
<1> DEFINE N == Len(s) + Len(t)
           c == ChainOrdered(s, t)
           D == [n \in 0 .. N |-> MergedAfter(s, t, n)]
<1>1. /\ s \in Ivals /\ Len(s) \in Nat /\ ToSet(s) = {s[n] : n \in 1 .. Len(s)} /\ Rising(s)
      /\ t \in Ivals /\ Len(t) \in Nat /\ ToSet(t) = {t[n] : n \in 1 .. Len(t)} /\ Rising(t)
  BY HalfOpensAre, LinedIsOrdered
<1>2. PICK g : /\ c = g[N].out
               /\ g[0] = WalkBegin
               /\ \A n \in 1 .. N : g[n] = ChainStep(s, t, g[n - 1])
               /\ \A n \in 0 .. N : g[n] \in ChainAfter(s, t, n)
  BY <1>1, ChainWalk
<1>3. g[0] \in D[0]
  <2>1. /\ WalkBegin.left = 1 /\ WalkBegin.right = 1 /\ WalkBegin.out = <<>>
    BY DEF WalkBegin
  <2>2. <<>> \in HalfOpens /\ Rising(<<>>) /\ ToSet(<<>>) = {}
    BY DEF HalfOpens, Rising, ToSet
  <2>3. {s[m] : m \in 1 .. 0} = {} /\ {t[m] : m \in 1 .. 0} = {}
    OBVIOUS
  <2>4. WalkBegin \in ChainAfter(s, t, 0) /\ 0 \in 0 .. N
    BY <1>1, <1>2
  <2>5. WalkBegin \in MergedAfter(s, t, 0)
    BY <2>1, <2>2, <2>3, <2>4 DEF MergedAfter
  <2> QED
    BY <2>4, <2>5, <1>2
<1>4. ASSUME NEW n \in 1 .. N, g[n - 1] \in D[n - 1]
      PROVE  g[n] \in D[n]
  <2>1. g[n - 1] \in MergedAfter(s, t, n - 1)
    BY <1>4, <1>1
  <2>2. ChainStep(s, t, g[n - 1]) \in MergedAfter(s, t, n)
    BY <2>1, <1>1, MergeStepStays
  <2> QED
    BY <2>2, <1>1, <1>2
<1>5. \A n \in 0 .. N : g[n] \in D[n]
  <2>1. N \in Nat
    BY <1>1
  <2> HIDE DEF D, N
  <2> QED
    BY <2>1, <1>3, <1>4, StepsStay
<1>6. g[N] \in MergedAfter(s, t, N) /\ g[N] \in ChainAfter(s, t, N)
  BY <1>1, <1>2, <1>5
<1>7. g[N].left = Len(s) + 1 /\ g[N].right = Len(t) + 1
  <2>1. /\ g[N].left \in 1 .. Len(s) + 1 /\ g[N].right \in 1 .. Len(t) + 1
        /\ g[N].left + g[N].right = N + 2
    BY <1>6 DEF ChainAfter
  <2> QED
    BY <2>1, <1>1
<1>8. c \in HalfOpens /\ Rising(c) /\ ToSet(c) = ToSet(s) \cup ToSet(t)
  <2>1. /\ c \in HalfOpens /\ Rising(c)
        /\ ToSet(c) = {s[m] : m \in 1 .. g[N].left - 1} \cup {t[m] : m \in 1 .. g[N].right - 1}
    BY <1>2, <1>6 DEF MergedAfter
  <2>2. g[N].left - 1 = Len(s) /\ g[N].right - 1 = Len(t)
    BY <1>1, <1>7
  <2> HIDE DEF c, N
  <2> QED
    BY <2>1, <2>2, <1>1
<1>9. Covered(ToSet(c)) = Covered(ToSet(s)) \cup Covered(ToSet(t))
  BY <1>8 DEF Covered
<1> HIDE DEF c
<1> QED
  BY <1>8, <1>9, JoinSortedLined DEF UnionOf, c

(* The places at which an intersection may be. *)
Places(s, t) == [left: 1 .. Len(s) + 1, right: 1 .. Len(t) + 1, out: Ivals]

LEMMA IntersectStepTyped ==
  ASSUME NEW s \in Ivals, NEW t \in Ivals, NEW w \in Places(s, t)
  PROVE  IntersectStep(s, t, w) \in Places(s, t)
<1>1. /\ w.left \in 1 .. Len(s) + 1 /\ w.right \in 1 .. Len(t) + 1 /\ w.out \in Ivals
      /\ Len(s) \in Nat /\ Len(t) \in Nat
  BY DEF Places, Ivals
<1>2. CASE w.left > Len(s) \/ w.right > Len(t)
  BY <1>2 DEF IntersectStep
<1>3. CASE ~(w.left > Len(s) \/ w.right > Len(t))
  <2> DEFINE c == Common(s[w.left], t[w.right])
  <2>1. w.left \in 1 .. Len(s) /\ w.right \in 1 .. Len(t)
    BY <1>1, <1>3
  <2>2. s[w.left] \in IntervalType /\ t[w.right] \in IntervalType
    BY <2>1 DEF Ivals
  <2>3. c \in Ivals
    BY <2>2, IntersectTyped DEF Common, Ivals
  <2> HIDE DEF c
  <2>4. w.out \o c \in Ivals
    BY <1>1, <2>3, ConcatFacts
  <2>5. IntersectStep(s, t, w) = IF Less(s[w.left].upper, t[w.right].upper)
          THEN [left |-> w.left + 1, right |-> w.right, out |-> w.out \o c]
          ELSE [left |-> w.left, right |-> w.right + 1, out |-> w.out \o c]
    BY <1>3 DEF IntersectStep, c
  <2> DEFINE out == w.out \o c
  <2> HIDE DEF out
  <2>6. /\ [left |-> w.left + 1, right |-> w.right, out |-> out] \in Places(s, t)
        /\ [left |-> w.left, right |-> w.right + 1, out |-> out] \in Places(s, t)
    BY <1>1, <2>1, <2>4 DEF Places, out
  <2> QED
    BY <2>5, <2>6 DEF out
<1> QED
  BY <1>2, <1>3

(* The walk along two sets that intersects them. *)
LEMMA IntersectWalk ==
  ASSUME NEW s \in Ivals, NEW t \in Ivals
  PROVE  \E g : /\ IntersectionOf(s, t) = g[Len(s) + Len(t)].out
                /\ g[0] = WalkBegin
                /\ \A n \in 1 .. Len(s) + Len(t) : g[n] = IntersectStep(s, t, g[n - 1])
                /\ \A n \in 0 .. Len(s) + Len(t) : g[n] \in Places(s, t)
<1> DEFINE N == Len(s) + Len(t)
           D == [n \in 0 .. N |-> Places(s, t)]
           F == [n \in 1 .. N |-> [w \in Places(s, t) |-> IntersectStep(s, t, w)]]
           e == WalkBegin
           IsIt(g) == g = [n \in 0 .. N |-> IF n = 0 THEN WalkBegin ELSE IntersectStep(s, t, g[n - 1])]
           j == CHOOSE g : IsIt(g)
<1>1. N \in Nat /\ Len(s) \in Nat /\ Len(t) \in Nat
  BY DEF Ivals
<1>2. WalkBegin \in Places(s, t)
  BY <1>1 DEF WalkBegin, Places, Ivals
<1>3. PICK g : Computes(g, N, e, F) /\ Stays(g, N, D)
  <2>1. e \in D[0]
    BY <1>1, <1>2
  <2>2. \A k \in 1 .. N : \A x \in D[k - 1] : F[k][x] \in D[k]
    <3>1. ASSUME NEW k \in 1 .. N, NEW x \in D[k - 1]
          PROVE  F[k][x] \in D[k]
      <4>1. x \in Places(s, t) /\ D[k] = Places(s, t)
        BY <1>1
      <4> QED
        BY <4>1, IntersectStepTyped
    <3> QED
      BY <3>1
  <2> HIDE DEF D, F, N, e
  <2> QED
    BY <1>1, <2>1, <2>2, StepByStep
<1>4. IsIt(g)
  <2>1. ASSUME NEW n \in 0 .. N
        PROVE  (IF n = 0 THEN e ELSE F[n][g[n - 1]]) = (IF n = 0 THEN WalkBegin ELSE IntersectStep(s, t, g[n - 1]))
    <3>1. n # 0 => n \in 1 .. N /\ n - 1 \in 0 .. N
      BY <1>1
    <3>2. n # 0 => g[n - 1] \in Places(s, t)
      BY <3>1, <1>3 DEF Stays
    <3> QED
      BY <3>1, <3>2
  <2> HIDE DEF F, D, N, e
  <2> QED
    BY <1>3, <2>1 DEF Computes
<1>5. IsIt(j)
  BY <1>4
<1>6. IntersectionOf(s, t) = j[N].out
  BY DEF IntersectionOf
<1> HIDE DEF j
<1>7. j[0] = WalkBegin /\ \A n \in 1 .. N : j[n] = IntersectStep(s, t, j[n - 1])
  BY <1>5, <1>1
<1>8. \A n \in 0 .. N : j[n] \in D[n]
  <2>1. j[0] \in D[0]
    BY <1>1, <1>2, <1>7
  <2>2. ASSUME NEW n \in 1 .. N, j[n - 1] \in D[n - 1]
        PROVE  j[n] \in D[n]
    BY <2>2, <1>1, <1>7, IntersectStepTyped
  <2> HIDE DEF D, N, F
  <2> QED
    BY <1>1, <2>1, <2>2, StepsStay
<1> QED
  BY <1>6, <1>7, <1>8

(* The points that two sets have in common, as far as one of the places    *)
(* has gone past an interval that has them.                                *)
Passed(s, t, l, r) ==
  {p \in Point : \E a \in 1 .. Len(s), b \in 1 .. Len(t) :
     (a < l \/ b < r) /\ p \in PointsOf(s[a]) /\ p \in PointsOf(t[b])}

(* Whatever has been put out lies before all that is left on one side.     *)
CommonAfter(s, t, k) ==
  {w \in Places(s, t) :
     /\ w.out \in Seq(Span) /\ Lined(w.out)
     /\ w.left + w.right = k + 2 \/ w.left > Len(s) \/ w.right > Len(t)
     /\ Covered(ToSet(w.out)) = Passed(s, t, w.left, w.right)
     /\ \A x \in ToSet(w.out) :
          \/ \A a \in w.left .. Len(s) : Up(x) <= Lo(s[a])
          \/ \A b \in w.right .. Len(t) : Up(x) <= Lo(t[b])}

LEMMA TakenInLine ==
  ASSUME NEW out \in Seq(Span), Lined(out), NEW x \in Span, \A y \in ToSet(out) : Up(y) <= Lo(x)
  PROVE  /\ Append(out, x) \in Seq(Span) /\ Lined(Append(out, x))
         /\ ToSet(Append(out, x)) = ToSet(out) \cup {x}
<1>1. /\ Len(out) \in Nat
      /\ \A n \in 1 .. Len(out) : out[n] \in ToSet(out)
  BY ToSetFacts
<1>2. /\ Append(out, x) \in Seq(Span)
      /\ Len(Append(out, x)) = Len(out) + 1
      /\ \A n \in 1 .. Len(out) : Append(out, x)[n] = out[n]
      /\ Append(out, x)[Len(out) + 1] = x
      /\ ToSet(Append(out, x)) = ToSet(out) \cup {x}
  BY AppendFacts
<1>3. ASSUME NEW m \in 1 .. Len(out) + 1, NEW n \in 1 .. Len(out) + 1, m < n
      PROVE  Up(Append(out, x)[m]) <= Lo(Append(out, x)[n])
  <2>1. m \in 1 .. Len(out) /\ (n = Len(out) + 1 \/ n \in 1 .. Len(out))
    BY <1>1, <1>3
  <2>2. CASE n = Len(out) + 1
    BY <2>1, <2>2, <1>1, <1>2
  <2>3. CASE n \in 1 .. Len(out)
    BY <2>1, <2>3, <1>2, <1>3 DEF Lined
  <2> QED
    BY <2>1, <2>2, <2>3
<1> QED
  BY <1>2, <1>3 DEF Lined

(* What is in line after an interval that ends first has nothing of it.    *)
LEMMA NothingBeyond ==
  ASSUME NEW s \in HalfOpens, Lined(s), NEW a \in 1 .. Len(s), NEW b \in 1 .. Len(s), a < b,
         NEW i \in HalfOpen, Up(i) <= Up(s[a])
  PROVE  Up(i) <= Lo(s[b]) /\ \A p \in PointsOf(i) : p \notin PointsOf(s[b])
<1>1. s[a] \in HalfOpen /\ s[b] \in HalfOpen
  BY HalfOpensAre
<1>2. /\ Lo(i) \in Int /\ Up(i) \in Int /\ Up(s[a]) \in Int /\ Lo(s[b]) \in Int
      /\ PointsOf(i) = {p \in Point : 2 * Lo(i) <= p /\ p < 2 * Up(i)}
      /\ PointsOf(s[b]) = {p \in Point : 2 * Lo(s[b]) <= p /\ p < 2 * Up(s[b])}
  BY <1>1, HalfOpenIs, HalfOpenPoints
<1>3. Up(s[a]) <= Lo(s[b])
  BY DEF Lined
<1>4. \A p \in Point : p \in Int
  BY DEF Point
<1>5. Up(i) <= Lo(s[b])
  BY <1>2, <1>3
<1>6. ASSUME NEW p \in PointsOf(i), p \in PointsOf(s[b])
      PROVE  FALSE
  BY <1>2, <1>4, <1>5, <1>6
<1> QED
  BY <1>5, <1>6

LEMMA CommonStepStays ==
  ASSUME NEW s \in HalfOpens, Lined(s), NEW t \in HalfOpens, Lined(t),
         NEW k \in Nat, NEW w \in CommonAfter(s, t, k)
  PROVE  IntersectStep(s, t, w) \in CommonAfter(s, t, k + 1)
<1> DEFINE v == IntersectStep(s, t, w)
           l == w.left
           r == w.right
           i == s[l]
           j == t[r]
           c == Common(i, j)
           out == w.out \o c
<1> SUFFICES v \in CommonAfter(s, t, k + 1)
  OBVIOUS
<1>1. /\ s \in Ivals /\ Len(s) \in Nat /\ \A n \in 1 .. Len(s) : s[n] \in HalfOpen
      /\ t \in Ivals /\ Len(t) \in Nat /\ \A n \in 1 .. Len(t) : t[n] \in HalfOpen
  BY HalfOpensAre
<1>2. /\ w \in Places(s, t)
      /\ w.out \in Seq(Span) /\ Lined(w.out)
      /\ l + r = k + 2 \/ l > Len(s) \/ r > Len(t)
      /\ Covered(ToSet(w.out)) = Passed(s, t, l, r)
      /\ \A x \in ToSet(w.out) :
           \/ \A a \in l .. Len(s) : Up(x) <= Lo(s[a])
           \/ \A b \in r .. Len(t) : Up(x) <= Lo(t[b])
  BY DEF CommonAfter
<1>3. l \in 1 .. Len(s) + 1 /\ r \in 1 .. Len(t) + 1
  BY <1>2 DEF Places
<1>4. v \in Places(s, t)
  BY <1>1, <1>2, IntersectStepTyped
<1>5. CASE l > Len(s) \/ r > Len(t)
  <2>1. v = w
    BY <1>5 DEF IntersectStep
  <2> QED
    BY <2>1, <1>2, <1>5 DEF CommonAfter
<1>6. CASE ~(l > Len(s) \/ r > Len(t))
  <2>1. l \in 1 .. Len(s) /\ r \in 1 .. Len(t) /\ l \in l .. Len(s) /\ r \in r .. Len(t)
    BY <1>1, <1>3, <1>6
  <2>2. /\ i \in HalfOpen /\ j \in HalfOpen
        /\ Lo(i) \in Int /\ Up(i) \in Int /\ Lo(j) \in Int /\ Up(j) \in Int
        /\ i.upper.value = Up(i) /\ j.upper.value = Up(j)
    BY <1>1, <2>1, HalfOpenIs
  <2>3. v = IF Less(i.upper, j.upper)
            THEN [left |-> l + 1, right |-> r, out |-> out]
            ELSE [left |-> l, right |-> r + 1, out |-> out]
    BY <1>6 DEF IntersectStep
  <2>4. \/ c = <<>> /\ PointsOf(i) \cap PointsOf(j) = {}
        \/ \E x \in Span : /\ c = <<x>>
                           /\ Lo(x) = (IF Lo(i) < Lo(j) THEN Lo(j) ELSE Lo(i))
                           /\ Up(x) = (IF Up(j) < Up(i) THEN Up(j) ELSE Up(i))
                           /\ PointsOf(x) = PointsOf(i) \cap PointsOf(j)
    <3> HIDE DEF i, j
    <3> QED
      BY <2>2, CommonOfTwo
  <2>5. ASSUME NEW y \in ToSet(w.out)
        PROVE  Lo(y) \in Int /\ Up(y) \in Int /\ (Up(y) <= Lo(i) \/ Up(y) <= Lo(j))
    <3>1. y \in Span
      BY <1>2, <2>5, ToSetFacts
    <3>2. Up(y) <= Lo(i) \/ Up(y) <= Lo(j)
      BY <1>2, <2>1
    <3> QED
      BY <3>1, <3>2, SpanIs
  <2>6. /\ out \in Seq(Span) /\ Lined(out)
        /\ Covered(ToSet(out)) = Covered(ToSet(w.out)) \cup (PointsOf(i) \cap PointsOf(j))
        /\ \A x \in ToSet(out) : x \in ToSet(w.out) \/ (x \in Span /\ Up(x) <= Up(i) /\ Up(x) <= Up(j))
    <3>1. CASE c = <<>> /\ PointsOf(i) \cap PointsOf(j) = {}
      <4>1. out = w.out
        BY <1>2, <3>1
      <4> QED
        BY <4>1, <3>1, <1>2
    <3>2. ASSUME NEW x \in Span, c = <<x>>,
                 Lo(x) = (IF Lo(i) < Lo(j) THEN Lo(j) ELSE Lo(i)),
                 Up(x) = (IF Up(j) < Up(i) THEN Up(j) ELSE Up(i)),
                 PointsOf(x) = PointsOf(i) \cap PointsOf(j)
          PROVE  /\ out \in Seq(Span) /\ Lined(out)
                 /\ Covered(ToSet(out)) = Covered(ToSet(w.out)) \cup (PointsOf(i) \cap PointsOf(j))
                 /\ \A z \in ToSet(out) : z \in ToSet(w.out) \/ (z \in Span /\ Up(z) <= Up(i) /\ Up(z) <= Up(j))
      <4>1. out = Append(w.out, x)
        <5>1. \A f \in Seq(Span) : f \o <<x>> = Append(f, x)
          OBVIOUS
        <5> QED
          BY <1>2, <3>2, <5>1
      <4>2. Up(x) <= Up(i) /\ Up(x) <= Up(j) /\ Lo(i) <= Lo(x) /\ Lo(j) <= Lo(x)
        <5> HIDE DEF i, j
        <5> QED
          BY <2>2, <3>2
      <4>3. \A y \in ToSet(w.out) : Up(y) <= Lo(x)
        <5> HIDE DEF i, j
        <5>1. Lo(x) \in Int
          BY SpanIs
        <5> QED
          BY <2>2, <2>5, <4>2, <5>1
      <4>4. /\ Append(w.out, x) \in Seq(Span) /\ Lined(Append(w.out, x))
            /\ ToSet(Append(w.out, x)) = ToSet(w.out) \cup {x}
        BY <1>2, <4>3, TakenInLine
      <4>5. Covered(ToSet(out)) = Covered(ToSet(w.out)) \cup PointsOf(x)
        BY <4>1, <4>4, CoveredOf
      <4> HIDE DEF i, j, out, c
      <4> QED
        BY <4>1, <4>2, <4>4, <4>5, <3>2
    <3> HIDE DEF i, j, out, c
    <3> QED
      BY <3>1, <3>2, <2>4
  <2> HIDE DEF out, c, i, j
  <2>7. CASE Less(i.upper, j.upper)
    <3>1. v = [left |-> l + 1, right |-> r, out |-> out]
      BY <2>3, <2>7
    <3>2. v.left = l + 1 /\ v.right = r /\ v.out = out
      BY <3>1
    <3>3. Up(i) <= Up(j)
      BY <2>2, <2>7 DEF Less
    <3>4. ASSUME NEW b \in r + 1 .. Len(t), NEW p \in PointsOf(i)
          PROVE  p \notin PointsOf(t[b])
      <4>1. b \in 1 .. Len(t) /\ r < b /\ r \in 1 .. Len(t)
        BY <1>1, <2>1
      <4>2. Up(i) <= Up(t[r])
        BY <3>3 DEF j
      <4> QED
        BY <4>1, <4>2, <2>2, NothingBeyond
    <3>5. ASSUME NEW a \in l + 1 .. Len(s), NEW x, Up(x) \in Int, Up(x) <= Up(i)
          PROVE  Up(x) <= Lo(s[a])
      <4>1. a \in 1 .. Len(s) /\ l < a /\ l \in 1 .. Len(s)
        BY <1>1, <2>1
      <4>2. Up(i) <= Lo(s[a])
        BY <4>1 DEF Lined, i
      <4>3. Lo(s[a]) \in Int
        BY <4>1, <1>1, HalfOpenIs
      <4> QED
        BY <4>2, <4>3, <3>5, <2>2
    <3>6. Covered(ToSet(out)) = Passed(s, t, l + 1, r)
      <4>1. ASSUME NEW p \in Point
            PROVE  p \in Passed(s, t, l + 1, r)
                   <=> p \in Passed(s, t, l, r) \/ (p \in PointsOf(i) /\ p \in PointsOf(j))
        <5>1. ASSUME NEW a \in 1 .. Len(s), NEW b \in 1 .. Len(t), a < l + 1 \/ b < r,
                     p \in PointsOf(s[a]), p \in PointsOf(t[b])
              PROVE  p \in Passed(s, t, l, r) \/ (p \in PointsOf(i) /\ p \in PointsOf(j))
          <6>1. a < l \/ b < r \/ (a = l /\ b = r) \/ (a = l /\ b \in r + 1 .. Len(t))
            BY <5>1, <1>1, <2>1
          <6>2. CASE a < l \/ b < r
            BY <5>1, <6>2 DEF Passed
          <6>3. CASE a = l /\ b = r
            BY <5>1, <6>3 DEF i, j
          <6>4. CASE a = l /\ b \in r + 1 .. Len(t)
            <7>1. p \in PointsOf(i)
              BY <5>1, <6>4 DEF i
            <7> QED
              BY <7>1, <6>4, <5>1, <3>4
          <6> QED
            BY <6>1, <6>2, <6>3, <6>4
        <5>2. ASSUME p \in Passed(s, t, l, r)
              PROVE  p \in Passed(s, t, l + 1, r)
          <6>1. \A a \in 1 .. Len(s) : a < l => a < l + 1
            BY <2>1
          <6> QED
            BY <5>2, <6>1 DEF Passed
        <5>3. ASSUME p \in PointsOf(i), p \in PointsOf(j)
              PROVE  p \in Passed(s, t, l + 1, r)
          <6>1. l < l + 1
            BY <2>1
          <6> QED
            BY <5>3, <6>1, <2>1 DEF Passed, i, j
        <5>4. p \in Passed(s, t, l + 1, r) =>
                \E a \in 1 .. Len(s), b \in 1 .. Len(t) :
                  (a < l + 1 \/ b < r) /\ p \in PointsOf(s[a]) /\ p \in PointsOf(t[b])
          BY DEF Passed
        <5> QED
          BY <5>1, <5>2, <5>3, <5>4
      <4>2. PointsOf(i) \subseteq Point /\ Passed(s, t, l + 1, r) \subseteq Point /\ Passed(s, t, l, r) \subseteq Point
        BY DEF PointsOf, Passed
      <4> QED
        BY <4>1, <4>2, <2>6, <1>2
    <3>7. ASSUME NEW x \in ToSet(out)
          PROVE  \/ \A a \in l + 1 .. Len(s) : Up(x) <= Lo(s[a])
                 \/ \A b \in r .. Len(t) : Up(x) <= Lo(t[b])
      <4>1. CASE x \in ToSet(w.out)
        <5>1. \A a \in l + 1 .. Len(s) : a \in l .. Len(s)
          BY <2>1
        <5> QED
          BY <4>1, <5>1, <1>2
      <4>2. CASE x \in Span /\ Up(x) <= Up(i)
        BY <4>2, <3>5, SpanIs
      <4> QED
        BY <4>1, <4>2, <2>6
    <3>8. l + 1 + r = k + 1 + 2
      BY <1>2, <1>6, <2>1
    <3> HIDE DEF v, l, r
    <3>9. v.left + v.right = k + 1 + 2
      BY <3>2, <3>8
    <3>10. /\ v.out \in Seq(Span) /\ Lined(v.out)
           /\ Covered(ToSet(v.out)) = Passed(s, t, v.left, v.right)
      BY <2>6, <3>2, <3>6
    <3>11. \A x \in ToSet(v.out) :
             \/ \A a \in v.left .. Len(s) : Up(x) <= Lo(s[a])
             \/ \A b \in v.right .. Len(t) : Up(x) <= Lo(t[b])
      BY <3>2, <3>7
    <3> QED
      BY <1>4, <3>9, <3>10, <3>11 DEF CommonAfter
  <2>8. CASE ~Less(i.upper, j.upper)
    <3>1. v = [left |-> l, right |-> r + 1, out |-> out]
      BY <2>3, <2>8
    <3>2. v.left = l /\ v.right = r + 1 /\ v.out = out
      BY <3>1
    <3>3. Up(j) <= Up(i)
      BY <2>2, <2>8 DEF Less
    <3>4. ASSUME NEW a \in l + 1 .. Len(s), NEW p \in PointsOf(j)
          PROVE  p \notin PointsOf(s[a])
      <4>1. a \in 1 .. Len(s) /\ l < a /\ l \in 1 .. Len(s)
        BY <1>1, <2>1
      <4>2. Up(j) <= Up(s[l])
        BY <3>3 DEF i
      <4> QED
        BY <4>1, <4>2, <2>2, NothingBeyond
    <3>5. ASSUME NEW b \in r + 1 .. Len(t), NEW x, Up(x) \in Int, Up(x) <= Up(j)
          PROVE  Up(x) <= Lo(t[b])
      <4>1. b \in 1 .. Len(t) /\ r < b /\ r \in 1 .. Len(t)
        BY <1>1, <2>1
      <4>2. Up(j) <= Lo(t[b])
        BY <4>1 DEF Lined, j
      <4>3. Lo(t[b]) \in Int
        BY <4>1, <1>1, HalfOpenIs
      <4> QED
        BY <4>2, <4>3, <3>5, <2>2
    <3>6. Covered(ToSet(out)) = Passed(s, t, l, r + 1)
      <4>1. ASSUME NEW p \in Point
            PROVE  p \in Passed(s, t, l, r + 1)
                   <=> p \in Passed(s, t, l, r) \/ (p \in PointsOf(i) /\ p \in PointsOf(j))
        <5>1. ASSUME NEW a \in 1 .. Len(s), NEW b \in 1 .. Len(t), a < l \/ b < r + 1,
                     p \in PointsOf(s[a]), p \in PointsOf(t[b])
              PROVE  p \in Passed(s, t, l, r) \/ (p \in PointsOf(i) /\ p \in PointsOf(j))
          <6>1. a < l \/ b < r \/ (a = l /\ b = r) \/ (b = r /\ a \in l + 1 .. Len(s))
            BY <5>1, <1>1, <2>1
          <6>2. CASE a < l \/ b < r
            BY <5>1, <6>2 DEF Passed
          <6>3. CASE a = l /\ b = r
            BY <5>1, <6>3 DEF i, j
          <6>4. CASE b = r /\ a \in l + 1 .. Len(s)
            <7>1. p \in PointsOf(j)
              BY <5>1, <6>4 DEF j
            <7> QED
              BY <7>1, <6>4, <5>1, <3>4
          <6> QED
            BY <6>1, <6>2, <6>3, <6>4
        <5>2. ASSUME p \in Passed(s, t, l, r)
              PROVE  p \in Passed(s, t, l, r + 1)
          <6>1. \A b \in 1 .. Len(t) : b < r => b < r + 1
            BY <2>1
          <6> QED
            BY <5>2, <6>1 DEF Passed
        <5>3. ASSUME p \in PointsOf(i), p \in PointsOf(j)
              PROVE  p \in Passed(s, t, l, r + 1)
          <6>1. r < r + 1
            BY <2>1
          <6> QED
            BY <5>3, <6>1, <2>1 DEF Passed, i, j
        <5>4. p \in Passed(s, t, l, r + 1) =>
                \E a \in 1 .. Len(s), b \in 1 .. Len(t) :
                  (a < l \/ b < r + 1) /\ p \in PointsOf(s[a]) /\ p \in PointsOf(t[b])
          BY DEF Passed
        <5> QED
          BY <5>1, <5>2, <5>3, <5>4
      <4>2. PointsOf(i) \subseteq Point /\ Passed(s, t, l, r + 1) \subseteq Point /\ Passed(s, t, l, r) \subseteq Point
        BY DEF PointsOf, Passed
      <4> QED
        BY <4>1, <4>2, <2>6, <1>2
    <3>7. ASSUME NEW x \in ToSet(out)
          PROVE  \/ \A a \in l .. Len(s) : Up(x) <= Lo(s[a])
                 \/ \A b \in r + 1 .. Len(t) : Up(x) <= Lo(t[b])
      <4>1. CASE x \in ToSet(w.out)
        <5>1. \A b \in r + 1 .. Len(t) : b \in r .. Len(t)
          BY <2>1
        <5> QED
          BY <4>1, <5>1, <1>2
      <4>2. CASE x \in Span /\ Up(x) <= Up(j)
        BY <4>2, <3>5, SpanIs
      <4> QED
        BY <4>1, <4>2, <2>6
    <3>8. l + (r + 1) = k + 1 + 2
      BY <1>2, <1>6, <2>1
    <3> HIDE DEF v, l, r
    <3>9. v.left + v.right = k + 1 + 2
      BY <3>2, <3>8
    <3>10. /\ v.out \in Seq(Span) /\ Lined(v.out)
           /\ Covered(ToSet(v.out)) = Passed(s, t, v.left, v.right)
      BY <2>6, <3>2, <3>6
    <3>11. \A x \in ToSet(v.out) :
             \/ \A a \in v.left .. Len(s) : Up(x) <= Lo(s[a])
             \/ \A b \in v.right .. Len(t) : Up(x) <= Lo(t[b])
      BY <3>2, <3>7
    <3> QED
      BY <1>4, <3>9, <3>10, <3>11 DEF CommonAfter
  <2> QED
    BY <2>7, <2>8
<1> QED
  BY <1>5, <1>6

(* The intersection of two sets.                                           *)
LEMMA IntersectionLined ==
  ASSUME NEW s \in HalfOpens, Lined(s), NEW t \in HalfOpens, Lined(t)
  PROVE  /\ IntersectionOf(s, t) \in Seq(Span) /\ Lined(IntersectionOf(s, t))
         /\ Covered(ToSet(IntersectionOf(s, t))) = Covered(ToSet(s)) \cap Covered(ToSet(t))
<1> DEFINE N == Len(s) + Len(t)
           D == [n \in 0 .. N |-> CommonAfter(s, t, n)]
<1>1. /\ s \in Ivals /\ Len(s) \in Nat /\ ToSet(s) = {s[n] : n \in 1 .. Len(s)}
      /\ t \in Ivals /\ Len(t) \in Nat /\ ToSet(t) = {t[n] : n \in 1 .. Len(t)}
  BY HalfOpensAre
<1>2. PICK g : /\ IntersectionOf(s, t) = g[N].out
               /\ g[0] = WalkBegin
               /\ \A n \in 1 .. N : g[n] = IntersectStep(s, t, g[n - 1])
               /\ \A n \in 0 .. N : g[n] \in Places(s, t)
  BY <1>1, IntersectWalk
<1>3. g[0] \in D[0]
  <2>1. WalkBegin.left = 1 /\ WalkBegin.right = 1 /\ WalkBegin.out = <<>>
    BY DEF WalkBegin
  <2>2. <<>> \in Seq(Span) /\ Lined(<<>>) /\ ToSet(<<>>) = {}
    BY DEF Lined, ToSet
  <2>3. Passed(s, t, 1, 1) = {} /\ Covered({}) = {}
    <3>1. \A a \in 1 .. Len(s), b \in 1 .. Len(t) : ~(a < 1 \/ b < 1)
      OBVIOUS
    <3> QED
      BY <3>1, CoveredOf DEF Passed
  <2>4. WalkBegin \in Places(s, t) /\ 0 \in 0 .. N
    BY <1>1, <1>2
  <2>5. WalkBegin \in CommonAfter(s, t, 0)
    <3>1. WalkBegin.left + WalkBegin.right = 0 + 2
      BY <2>1
    <3>2. WalkBegin.out \in Seq(Span) /\ Lined(WalkBegin.out) /\ ToSet(WalkBegin.out) = {}
      BY <2>1, <2>2
    <3>3. Covered(ToSet(WalkBegin.out)) = Passed(s, t, WalkBegin.left, WalkBegin.right)
      BY <2>1, <2>3, <3>2
    <3> QED
      BY <2>4, <3>1, <3>2, <3>3 DEF CommonAfter
  <2> QED
    BY <2>4, <2>5, <1>2
<1>4. ASSUME NEW n \in 1 .. N, g[n - 1] \in D[n - 1]
      PROVE  g[n] \in D[n]
  <2>1. g[n - 1] \in CommonAfter(s, t, n - 1) /\ n - 1 \in Nat /\ (n - 1) + 1 = n
    BY <1>4, <1>1
  <2>2. IntersectStep(s, t, g[n - 1]) \in CommonAfter(s, t, (n - 1) + 1)
    BY <2>1, CommonStepStays
  <2> QED
    BY <2>1, <2>2, <1>1, <1>2
<1>5. \A n \in 0 .. N : g[n] \in D[n]
  <2>1. N \in Nat
    BY <1>1
  <2> HIDE DEF D, N
  <2> QED
    BY <2>1, <1>3, <1>4, StepsStay
<1>6. g[N] \in CommonAfter(s, t, N) /\ g[N] \in Places(s, t)
  BY <1>1, <1>2, <1>5
<1> DEFINE w == g[N]
<1>7. /\ w.left \in 1 .. Len(s) + 1 /\ w.right \in 1 .. Len(t) + 1
      /\ w.left > Len(s) \/ w.right > Len(t)
  <2>1. w.left \in 1 .. Len(s) + 1 /\ w.right \in 1 .. Len(t) + 1
    BY <1>6 DEF Places
  <2>2. w.left + w.right = N + 2 \/ w.left > Len(s) \/ w.right > Len(t)
    BY <1>6 DEF CommonAfter
  <2> HIDE DEF w
  <2> QED
    BY <2>1, <2>2, <1>1
<1>8. w.out \in Seq(Span) /\ Lined(w.out) /\ Covered(ToSet(w.out)) = Passed(s, t, w.left, w.right)
  BY <1>6 DEF CommonAfter
<1> HIDE DEF w
<1>9. Passed(s, t, w.left, w.right) = Covered(ToSet(s)) \cap Covered(ToSet(t))
  <2>1. \A a \in 1 .. Len(s), b \in 1 .. Len(t) : a < w.left \/ b < w.right
    BY <1>1, <1>7
  <2>2. /\ \A p : p \in Covered(ToSet(s)) <=> \E a \in 1 .. Len(s) : p \in PointsOf(s[a])
        /\ \A p : p \in Covered(ToSet(t)) <=> \E b \in 1 .. Len(t) : p \in PointsOf(t[b])
    BY <1>1 DEF Covered
  <2>3. \A a : PointsOf(s[a]) \subseteq Point
    BY DEF PointsOf
  <2> QED
    BY <2>1, <2>2, <2>3 DEF Passed
<1> QED
  BY <1>2, <1>8, <1>9 DEF w

LEMMA ConcatIs ==
  ASSUME NEW S, NEW f \in Seq(S), NEW h \in Seq(S)
  PROVE  /\ f \o h \in Seq(S) /\ Len(f \o h) = Len(f) + Len(h)
         /\ Len(f) \in Nat /\ Len(h) \in Nat
         /\ \A n \in 1 .. Len(f) : (f \o h)[n] = f[n]
         /\ \A n \in 1 .. Len(h) : (f \o h)[Len(f) + n] = h[n]
OBVIOUS

(* Two ends make a half-open interval, an empty one if they coincide.      *)
LEMMA HalfOpenMade ==
  ASSUME NEW b \in Value, NEW e \in Value, b <= e, b = e => b \notin Infinite
  PROVE  /\ ClosedOpen(b, e) \in HalfOpen
         /\ Lo(ClosedOpen(b, e)) = b /\ Up(ClosedOpen(b, e)) = e
<1>1. /\ ClosedOpen(b, e).lower = [value |-> b, closed |-> b \notin Infinite]
      /\ ClosedOpen(b, e).upper = [value |-> e, closed |-> FALSE]
      /\ ClosedOpen(b, e) = Ival(Bnd(b, TRUE), Bnd(e, FALSE))
  BY DEF ClosedOpen, Ival, Bnd
<1>2. Lo(ClosedOpen(b, e)) = b /\ Up(ClosedOpen(b, e)) = e
  BY <1>1 DEF Lo, Up
<1>3. Bnd(b, TRUE) \in BoundType /\ Bnd(e, FALSE) \in BoundType
  BY BoundTyped
<1>4. ~Less(Bnd(e, FALSE), Bnd(b, TRUE))
  BY DEF Less, Bnd, Value
<1>5. ClosedOpen(b, e) \in IntervalType
  BY <1>1, <1>3, <1>4, IntervalTyped
<1> QED
  BY <1>2, <1>5 DEF HalfOpen

(* The n-th gap of a sequence: after n of its intervals.                   *)
GapBegin(s, n) == IF n = 0 THEN NegInf ELSE Up(s[n])
GapEnd(s, n)   == IF n = Len(s) THEN PosInf ELSE Lo(s[n + 1])
Gap(s, n)      == ClosedOpen(GapBegin(s, n), GapEnd(s, n))

(* There is none before the first or after the last that is infinite.      *)
FirstGap(s) == IF Lo(s[1]) = NegInf THEN 1 ELSE 0
LastGap(s)  == IF Up(s[Len(s)]) = PosInf THEN Len(s) - 1 ELSE Len(s)

LEMMA GapIs ==
  ASSUME NEW s \in HalfOpens, Lined(s), s # <<>>, NEW n \in FirstGap(s) .. LastGap(s)
  PROVE  /\ Gap(s, n) \in HalfOpen /\ n \in 0 .. Len(s)
         /\ Lo(Gap(s, n)) = GapBegin(s, n) /\ Up(Gap(s, n)) = GapEnd(s, n)
         /\ GapBegin(s, n) \in Int /\ GapEnd(s, n) \in Int
         /\ PointsOf(Gap(s, n)) = {p \in Point : 2 * GapBegin(s, n) <= p /\ p < 2 * GapEnd(s, n)}
<1> DEFINE N == Len(s)
           b == GapBegin(s, n)
           e == GapEnd(s, n)
<1>1. /\ N \in Nat \ {0}
      /\ \A m \in 1 .. N : s[m] \in HalfOpen
      /\ 1 \in 1 .. N /\ N \in 1 .. N
  <2>1. N \in Nat /\ \A m \in 1 .. N : s[m] \in HalfOpen
    BY HalfOpensAre
  <2>2. N # 0
    BY DEF HalfOpens
  <2> QED
    BY <2>1, <2>2
<1>2. \A m \in 1 .. N : /\ Lo(s[m]) \in Int /\ Up(s[m]) \in Int
                        /\ NegInf <= Lo(s[m]) /\ Lo(s[m]) <= Up(s[m]) /\ Up(s[m]) <= PosInf
                        /\ Lo(s[m]) = Up(s[m]) => Lo(s[m]) # NegInf /\ Lo(s[m]) # PosInf
  BY <1>1, HalfOpenIs
<1>3. n \in 0 .. N /\ (n = 0 => Lo(s[1]) # NegInf) /\ (n = N => Up(s[N]) # PosInf)
  BY <1>1 DEF FirstGap, LastGap
<1>4. /\ n # 0 => n \in 1 .. N
      /\ n # N => n + 1 \in 1 .. N
      /\ n # 0 /\ n # N => Up(s[n]) <= Lo(s[n + 1])
  <2>1. n # 0 => n \in 1 .. N
    BY <1>1, <1>3
  <2>2. n # N => n + 1 \in 1 .. N /\ n < n + 1
    BY <1>1, <1>3
  <2> QED
    BY <2>1, <2>2 DEF Lined
<1>5. b \in Value /\ e \in Value /\ b <= e /\ (b = e => b \notin Infinite)
  <2>1. CASE n = 0
    <3>1. n # N
      BY <1>1, <2>1
    <3>2. b = NegInf /\ e = Lo(s[1])
      BY <2>1, <3>1 DEF GapBegin, GapEnd
    <3> HIDE DEF b, e, N
    <3> QED
      BY <3>2, <1>1, <1>2, <1>3, <2>1 DEF Value
  <2>2. CASE n # 0 /\ n = N
    <3>1. b = Up(s[N]) /\ e = PosInf
      BY <2>2 DEF GapBegin, GapEnd
    <3> HIDE DEF b, e, N
    <3> QED
      BY <3>1, <1>1, <1>2, <1>3, <2>2 DEF Value
  <2>3. CASE n # 0 /\ n # N
    <3>1. b = Up(s[n]) /\ e = Lo(s[n + 1])
      BY <2>3 DEF GapBegin, GapEnd
    <3>2. /\ Lo(s[n]) \in Int /\ Up(s[n]) \in Int
          /\ NegInf <= Lo(s[n]) /\ Lo(s[n]) <= Up(s[n]) /\ Up(s[n]) <= PosInf
          /\ Lo(s[n]) = Up(s[n]) => Lo(s[n]) # NegInf /\ Lo(s[n]) # PosInf
      BY <1>2, <1>4, <2>3
    <3>3. /\ Lo(s[n + 1]) \in Int /\ Up(s[n + 1]) \in Int
          /\ NegInf <= Lo(s[n + 1]) /\ Lo(s[n + 1]) <= Up(s[n + 1]) /\ Up(s[n + 1]) <= PosInf
          /\ Lo(s[n + 1]) = Up(s[n + 1]) => Lo(s[n + 1]) # NegInf /\ Lo(s[n + 1]) # PosInf
      BY <1>2, <1>4, <2>3
    <3>4. Up(s[n]) <= Lo(s[n + 1])
      BY <1>4, <2>3
    <3> HIDE DEF b, e, N
    <3> QED
      BY <3>1, <3>2, <3>3, <3>4 DEF Value, Infinite
  <2> QED
    BY <2>1, <2>2, <2>3
<1> HIDE DEF b, e
<1>6. ClosedOpen(b, e) \in HalfOpen /\ Lo(ClosedOpen(b, e)) = b /\ Up(ClosedOpen(b, e)) = e
  BY <1>5, HalfOpenMade
<1>7. Gap(s, n) = ClosedOpen(b, e)
  BY DEF Gap, b, e
<1>8. PointsOf(Gap(s, n)) = {p \in Point : 2 * b <= p /\ p < 2 * e}
  BY <1>6, <1>7, HalfOpenPoints
<1> QED
  BY <1>3, <1>5, <1>6, <1>7, <1>8 DEF b, e, Value

(* The complement is the sequence of the gaps.                             *)
LEMMA ComplementIs ==
  ASSUME NEW s \in HalfOpens, Lined(s), s # <<>>
  PROVE  LET from == FirstGap(s)
             to   == LastGap(s)
         IN  /\ Complement(s) \in HalfOpens
             /\ Len(Complement(s)) = to - from + 1
             /\ \A m \in 1 .. to - from + 1 : Complement(s)[m] = Gap(s, m + from - 1)
<1> DEFINE N    == Len(s)
           from == FirstGap(s)
           to   == LastGap(s)
           pre  == IF s[1].lower.value \in Infinite THEN <<>> ELSE GapBefore(s)
           post == IF Last(s).upper.value \in Infinite THEN <<>> ELSE GapAfter(s)
           C    == pre \o Gaps(s) \o post
<1>1. /\ N \in Nat \ {0}
      /\ \A m \in 1 .. N : s[m] \in HalfOpen
      /\ 1 \in 1 .. N /\ N \in 1 .. N
      /\ Last(s) = s[N]
  <2>1. N \in Nat /\ \A m \in 1 .. N : s[m] \in HalfOpen
    BY HalfOpensAre
  <2>2. N # 0
    BY DEF HalfOpens
  <2> QED
    BY <2>1, <2>2 DEF Last
<1>2. ASSUME NEW m \in 1 .. N
      PROVE  /\ s[m].lower.value = Lo(s[m]) /\ s[m].upper.value = Up(s[m])
             /\ Lo(s[m]) # PosInf /\ Up(s[m]) # NegInf
             /\ Lo(s[m]) \in Int /\ Up(s[m]) \in Int
             /\ Invert(s[m].upper) = Bnd(Up(s[m]), TRUE)
             /\ Invert(s[m].lower) = Bnd(Lo(s[m]), FALSE)
  <2>1. /\ s[m].lower = [value |-> Lo(s[m]), closed |-> Lo(s[m]) \notin Infinite]
        /\ s[m].upper = [value |-> Up(s[m]), closed |-> FALSE]
        /\ s[m].lower.value = Lo(s[m]) /\ (s[m].lower.closed <=> Lo(s[m]) \notin Infinite)
        /\ s[m].upper.value = Up(s[m]) /\ ~s[m].upper.closed
        /\ Lo(s[m]) \in Int /\ Up(s[m]) \in Int /\ NegInf <= Lo(s[m]) /\ Lo(s[m]) <= Up(s[m]) /\ Up(s[m]) <= PosInf
        /\ Lo(s[m]) = Up(s[m]) => Lo(s[m]) # NegInf /\ Lo(s[m]) # PosInf
    BY <1>1, HalfOpenIs
  <2>2. Lo(s[m]) # PosInf /\ Up(s[m]) # NegInf
    BY <2>1
  <2>3. Invert(s[m].upper) = Bnd(Up(s[m]), TRUE)
    BY <2>1 DEF Invert, Bnd
  <2>4. Invert(s[m].lower) = Bnd(Lo(s[m]), FALSE)
    BY <2>1 DEF Invert, Bnd
  <2> QED
    BY <2>1, <2>2, <2>3, <2>4
<1>3. Bnd(NegInf, FALSE) = Bnd(NegInf, TRUE)
  BY DEF Bnd, Infinite
<1>4. /\ Gaps(s) = [n \in 1 .. N - 1 |-> Gap(s, n)]
  <2>1. ASSUME NEW n \in 1 .. N - 1
        PROVE  Ival(Invert(s[n].upper), Invert(s[n + 1].lower)) = Gap(s, n)
    <3>1. n \in 1 .. N /\ n + 1 \in 1 .. N /\ n # 0 /\ n # N
      BY <1>1
    <3>2. Gap(s, n) = ClosedOpen(Up(s[n]), Lo(s[n + 1]))
      BY <3>1 DEF Gap, GapBegin, GapEnd
    <3> QED
      BY <3>1, <3>2, <1>2 DEF ClosedOpen
  <2> QED
    BY <2>1 DEF Gaps
<1>5. pre = IF from = 1 THEN <<>> ELSE <<Gap(s, 0)>>
  <2>1. Lo(s[1]) \in Infinite <=> Lo(s[1]) = NegInf
    BY <1>1, <1>2 DEF Infinite
  <2>2. from = 1 <=> s[1].lower.value \in Infinite
    <3>1. s[1].lower.value = Lo(s[1])
      BY <1>1, <1>2
    <3>2. FirstGap(s) = 1 <=> Lo(s[1]) = NegInf
      BY DEF FirstGap
    <3> QED
      BY <2>1, <3>1, <3>2
  <2>3. Gap(s, 0) = ClosedOpen(NegInf, Lo(s[1]))
    BY <1>1 DEF Gap, GapBegin, GapEnd
  <2>4. Ival(Bnd(NegInf, FALSE), Invert(s[1].lower)) = Gap(s, 0)
    BY <2>3, <1>1, <1>2, <1>3 DEF ClosedOpen
  <2> QED
    BY <2>2, <2>4 DEF GapBefore
<1>6. post = IF to = N - 1 THEN <<>> ELSE <<Gap(s, N)>>
  <2>1. Up(s[N]) \in Infinite <=> Up(s[N]) = PosInf
    BY <1>1, <1>2 DEF Infinite
  <2>2. to = N - 1 <=> Last(s).upper.value \in Infinite
    <3>1. Last(s).upper.value = Up(s[N])
      BY <1>1, <1>2
    <3>2. LastGap(s) = Len(s) - 1 <=> Up(s[N]) = PosInf
      BY <1>1 DEF LastGap
    <3> QED
      BY <2>1, <3>1, <3>2
  <2>3. Gap(s, N) = ClosedOpen(Up(s[N]), PosInf)
    BY <1>1 DEF Gap, GapBegin, GapEnd
  <2>4. Ival(Invert(Last(s).upper), Bnd(PosInf, FALSE)) = Gap(s, N)
    BY <2>3, <1>1, <1>2 DEF ClosedOpen
  <2> QED
    BY <2>2, <2>4 DEF GapAfter
<1>7. Complement(s) = C
  BY DEF Complement
<1>8. from \in {0, 1} /\ to \in {N - 1, N} /\ \A n \in from .. to : Gap(s, n) \in HalfOpen
  <2>1. from \in {0, 1} /\ to \in {N - 1, N}
    BY DEF FirstGap, LastGap
  <2> QED
    BY <2>1, GapIs
<1> HIDE DEF pre, post, from, to, N
<1> DEFINE A == pre \o Gaps(s)
<1>9. /\ Gaps(s) \in HalfOpens /\ Len(Gaps(s)) = N - 1
      /\ \A n \in 1 .. N - 1 : Gaps(s)[n] = Gap(s, n)
  <2>1. \A n \in 1 .. N - 1 : n \in from .. to
    BY <1>1, <1>8
  <2> QED
    BY <2>1, <1>1, <1>4, <1>8 DEF HalfOpens
<1>10. /\ A \in HalfOpens /\ Len(A) = N - from
       /\ \A m \in 1 .. N - from : A[m] = Gap(s, m + from - 1)
  <2>1. CASE from = 1
    <3>1. A = Gaps(s)
      BY <2>1, <1>5, <1>9 DEF HalfOpens
    <3>2. \A m \in 1 .. N - 1 : m + 1 - 1 = m
      BY <1>1
    <3> QED
      BY <2>1, <3>1, <3>2, <1>9
  <2>2. CASE from = 0
    <3>1. pre = <<Gap(s, 0)>> /\ Gap(s, 0) \in HalfOpen
      <4>1. 0 \in from .. to
        BY <2>2, <1>1, <1>8
      <4> QED
        BY <4>1, <2>2, <1>5, <1>8
    <3>2. pre \in HalfOpens /\ Len(pre) = 1 /\ pre[1] = Gap(s, 0)
      BY <3>1 DEF HalfOpens
    <3>3. /\ A \in HalfOpens /\ Len(A) = N
          /\ A[1] = pre[1] /\ \A m \in 2 .. N : A[m] = Gaps(s)[m - 1]
      <4>1. ASSUME NEW f \in HalfOpens, NEW h \in HalfOpens, Len(f) = 1
            PROVE  /\ f \o h \in HalfOpens /\ Len(f \o h) = 1 + Len(h)
                   /\ (f \o h)[1] = f[1] /\ \A m \in 2 .. 1 + Len(h) : (f \o h)[m] = h[m - 1]
        <5>1. /\ f \o h \in HalfOpens /\ Len(f \o h) = Len(f) + Len(h)
              /\ Len(f) \in Nat /\ Len(h) \in Nat
              /\ \A n \in 1 .. Len(f) : (f \o h)[n] = f[n]
              /\ \A n \in 1 .. Len(h) : (f \o h)[Len(f) + n] = h[n]
          BY ConcatIs DEF HalfOpens
        <5> DEFINE c == f \o h
        <5> HIDE DEF c
        <5>2. /\ c \in HalfOpens /\ Len(c) = 1 + Len(h) /\ Len(h) \in Nat /\ c[1] = f[1]
              /\ \A n \in 1 .. Len(h) : c[1 + n] = h[n]
          BY <5>1, <4>1 DEF c
        <5>3. \A m \in 2 .. 1 + Len(h) : m - 1 \in 1 .. Len(h) /\ 1 + (m - 1) = m
          BY <5>2
        <5>4. \A m \in 2 .. 1 + Len(h) : c[m] = h[m - 1]
          <6> TAKE m \in 2 .. 1 + Len(h)
          <6>1. m - 1 \in 1 .. Len(h) /\ 1 + (m - 1) = m
            BY <5>3
          <6>2. c[1 + (m - 1)] = h[m - 1]
            BY <5>2, <6>1
          <6> QED
            BY <6>1, <6>2
        <5> QED
          BY <5>2, <5>4 DEF c
      <4> HIDE DEF N
      <4>2. 1 + Len(Gaps(s)) = N
        BY <1>1, <1>9
      <4> QED
        BY <3>2, <4>1, <4>2, <1>9
    <3>4. ASSUME NEW m \in 1 .. N
          PROVE  A[m] = Gap(s, m - 1)
      <4>1. CASE m = 1
        BY <4>1, <3>2, <3>3
      <4>2. CASE m # 1
        <5>1. m \in 2 .. N /\ m - 1 \in 1 .. N - 1
          BY <4>2, <1>1
        <5> QED
          BY <5>1, <3>3, <1>9
      <4> QED
        BY <4>1, <4>2
    <3>5. \A m \in 1 .. N : m + 0 - 1 = m - 1
      BY <1>1
    <3> HIDE DEF A
    <3> QED
      BY <2>2, <3>3, <3>4, <3>5, <1>1
  <2> QED
    BY <2>1, <2>2, <1>8
<1> HIDE DEF A
<1>11. /\ A \o post \in HalfOpens /\ Len(A \o post) = to - from + 1
       /\ \A m \in 1 .. to - from + 1 : (A \o post)[m] = Gap(s, m + from - 1)
  <2>1. CASE to = N - 1
    <3>1. A \o post = A
      BY <2>1, <1>6, <1>10 DEF HalfOpens
    <3>2. to - from + 1 = N - from
      BY <2>1, <1>1, <1>8
    <3> QED
      BY <3>1, <3>2, <1>10
  <2>2. CASE to = N
    <3>1. post = <<Gap(s, N)>> /\ Gap(s, N) \in HalfOpen
      <4>1. N \in from .. to /\ to # N - 1
        BY <2>2, <1>1, <1>8
      <4> QED
        BY <4>1, <1>6, <1>8
    <3>2. A \o post = Append(A, Gap(s, N))
      <4>1. \A f \in HalfOpens, x \in HalfOpen : f \o <<x>> = Append(f, x)
        BY DEF HalfOpens
      <4> QED
        BY <4>1, <3>1, <1>10
    <3>3. /\ Append(A, Gap(s, N)) \in HalfOpens /\ Len(Append(A, Gap(s, N))) = N - from + 1
          /\ \A m \in 1 .. N - from : Append(A, Gap(s, N))[m] = A[m]
          /\ Append(A, Gap(s, N))[N - from + 1] = Gap(s, N)
      BY <3>1, <1>10, AppendFacts DEF HalfOpens
    <3>4. ASSUME NEW m \in 1 .. N - from + 1
          PROVE  Append(A, Gap(s, N))[m] = Gap(s, m + from - 1)
      <4>1. CASE m = N - from + 1
        <5>1. m + from - 1 = N
          BY <4>1, <1>1, <1>8
        <5> QED
          BY <5>1, <4>1, <3>3
      <4>2. CASE m \in 1 .. N - from
        BY <4>2, <3>3, <1>10
      <4>3. m = N - from + 1 \/ m \in 1 .. N - from
        BY <1>1, <1>8
      <4> QED
        BY <4>1, <4>2, <4>3
    <3> QED
      BY <2>2, <3>2, <3>3, <3>4
  <2> QED
    BY <2>1, <2>2, <1>8
<1> QED
  BY <1>7, <1>11 DEF A, from, to

(* The gaps lie between the intervals, whatever their numbers.             *)
LEMMA GapsBetween ==
  ASSUME NEW s \in HalfOpens, Lined(s), s # <<>>, NEW n \in FirstGap(s) .. LastGap(s)
  PROVE  /\ \A m \in 1 .. n : Up(s[m]) <= GapBegin(s, n)
         /\ \A m \in n + 1 .. Len(s) : GapEnd(s, n) <= Lo(s[m])
         /\ \A k \in FirstGap(s) .. LastGap(s) : n < k => GapEnd(s, n) <= GapBegin(s, k)
<1> DEFINE N == Len(s)
<1>1. N \in Nat /\ \A m \in 1 .. N : s[m] \in HalfOpen
  BY HalfOpensAre
<1>2. \A m \in 1 .. N : Lo(s[m]) \in Int /\ Up(s[m]) \in Int /\ Lo(s[m]) <= Up(s[m])
  BY <1>1, HalfOpenIs
<1>3. n \in 0 .. N /\ \A k \in FirstGap(s) .. LastGap(s) : k \in 0 .. N
  BY GapIs
<1>4. \A k, m \in 1 .. N : k < m => Up(s[k]) <= Lo(s[m])
  BY DEF Lined
<1> HIDE DEF N
<1>5. \A k \in 1 .. N : GapBegin(s, k) = Up(s[k])
  BY <1>1 DEF GapBegin
<1>6. \A k \in 0 .. N - 1 : GapEnd(s, k) = Lo(s[k + 1]) /\ k + 1 \in 1 .. N
  BY <1>1 DEF GapEnd, N
<1>7. ASSUME NEW m \in 1 .. n
      PROVE  Up(s[m]) <= GapBegin(s, n)
  <2>1. m \in 1 .. N /\ n \in 1 .. N
    BY <1>1, <1>3
  <2>2. CASE m = n
    BY <2>1, <2>2, <1>2, <1>5
  <2>3. CASE m < n
    BY <2>1, <2>3, <1>2, <1>4, <1>5
  <2> QED
    BY <2>2, <2>3, <1>3
<1>8. ASSUME NEW m \in n + 1 .. N
      PROVE  GapEnd(s, n) <= Lo(s[m])
  <2>1. m \in 1 .. N /\ n \in 0 .. N - 1
    BY <1>1, <1>3
  <2>2. n + 1 \in 1 .. N /\ GapEnd(s, n) = Lo(s[n + 1])
    BY <2>1, <1>6
  <2>3. CASE m = n + 1
    BY <2>1, <2>2, <2>3, <1>2
  <2>4. CASE n + 1 < m
    BY <2>1, <2>2, <2>4, <1>2, <1>4
  <2> QED
    BY <2>3, <2>4, <1>3
<1>9. ASSUME NEW k \in FirstGap(s) .. LastGap(s), n < k
      PROVE  GapEnd(s, n) <= GapBegin(s, k)
  <2>1. k \in 0 .. N
    BY <1>3
  <2>2. k \in 1 .. N /\ k \in n + 1 .. N /\ n \in 0 .. N - 1
    BY <2>1, <1>1, <1>3, <1>9
  <2>3. GapEnd(s, n) <= Lo(s[k])
    BY <2>2, <1>8
  <2>4. GapEnd(s, n) \in Int
    BY <2>2, <1>2, <1>6
  <2> QED
    BY <2>2, <2>3, <2>4, <1>2, <1>5
<1> QED
  BY <1>7, <1>8, <1>9 DEF N

(* A point outside of all intervals lies in one of the gaps.               *)
LEMMA GapAround ==
  ASSUME NEW s \in HalfOpens, Lined(s), s # <<>>,
         NEW p \in Point, \A m \in 1 .. Len(s) : p \notin PointsOf(s[m])
  PROVE  \E n \in FirstGap(s) .. LastGap(s) : p \in PointsOf(Gap(s, n))
<1> DEFINE N == Len(s)
           T == {n \in 0 .. N : \A m \in n + 1 .. N : p < 2 * Lo(s[m])}
<1>1. /\ N \in Nat \ {0}
      /\ \A m \in 1 .. N : s[m] \in HalfOpen
  <2>1. N \in Nat /\ \A m \in 1 .. N : s[m] \in HalfOpen
    BY HalfOpensAre
  <2>2. N # 0
    BY DEF HalfOpens
  <2> QED
    BY <2>1, <2>2
<1>2. \A m \in 1 .. N : Lo(s[m]) \in Int /\ Up(s[m]) \in Int
  BY <1>1, HalfOpenIs
<1>3. p \in Int /\ 2 * NegInf < p /\ p < 2 * PosInf
  BY DEF Point
<1>4. \A m \in 1 .. N : p < 2 * Lo(s[m]) \/ 2 * Up(s[m]) <= p
  <2> TAKE m \in 1 .. N
  <2>1. PointsOf(s[m]) = {q \in Point : 2 * Lo(s[m]) <= q /\ q < 2 * Up(s[m])}
    BY <1>1, HalfOpenPoints
  <2> QED
    BY <2>1, <1>2, <1>3
<1>5. N \in T /\ T \in SUBSET Nat
  BY <1>1
<1>6. PICK n \in T : \A k \in T : n <= k
  BY <1>5, LeastNumber
<1>7. n \in 0 .. N /\ \A m \in n + 1 .. N : p < 2 * Lo(s[m])
  BY <1>6
<1>8. n # 0 => n \in 1 .. N /\ 2 * Up(s[n]) <= p
  <2> SUFFICES ASSUME n # 0
               PROVE  n \in 1 .. N /\ 2 * Up(s[n]) <= p
    OBVIOUS
  <2>1. n \in 1 .. N /\ n - 1 \in 0 .. N /\ ~(n <= n - 1)
    BY <1>1, <1>7
  <2>2. n - 1 \notin T
    BY <2>1, <1>6
  <2>3. PICK m \in n - 1 + 1 .. N : ~(p < 2 * Lo(s[m]))
    BY <2>1, <2>2
  <2>4. m = n
    <3>1. m \notin n + 1 .. N
      BY <2>3, <1>7
    <3> QED
      BY <3>1, <2>1, <2>3, <1>1
  <2> QED
    BY <2>1, <2>3, <2>4, <1>4
<1>9. n # N => n + 1 \in 1 .. N /\ p < 2 * Lo(s[n + 1])
  BY <1>1, <1>7
<1> HIDE DEF T, N
<1>10. n \in FirstGap(s) .. LastGap(s)
  <2>1. n = 0 => FirstGap(s) = 0
    BY <1>1, <1>3, <1>9 DEF FirstGap
  <2>2. n = N => LastGap(s) = N
    BY <1>1, <1>3, <1>8 DEF LastGap, N
  <2>3. FirstGap(s) \in {0, 1} /\ LastGap(s) \in {N - 1, N}
    BY DEF FirstGap, LastGap, N
  <2> QED
    BY <2>1, <2>2, <2>3, <1>1, <1>7
<1>11. 2 * GapBegin(s, n) <= p /\ p < 2 * GapEnd(s, n)
  <2>1. 2 * GapBegin(s, n) <= p
    BY <1>3, <1>8 DEF GapBegin
  <2>2. p < 2 * GapEnd(s, n)
    BY <1>3, <1>9 DEF GapEnd, N
  <2> QED
    BY <2>1, <2>2
<1>12. p \in PointsOf(Gap(s, n))
  <2>1. PointsOf(Gap(s, n)) = {q \in Point : 2 * GapBegin(s, n) <= q /\ q < 2 * GapEnd(s, n)}
    BY <1>10, GapIs
  <2> QED
    BY <2>1, <1>11
<1> QED
  BY <1>10, <1>12

LEMMA ComplementLined ==
  ASSUME NEW s \in HalfOpens, Lined(s)
  PROVE  /\ Complement(s) \in HalfOpens /\ Lined(Complement(s))
         /\ Covered(ToSet(Complement(s))) = Point \ Covered(ToSet(s))
<1>1. CASE s = <<>>
  <2>1. Unbounded \in HalfOpen /\ PointsOf(Unbounded) = Point
    <3>1. Unbounded = ClosedOpen(NegInf, PosInf)
      BY DEF Unbounded, Open, ClosedOpen, Bnd, Infinite
    <3>2. NegInf \in Value /\ PosInf \in Value /\ NegInf <= PosInf /\ NegInf # PosInf
      BY DEF Value
    <3>3. Unbounded \in HalfOpen /\ Lo(Unbounded) = NegInf /\ Up(Unbounded) = PosInf
      BY <3>1, <3>2, HalfOpenMade
    <3>4. PointsOf(Unbounded) = {p \in Point : 2 * NegInf <= p /\ p < 2 * PosInf}
      BY <3>3, HalfOpenPoints
    <3> QED
      BY <3>3, <3>4 DEF Point
  <2>2. Complement(s) = <<Unbounded>>
    BY <1>1 DEF Complement
  <2>3. /\ <<Unbounded>> \in HalfOpens /\ Len(<<Unbounded>>) = 1
        /\ ToSet(<<Unbounded>>) = {Unbounded}
    BY <2>1 DEF HalfOpens, ToSet
  <2>4. Lined(<<Unbounded>>)
    BY <2>3 DEF Lined
  <2>5. ToSet(s) = {}
    BY <1>1 DEF ToSet
  <2>6. Covered(ToSet(s)) = {} /\ Covered({Unbounded}) = Point
    BY <2>1, <2>5 DEF Covered
  <2> QED
    BY <2>2, <2>3, <2>4, <2>6
<1>2. CASE s # <<>>
  <2> DEFINE C    == Complement(s)
             from == FirstGap(s)
             to   == LastGap(s)
  <2>1. /\ C \in HalfOpens /\ Len(C) = to - from + 1
        /\ \A m \in 1 .. to - from + 1 : C[m] = Gap(s, m + from - 1)
    BY <1>2, ComplementIs
  <2>2. Len(s) \in Nat /\ from \in {0, 1} /\ to \in {Len(s) - 1, Len(s)}
    BY HalfOpensAre DEF FirstGap, LastGap
  <2>3. \A n \in from .. to : /\ Lo(Gap(s, n)) = GapBegin(s, n) /\ Up(Gap(s, n)) = GapEnd(s, n)
                              /\ PointsOf(Gap(s, n)) = {p \in Point : 2 * GapBegin(s, n) <= p /\ p < 2 * GapEnd(s, n)}
                              /\ GapBegin(s, n) \in Int /\ GapEnd(s, n) \in Int /\ n \in 0 .. Len(s)
    BY <1>2, GapIs
  <2>4. \A n \in from .. to : /\ \A m \in 1 .. n : Up(s[m]) <= GapBegin(s, n)
                              /\ \A m \in n + 1 .. Len(s) : GapEnd(s, n) <= Lo(s[m])
                              /\ \A k \in from .. to : n < k => GapEnd(s, n) <= GapBegin(s, k)
    BY <1>2, GapsBetween
  <2>5. \A m \in 1 .. Len(s) : /\ PointsOf(s[m]) = {p \in Point : 2 * Lo(s[m]) <= p /\ p < 2 * Up(s[m])}
                               /\ Lo(s[m]) \in Int /\ Up(s[m]) \in Int
    BY HalfOpensAre, HalfOpenIs, HalfOpenPoints
  <2>6. /\ \A p : p \in Covered(ToSet(s)) <=> \E m \in 1 .. Len(s) : p \in PointsOf(s[m])
        /\ \A p : p \in Covered(ToSet(C)) <=> \E m \in 1 .. Len(C) : p \in PointsOf(C[m])
    BY <2>1, HalfOpensAre, CoveredOf
  <2> HIDE DEF C, from, to
  <2>7. ASSUME NEW k \in 1 .. Len(C), NEW l \in 1 .. Len(C), k < l
        PROVE  Up(C[k]) <= Lo(C[l])
    <3>1. /\ k + from - 1 \in from .. to /\ l + from - 1 \in from .. to
          /\ k + from - 1 < l + from - 1
      BY <2>1, <2>2, <2>7
    <3>2. C[k] = Gap(s, k + from - 1) /\ C[l] = Gap(s, l + from - 1)
      BY <2>1, <2>7
    <3> QED
      BY <3>1, <3>2, <2>3, <2>4
  <2>8. ASSUME NEW p \in Covered(ToSet(C))
        PROVE  p \in Point /\ p \notin Covered(ToSet(s))
    <3>1. PICK k \in 1 .. Len(C) : p \in PointsOf(C[k])
      BY <2>6
    <3>2. PICK n \in from .. to : C[k] = Gap(s, n)
      <4>1. k + from - 1 \in from .. to /\ C[k] = Gap(s, k + from - 1)
        BY <2>1, <2>2
      <4> QED
        BY <4>1
    <3>3. p \in Point /\ 2 * GapBegin(s, n) <= p /\ p < 2 * GapEnd(s, n)
      BY <3>1, <3>2, <2>3
    <3>4. p \in Int
      BY <3>3 DEF Point
    <3>5. ASSUME NEW m \in 1 .. Len(s), p \in PointsOf(s[m])
          PROVE  FALSE
      <4>1. 2 * Lo(s[m]) <= p /\ p < 2 * Up(s[m])
        BY <3>5, <2>5
      <4>2. m \in 1 .. n \/ m \in n + 1 .. Len(s)
        BY <2>2, <2>3
      <4> QED
        BY <4>1, <4>2, <3>3, <3>4, <2>3, <2>4, <2>5
    <3> QED
      BY <3>3, <3>5, <2>6
  <2>9. ASSUME NEW p \in Point, p \notin Covered(ToSet(s))
        PROVE  p \in Covered(ToSet(C))
    <3>1. \A m \in 1 .. Len(s) : p \notin PointsOf(s[m])
      BY <2>6, <2>9
    <3>2. PICK n \in from .. to : p \in PointsOf(Gap(s, n))
      BY <3>1, <1>2, GapAround DEF from, to
    <3>3. n - from + 1 \in 1 .. Len(C) /\ n - from + 1 + from - 1 = n
      BY <2>1, <2>2
    <3>4. C[n - from + 1] = Gap(s, n)
      BY <3>3, <2>1
    <3> QED
      BY <3>2, <3>3, <3>4, <2>6
  <2>10. Lined(C)
    BY <2>7 DEF Lined
  <2>11. Covered(ToSet(C)) = Point \ Covered(ToSet(s))
    BY <2>8, <2>9
  <2> QED
    BY <2>1, <2>10, <2>11 DEF C
<1> QED
  BY <1>1, <1>2

LEMMA SpansAreHalfOpens == Seq(Span) \subseteq HalfOpens
<1>1. Span \subseteq HalfOpen
  BY DEF Span
<1> QED
  BY <1>1 DEF HalfOpens

(* Interval sets, of however many intervals: the set made of some half-    *)
(* open intervals covers what they do, and on such sets - intervals in     *)
(* order, perhaps empty, perhaps touching - complement, union,             *)
(* intersection and difference are those of the points, in order again.    *)
THEOREM IntervalSetsAreExact ==
  /\ \A S \in SUBSET HalfOpen : IsFiniteSet(S) =>
       LET s == FromIntervals(S)
       IN  s \in HalfOpens /\ Lined(s) /\ Denotes(s, Covered(S))
  /\ \A s \in HalfOpens : Lined(s) =>
       Ordered(s) /\ Complement(s) \in HalfOpens /\ Lined(Complement(s))
                  /\ Denotes(Complement(s), Point \ Covered(ToSet(s)))
  /\ \A s, t \in HalfOpens : Lined(s) /\ Lined(t) =>
       LET P == Covered(ToSet(s))
           Q == Covered(ToSet(t))
       IN  /\ UnionOf(s, t) \in HalfOpens /\ Lined(UnionOf(s, t)) /\ Denotes(UnionOf(s, t), P \cup Q)
           /\ IntersectionOf(s, t) \in HalfOpens /\ Lined(IntersectionOf(s, t))
           /\ Denotes(IntersectionOf(s, t), P \cap Q)
           /\ Difference(s, t) \in HalfOpens /\ Lined(Difference(s, t)) /\ Denotes(Difference(s, t), P \ Q)
<1>1. ASSUME NEW S \in SUBSET HalfOpen, IsFiniteSet(S)
      PROVE  LET s == FromIntervals(S)
             IN  s \in HalfOpens /\ Lined(s) /\ Denotes(s, Covered(S))
  BY <1>1, FromIntervalsLined, SpansAreHalfOpens DEF Denotes
<1>2. ASSUME NEW s \in HalfOpens, Lined(s)
      PROVE  Ordered(s) /\ Complement(s) \in HalfOpens /\ Lined(Complement(s))
                        /\ Denotes(Complement(s), Point \ Covered(ToSet(s)))
  BY <1>2, LinedIsOrdered, ComplementLined DEF Denotes
<1>3. ASSUME NEW s \in HalfOpens, NEW t \in HalfOpens, Lined(s), Lined(t)
      PROVE  /\ UnionOf(s, t) \in HalfOpens /\ Lined(UnionOf(s, t))
             /\ Denotes(UnionOf(s, t), Covered(ToSet(s)) \cup Covered(ToSet(t)))
             /\ IntersectionOf(s, t) \in HalfOpens /\ Lined(IntersectionOf(s, t))
             /\ Denotes(IntersectionOf(s, t), Covered(ToSet(s)) \cap Covered(ToSet(t)))
             /\ Difference(s, t) \in HalfOpens /\ Lined(Difference(s, t))
             /\ Denotes(Difference(s, t), Covered(ToSet(s)) \ Covered(ToSet(t)))
  <2> DEFINE c == Complement(t)
  <2>1. /\ UnionOf(s, t) \in HalfOpens /\ Lined(UnionOf(s, t))
        /\ Denotes(UnionOf(s, t), Covered(ToSet(s)) \cup Covered(ToSet(t)))
    BY <1>3, UnionLined, SpansAreHalfOpens DEF Denotes
  <2>2. /\ IntersectionOf(s, t) \in HalfOpens /\ Lined(IntersectionOf(s, t))
        /\ Denotes(IntersectionOf(s, t), Covered(ToSet(s)) \cap Covered(ToSet(t)))
    BY <1>3, IntersectionLined, SpansAreHalfOpens DEF Denotes
  <2>3. c \in HalfOpens /\ Lined(c) /\ Covered(ToSet(c)) = Point \ Covered(ToSet(t))
    BY <1>3, ComplementLined
  <2> HIDE DEF c
  <2>4. /\ IntersectionOf(s, c) \in HalfOpens /\ Lined(IntersectionOf(s, c))
        /\ Covered(ToSet(IntersectionOf(s, c))) = Covered(ToSet(s)) \cap Covered(ToSet(c))
    BY <1>3, <2>3, IntersectionLined, SpansAreHalfOpens
  <2>5. Covered(ToSet(s)) \subseteq Point
    BY DEF Covered, PointsOf
  <2>6. Covered(ToSet(s)) \cap Covered(ToSet(c)) = Covered(ToSet(s)) \ Covered(ToSet(t))
    BY <2>3, <2>5
  <2>7. Difference(s, t) = IntersectionOf(s, c)
    BY DEF Difference, c
  <2>8. /\ Difference(s, t) \in HalfOpens /\ Lined(Difference(s, t))
        /\ Denotes(Difference(s, t), Covered(ToSet(s)) \ Covered(ToSet(t)))
    BY <2>4, <2>6, <2>7 DEF Denotes
  <2> QED
    BY <2>1, <2>2, <2>8
<1>4. \A S \in SUBSET HalfOpen : IsFiniteSet(S) =>
        LET s == FromIntervals(S)
        IN  s \in HalfOpens /\ Lined(s) /\ Denotes(s, Covered(S))
  BY <1>1
<1>5. \A s \in HalfOpens : Lined(s) =>
        Ordered(s) /\ Complement(s) \in HalfOpens /\ Lined(Complement(s))
                   /\ Denotes(Complement(s), Point \ Covered(ToSet(s)))
  BY <1>2
<1>6. \A s, t \in HalfOpens : Lined(s) /\ Lined(t) =>
        LET P == Covered(ToSet(s))
            Q == Covered(ToSet(t))
        IN  /\ UnionOf(s, t) \in HalfOpens /\ Lined(UnionOf(s, t)) /\ Denotes(UnionOf(s, t), P \cup Q)
            /\ IntersectionOf(s, t) \in HalfOpens /\ Lined(IntersectionOf(s, t))
            /\ Denotes(IntersectionOf(s, t), P \cap Q)
            /\ Difference(s, t) \in HalfOpens /\ Lined(Difference(s, t)) /\ Denotes(Difference(s, t), P \ Q)
  BY <1>3
<1> QED
  BY <1>4, <1>5, <1>6

LEMMA SetsAreLined ==
  ASSUME NEW s \in SetsOf(HalfOpen)
  PROVE  s \in HalfOpens /\ Lined(s)
<1>1. ASSUME NEW i \in HalfOpen, NEW j \in HalfOpen
      PROVE  FromIntervals({i, j}) \in HalfOpens /\ Lined(FromIntervals({i, j}))
  <2>1. IsFiniteSet({i, j}) /\ {i, j} \in SUBSET HalfOpen
    <3>1. IsFiniteSet({i} \cup {j}) /\ {i} \cup {j} = {i, j}
      BY FS_Singleton, FS_AddElement
    <3> QED
      BY <3>1
  <2> QED
    BY <2>1, FromIntervalsLined, SpansAreHalfOpens
<1>2. PICK i \in HalfOpen, j \in HalfOpen :
        s = FromIntervals({i, j}) \/ s = Complement(FromIntervals({i, j}))
  <2> DEFINE FromTwo(i, j) == FromIntervals({i, j})
             made == {FromTwo(i, j) : i, j \in HalfOpen}
  <2>1. SetsOf(HalfOpen) = made \cup {Complement(r) : r \in made}
    BY DEF SetsOf
  <2> HIDE DEF made, FromTwo
  <2>2. PICK r \in made : s = r \/ s = Complement(r)
    BY <2>1
  <2>3. \E i, j \in HalfOpen : r = FromTwo(i, j)
    BY <2>2 DEF made
  <2> USE DEF FromTwo
  <2> QED
    BY <2>2, <2>3
<1> QED
  BY <1>1, <1>2, ComplementLined

LEMMA DenotationsHold == Denotations
<1>1. ASSUME NEW i \in HalfOpen, NEW j \in HalfOpen, ~IsEmpty(i), ~IsEmpty(j)
      PROVE  Relates(i, j)
  <2>1. Lo(i) < Up(i) /\ Lo(j) < Up(j)
    <3>1. /\ Lo(i) \in Int /\ Up(i) \in Int /\ Lo(i) <= Up(i) /\ Lo(i) # Up(i)
          /\ Lo(j) \in Int /\ Up(j) \in Int /\ Lo(j) <= Up(j) /\ Lo(j) # Up(j)
      BY <1>1, HalfOpenIs
    <3> QED
      BY <3>1
  <2> QED
    BY <2>1, RelatesHolds DEF Span
<1>2. ASSUME NEW s \in SetsOf(HalfOpen)
      PROVE  Ordered(s) /\ Ordered(Complement(s)) /\ Denotes(Complement(s), Point \ Covered(ToSet(s)))
  <2>1. s \in HalfOpens /\ Lined(s)
    BY SetsAreLined
  <2>2. Complement(s) \in HalfOpens /\ Lined(Complement(s))
    BY <2>1, IntervalSetsAreExact
  <2> QED
    BY <2>1, <2>2, IntervalSetsAreExact
<1>3. ASSUME NEW s \in SetsOf(HalfOpen), NEW t \in SetsOf(HalfOpen)
      PROVE  LET P == Covered(ToSet(s))
                 Q == Covered(ToSet(t))
             IN  /\ Ordered(UnionOf(s, t)) /\ Denotes(UnionOf(s, t), P \cup Q)
                 /\ Ordered(IntersectionOf(s, t)) /\ Denotes(IntersectionOf(s, t), P \cap Q)
                 /\ Ordered(Difference(s, t)) /\ Denotes(Difference(s, t), P \ Q)
  <2>1. s \in HalfOpens /\ Lined(s) /\ t \in HalfOpens /\ Lined(t)
    BY SetsAreLined
  <2> QED
    BY <2>1, IntervalSetsAreExact, LinedIsOrdered
<1> HIDE DEF HalfOpen
<1> QED
  BY <1>1, <1>2, <1>3, InstantPoints, EndPoints DEF Denotations

----------------------------------------------------------------------------
(* The steps of Memberships.                                               *)

LEMMA EmptyHolds == PointsOf(Empty) = {}
<1>1. Empty.lower = Bnd(PosInf, FALSE) /\ ~Empty.lower.closed /\ Empty.lower.value = PosInf
  BY DEF Empty, Ival, Bnd
<1>2. ASSUME NEW p \in Point
      PROVE  ~From(Empty.lower, p)
  <2>1. p \in Int /\ ~(2 * PosInf < p)
    BY DEF Point, InfinityAssumption
  <2> QED
    BY <2>1, <1>1 DEF From
<1> QED
  BY <1>2, PointsAre

(* An interval is stored with the points it has.                           *)
LEMMA StoredFacts ==
  ASSUME NEW i \in IntervalType
  PROVE  Stored(i) \in DbRange /\ PointsOf(Stored(i)) = PointsOf(i)
<1>1. Stored(i) \in DbRange
  BY DEF Stored, DbRange
<1> QED
  BY <1>1, EmptyHolds, EmptyHasNoPoint DEF Stored

(* New rows have ids of their own.                                         *)
LEMMA FreeIdsFacts ==
  /\ FreeIds \in Seq(RowId \ UsedIds)
  /\ \A m, n \in 1 .. Len(FreeIds) : m # n => FreeIds[m] # FreeIds[n]
<1>1. IsFiniteSet(RowId)
  BY MaxRowsAssumption, FS_Interval DEF RowId, MaxRowsAssumption
<1>2. IsFiniteSet(RowId \ UsedIds)
  BY <1>1, FS_Subset
<1>3. FreeIds \in Seq(RowId \ UsedIds)
  BY <1>2, InSomeOrder DEF FreeIds
<1>4. \A m, n \in DOMAIN FreeIds : m # n => FreeIds[m] # FreeIds[n]
  BY <1>2, InSomeOrder DEF FreeIds
<1>5. DOMAIN FreeIds = 1 .. Len(FreeIds)
  BY <1>3
<1> QED
  BY <1>3, <1>4, <1>5

(* The rows of a table share no point.                                     *)
Disjoint(t) == \A j, k \in DOMAIN t : j # k => PointsOf(t[j]) \cap PointsOf(t[k]) = {}

(* Rows that are replaced under the exclude constraint: the rest stays,    *)
(* the new ones cover what they should.                                    *)
LEMMA ReplacedFacts ==
  ASSUME IsTable(rows), Disjoint(rows), NEW old, NEW new \in Ivals,
         Fits(Restrict(rows, DOMAIN rows \ old), new),
         Len(new) <= Len(FreeIds)
  PROVE  LET r == Replaced(rows, old, new)
         IN  /\ IsTable(r)
             /\ Disjoint(r)
             /\ MemberAt(r) = MemberAt(Restrict(rows, DOMAIN rows \ old)) \cup Covered(ToSet(new))
             /\ \A k \in DOMAIN r : (k \in DOMAIN rows /\ r[k] = rows[k]) \/ \E i \in ToSet(new) : r[k] = Stored(i)
<1> DEFINE r == Replaced(rows, old, new)
           kept == Restrict(rows, DOMAIN rows \ old)
           ids == SubSeq(FreeIds, 1, Len(new))
           key(k) == CHOOSE n \in DOMAIN ids : ids[n] = k
<1>1. DOMAIN kept = DOMAIN rows \ old /\ \A k \in DOMAIN kept : kept[k] = rows[k]
  BY DEF Restrict
<1>2. /\ Len(new) \in Nat /\ DOMAIN new = 1 .. Len(new)
      /\ \A n \in 1 .. Len(new) : new[n] \in IntervalType /\ new[n] \in ToSet(new)
  BY ToSetFacts DEF Ivals
<1>3. /\ DOMAIN ids = 1 .. Len(new)
      /\ \A n \in 1 .. Len(new) : ids[n] = FreeIds[n] /\ n \in 1 .. Len(FreeIds) /\ ids[n] \in RowId \ UsedIds
  <2>1. FreeIds \in Seq(RowId \ UsedIds)
    BY FreeIdsFacts
  <2> QED
    BY <1>2, <2>1
<1> HIDE DEF ids
<1>4. \A m, n \in 1 .. Len(new) : m # n => ids[m] # ids[n]
  BY <1>3, FreeIdsFacts
<1>5. ToSet(ids) = {ids[n] : n \in 1 .. Len(new)}
  BY <1>3 DEF ToSet
<1>6. \A n \in 1 .. Len(new) : key(ids[n]) = n /\ ids[n] \notin DOMAIN kept
  <2>1. ASSUME NEW n \in 1 .. Len(new)
        PROVE  key(ids[n]) = n
    BY <1>3, <1>4
  <2>2. ASSUME NEW n \in 1 .. Len(new)
        PROVE  ids[n] \notin DOMAIN kept
    BY <1>1, <1>3 DEF UsedIds
  <2> QED
    BY <2>1, <2>2
<1>7. r = [k \in DOMAIN kept \cup ToSet(ids) |->
             IF k \in DOMAIN kept THEN kept[k] ELSE Stored(new[key(k)])]
  BY DEF Replaced, ids
<1>8. /\ DOMAIN r = DOMAIN kept \cup ToSet(ids)
      /\ \A k \in DOMAIN kept : r[k] = kept[k]
      /\ \A n \in 1 .. Len(new) : r[ids[n]] = Stored(new[n])
  <2>1. DOMAIN r = DOMAIN kept \cup ToSet(ids)
    BY <1>7
  <2>2. \A k \in DOMAIN kept : r[k] = kept[k]
    BY <1>7
  <2>3. ASSUME NEW n \in 1 .. Len(new)
        PROVE  r[ids[n]] = Stored(new[n])
    <3>1. ids[n] \in ToSet(ids) /\ ids[n] \notin DOMAIN kept /\ key(ids[n]) = n
      BY <1>5, <1>6
    <3> HIDE DEF key, kept, r
    <3> QED
      BY <3>1, <1>7
  <2> QED
    BY <2>1, <2>2, <2>3
<1> HIDE DEF r, kept, key
<1>9. \A n \in 1 .. Len(new) : Stored(new[n]) \in DbRange /\ PointsOf(Stored(new[n])) = PointsOf(new[n])
  BY <1>2, StoredFacts
<1>10. \A k \in DOMAIN r : (k \in DOMAIN kept /\ r[k] = rows[k])
                           \/ \E n \in 1 .. Len(new) : k = ids[n] /\ r[k] = Stored(new[n])
  BY <1>1, <1>5, <1>8
<1>11. IsTable(r)
  <2>1. DOMAIN r \subseteq RowId
    BY <1>1, <1>3, <1>5, <1>8 DEF IsTable
  <2>2. ASSUME NEW k \in DOMAIN r
        PROVE  r[k] \in DbRange
    BY <1>1, <1>9, <1>10 DEF IsTable
  <2> QED
    BY <2>1, <2>2 DEF IsTable
<1>12. Disjoint(r)
  <2>1. ASSUME NEW j \in DOMAIN kept, NEW n \in 1 .. Len(new)
        PROVE  PointsOf(rows[j]) \cap PointsOf(new[n]) = {}
    <3>1. PointsOf(kept[j]) \cap Covered(ToSet(new)) = {}
      BY DEF Fits, kept
    <3>2. PointsOf(new[n]) \subseteq Covered(ToSet(new))
      BY <1>2, CoveredOf
    <3> QED
      BY <3>1, <3>2, <1>1
  <2>2. \A m, n \in 1 .. Len(new) : m # n => PointsOf(new[m]) \cap PointsOf(new[n]) = {}
    BY <1>2 DEF Fits
  <2>3. ASSUME NEW j \in DOMAIN r, NEW k \in DOMAIN r, j # k
        PROVE  PointsOf(r[j]) \cap PointsOf(r[k]) = {}
    <3>1. CASE j \in DOMAIN kept /\ k \in DOMAIN kept
      BY <1>1, <1>8, <2>3, <3>1 DEF Disjoint
    <3>2. CASE j \in DOMAIN kept /\ k \notin DOMAIN kept
      <4>1. PICK n \in 1 .. Len(new) : k = ids[n] /\ r[k] = Stored(new[n])
        BY <3>2, <1>10
      <4> QED
        BY <4>1, <3>2, <1>1, <1>8, <1>9, <2>1
    <3>3. CASE j \notin DOMAIN kept /\ k \in DOMAIN kept
      <4>1. PICK n \in 1 .. Len(new) : j = ids[n] /\ r[j] = Stored(new[n])
        BY <3>3, <1>10
      <4> QED
        BY <4>1, <3>3, <1>1, <1>8, <1>9, <2>1
    <3>4. CASE j \notin DOMAIN kept /\ k \notin DOMAIN kept
      <4>1. PICK m \in 1 .. Len(new) : j = ids[m] /\ r[j] = Stored(new[m])
        BY <3>4, <1>10
      <4>2. PICK n \in 1 .. Len(new) : k = ids[n] /\ r[k] = Stored(new[n])
        BY <3>4, <1>10
      <4> QED
        BY <4>1, <4>2, <2>3, <1>9, <2>2
    <3> QED
      BY <3>1, <3>2, <3>3, <3>4
  <2> QED
    BY <2>3 DEF Disjoint
<1>13. MemberAt(r) = MemberAt(kept) \cup Covered(ToSet(new))
  <2>1. ASSUME NEW p \in MemberAt(r)
        PROVE  p \in MemberAt(kept) \cup Covered(ToSet(new))
    <3>1. PICK k \in DOMAIN r : p \in PointsOf(r[k])
      BY DEF MemberAt
    <3>2. CASE k \in DOMAIN kept
      BY <3>1, <3>2, <1>8 DEF MemberAt
    <3>3. CASE k \notin DOMAIN kept
      <4>1. PICK n \in 1 .. Len(new) : r[k] = Stored(new[n])
        BY <3>3, <1>10
      <4> QED
        BY <4>1, <3>1, <1>2, <1>9, CoveredOf
    <3> QED
      BY <3>2, <3>3
  <2>2. ASSUME NEW p \in MemberAt(kept)
        PROVE  p \in MemberAt(r)
    <3>1. PICK k \in DOMAIN kept : p \in PointsOf(kept[k])
      BY DEF MemberAt
    <3> QED
      BY <3>1, <1>8 DEF MemberAt
  <2>3. ASSUME NEW p \in Covered(ToSet(new))
        PROVE  p \in MemberAt(r)
    <3>1. PICK n \in 1 .. Len(new) : p \in PointsOf(new[n])
      BY <1>2, CoveredOf DEF ToSet
    <3>2. ids[n] \in DOMAIN r /\ p \in PointsOf(r[ids[n]])
      BY <3>1, <1>5, <1>8, <1>9
    <3> QED
      BY <3>2 DEF MemberAt
  <2> QED
    BY <2>1, <2>2, <2>3
<1>14. \A k \in DOMAIN r : (k \in DOMAIN rows /\ r[k] = rows[k]) \/ \E i \in ToSet(new) : r[k] = Stored(i)
  BY <1>1, <1>2, <1>10
<1> QED
  BY <1>11, <1>12, <1>13, <1>14 DEF r, kept

(* MembershipInv, and that there is a view per session.                    *)
MemberInv == MembershipInv /\ DOMAIN view = Admin

(* The invariant holds at first.                                           *)
LEMMA InitHolds == MemberInit => MemberInv
<1> SUFFICES ASSUME MemberInit
             PROVE  MemberInv
  OBVIOUS
<1>1. DOMAIN rows = {} /\ clock \in Instant => MemberTypes
  BY DEF MemberInit, MemberTypes, IsTable
<1>2. DOMAIN rows = {}
  BY DEF MemberInit
<1>3. clock \in Instant
  BY DEF MemberInit, Instant
<1> QED
  BY <1>1, <1>2, <1>3 DEF MemberInit, MemberInv, MembershipInv, AtMostOneMembership

(* What a request asks for.                                                *)
LEMMA RequestFacts ==
  ASSUME NEW r \in Request
  PROVE  /\ r.kind = "make" => r.during \in Grant /\ r.during \in IntervalType
         /\ r.kind = "remove" => r.from \in Instant /\ StartingFrom(r.from) \in IntervalType
         /\ r.kind = "edit" => r.id \in RowId /\ r.during \in Edit /\ r.during \in IntervalType
BY GrantAssumption, StartingFromTyped DEF Request, GrantAssumption

(* A committing request has read a table and asks for what it may.         *)
LEMMA EndFacts ==
  ASSUME MemberInv, NEW a \in Admin, NEW kind, End(a, kind)
  PROVE  /\ op[a] \in Request /\ op[a].kind \in kind /\ IsTable(view[a])
         /\ pc[a] = "tx" /\ pc'[a] = "idle"
         /\ \A b \in Admin : b # a => pc'[b] = pc[b]
BY DEF End, MemberInv, MembershipInv, MemberTypes

(* A step that ends a request keeps the invariant, if it keeps that of the *)
(* table.                                                                  *)
LEMMA EndTyped ==
  ASSUME MemberInv, NEW a \in Admin, NEW kind, End(a, kind), IsTable(rows'), Disjoint(rows')
  PROVE  MemberInv'
<1>1. /\ clock' \in Instant
      /\ pc' \in [Admin -> {"idle", "tx"}]
      /\ op' \in [Admin -> Request \cup {None}]
      /\ DOMAIN view' = Admin
  BY DEF End, MemberInv, MembershipInv, MemberTypes
<1>2. ASSUME NEW b \in Admin, pc'[b] = "tx"
      PROVE  op'[b] \in Request /\ IsTable(view'[b])
  <2>1. b # a
    BY <1>2, EndFacts
  <2>2. pc[b] = "tx" /\ op'[b] = op[b] /\ view'[b] = view[b]
    BY <1>2, <2>1 DEF End, MemberInv, MembershipInv, MemberTypes
  <2> QED
    BY <2>2 DEF MemberInv, MembershipInv, MemberTypes
<1> QED
  BY <1>1, <1>2 DEF MemberInv, MembershipInv, MemberTypes, AtMostOneMembership, Disjoint

LEMMA RowsFacts ==
  ASSUME MemberInv
  PROVE  IsTable(rows) /\ Disjoint(rows)
BY DEF MemberInv, MembershipInv, MemberTypes, AtMostOneMembership, Disjoint

(* The rows after each of the steps that write.                            *)
LEMMA MadeRows ==
  ASSUME MemberInv, NEW a \in Admin, MakeMemberOf(a)
  PROVE  LET old == Selected(view[a], op[a].during)
             new == Made(view[a], op[a].during)
         IN  /\ op[a].during \in Grant /\ op[a].during \in IntervalType /\ IsTable(view[a])
             /\ IsTable(rows') /\ Disjoint(rows')
             /\ MemberAt(rows') = MemberAt(Restrict(rows, DOMAIN rows \ old)) \cup Covered(ToSet(new))
             /\ \A k \in DOMAIN rows' : (k \in DOMAIN rows /\ rows'[k] = rows[k]) \/ \E i \in ToSet(new) : rows'[k] = Stored(i)
<1>1. op[a] \in Request /\ op[a].kind = "make" /\ IsTable(view[a])
  BY EndFacts DEF MakeMemberOf
<1>2. op[a].during \in Grant /\ op[a].during \in IntervalType
  BY <1>1, RequestFacts
<1> DEFINE old == Selected(view[a], op[a].during)
           new == Made(view[a], op[a].during)
<1>3. new \in Ivals
  BY <1>1, <1>2, MadeFacts
<1>4. Replace(old, new)
  BY DEF MakeMemberOf
<1> HIDE DEF old, new
<1>5. /\ IsTable(rows') /\ Disjoint(rows')
      /\ MemberAt(rows') = MemberAt(Restrict(rows, DOMAIN rows \ old)) \cup Covered(ToSet(new))
      /\ \A k \in DOMAIN rows' : (k \in DOMAIN rows /\ rows'[k] = rows[k]) \/ \E i \in ToSet(new) : rows'[k] = Stored(i)
  BY <1>3, <1>4, RowsFacts, ReplacedFacts DEF Replace
<1> QED
  BY <1>1, <1>2, <1>5 DEF old, new

LEMMA RemovedRows ==
  ASSUME MemberInv, NEW a \in Admin, RemoveMemberOf(a)
  PROVE  LET old == Selected(view[a], StartingFrom(op[a].from))
             new == Removed(view[a], StartingFrom(op[a].from))
         IN  /\ op[a].from \in Instant /\ IsTable(view[a])
             /\ IsTable(rows') /\ Disjoint(rows')
             /\ MemberAt(rows') = MemberAt(Restrict(rows, DOMAIN rows \ old)) \cup Covered(ToSet(new))
             /\ \A k \in DOMAIN rows' : (k \in DOMAIN rows /\ rows'[k] = rows[k]) \/ \E i \in ToSet(new) : rows'[k] = Stored(i)
<1>1. op[a] \in Request /\ op[a].kind = "remove" /\ IsTable(view[a])
  BY EndFacts DEF RemoveMemberOf
<1>2. op[a].from \in Instant
  BY <1>1, RequestFacts
<1> DEFINE old == Selected(view[a], StartingFrom(op[a].from))
           new == Removed(view[a], StartingFrom(op[a].from))
<1>3. new \in Ivals
  BY <1>1, <1>2, RemovedFacts
<1>4. Replace(old, new)
  BY DEF RemoveMemberOf
<1> HIDE DEF old, new
<1>5. /\ IsTable(rows') /\ Disjoint(rows')
      /\ MemberAt(rows') = MemberAt(Restrict(rows, DOMAIN rows \ old)) \cup Covered(ToSet(new))
      /\ \A k \in DOMAIN rows' : (k \in DOMAIN rows /\ rows'[k] = rows[k]) \/ \E i \in ToSet(new) : rows'[k] = Stored(i)
  BY <1>3, <1>4, RowsFacts, ReplacedFacts DEF Replace
<1> QED
  BY <1>1, <1>2, <1>5 DEF old, new

LEMMA EditedRows ==
  ASSUME MemberInv, NEW a \in Admin, ChangeActiveDuring(a)
  PROVE  /\ op[a].during \in Edit /\ op[a].during \in IntervalType
         /\ IsTable(rows') /\ Disjoint(rows')
         /\ \A k \in DOMAIN rows' : (k \in DOMAIN rows /\ rows'[k] = rows[k]) \/ rows'[k] = Stored(op[a].during)
<1> DEFINE id == op[a].id
           i == op[a].during
           kept == Restrict(rows, DOMAIN rows \ {id})
<1>1. op[a] \in Request /\ op[a].kind = "edit" /\ id \in DOMAIN rows
  BY EndFacts DEF ChangeActiveDuring
<1>2. i \in Edit /\ i \in IntervalType
  BY <1>1, RequestFacts
<1>3. rows' = [rows EXCEPT ![id] = Stored(i)] /\ Fits(kept, <<i>>)
  BY DEF ChangeActiveDuring
<1>4. DOMAIN kept = DOMAIN rows \ {id} /\ \A k \in DOMAIN kept : kept[k] = rows[k]
  BY DEF Restrict
<1> HIDE DEF id, i, kept
<1>5. /\ DOMAIN rows' = DOMAIN rows
      /\ rows'[id] = Stored(i)
      /\ \A k \in DOMAIN rows \ {id} : rows'[k] = rows[k]
  BY <1>1, <1>3
<1>6. Stored(i) \in DbRange /\ PointsOf(Stored(i)) = PointsOf(i)
  BY <1>2, StoredFacts
<1>7. \A k \in DOMAIN rows \ {id} : PointsOf(rows[k]) \cap PointsOf(i) = {}
  <2>1. ToSet(<<i>>) = {i} /\ Covered({i}) = PointsOf(i)
    BY DEF ToSet, Covered
  <2> QED
    BY <1>3, <1>4, <2>1 DEF Fits
<1>8. IsTable(rows')
  BY <1>1, <1>5, <1>6, RowsFacts DEF IsTable
<1>9. Disjoint(rows')
  <2>1. ASSUME NEW j \in DOMAIN rows, NEW k \in DOMAIN rows, j # k
        PROVE  PointsOf(rows'[j]) \cap PointsOf(rows'[k]) = {}
    <3>1. CASE j # id /\ k # id
      BY <2>1, <3>1, <1>5, RowsFacts DEF Disjoint
    <3>2. CASE j = id
      BY <2>1, <3>2, <1>5, <1>6, <1>7
    <3>3. CASE k = id
      BY <2>1, <3>3, <1>5, <1>6, <1>7
    <3> QED
      BY <3>1, <3>2, <3>3
  <2> QED
    BY <2>1, <1>5 DEF Disjoint
<1> QED
  BY <1>2, <1>5, <1>8, <1>9 DEF i

LEMMA DeletedRows ==
  ASSUME MemberInv, NEW a \in Admin, DeleteMembership(a)
  PROVE  /\ IsTable(rows') /\ Disjoint(rows')
         /\ \A k \in DOMAIN rows' : k \in DOMAIN rows /\ rows'[k] = rows[k]
<1>1. DOMAIN rows' \subseteq DOMAIN rows /\ \A k \in DOMAIN rows' : rows'[k] = rows[k]
  BY DEF DeleteMembership, Restrict
<1> QED
  BY <1>1, RowsFacts DEF IsTable, Disjoint

(* Every step keeps the invariant.                                         *)
LEMMA StepHolds ==
  ASSUME MemberInv, [MemberNext]_memberVars
  PROVE  MemberInv'
<1>1. ASSUME NEW a \in Admin, NEW r \in Request, BeginRequest(a, r)
      PROVE  MemberInv'
  <2>1. /\ rows' = rows /\ clock' = clock
        /\ pc' = [pc EXCEPT ![a] = "tx"]
        /\ op' = [op EXCEPT ![a] = r]
        /\ view' = [view EXCEPT ![a] = rows]
    BY <1>1 DEF BeginRequest
  <2>2. /\ pc' \in [Admin -> {"idle", "tx"}]
        /\ op' \in [Admin -> Request \cup {None}]
        /\ DOMAIN view' = Admin
    BY <2>1 DEF MemberInv, MembershipInv, MemberTypes
  <2>3. ASSUME NEW b \in Admin, pc'[b] = "tx"
        PROVE  op'[b] \in Request /\ IsTable(view'[b])
    <3>1. CASE b = a
      BY <2>1, <3>1, RowsFacts DEF MemberInv, MembershipInv, MemberTypes
    <3>2. CASE b # a
      <4>1. pc[b] = "tx" /\ op'[b] = op[b] /\ view'[b] = view[b]
        BY <2>1, <2>3, <3>2 DEF MemberInv, MembershipInv, MemberTypes
      <4> QED
        BY <4>1 DEF MemberInv, MembershipInv, MemberTypes
    <3> QED
      BY <3>1, <3>2
  <2> QED
    BY <2>1, <2>2, <2>3 DEF MemberInv, MembershipInv, MemberTypes, AtMostOneMembership, IsTable
<1>2. ASSUME NEW a \in Admin, MakeMemberOf(a)
      PROVE  MemberInv'
  BY <1>2, MadeRows, EndTyped DEF MakeMemberOf
<1>3. ASSUME NEW a \in Admin, RemoveMemberOf(a)
      PROVE  MemberInv'
  BY <1>3, RemovedRows, EndTyped DEF RemoveMemberOf
<1>4. ASSUME NEW a \in Admin, ChangeActiveDuring(a)
      PROVE  MemberInv'
  BY <1>4, EditedRows, EndTyped DEF ChangeActiveDuring
<1>5. ASSUME NEW a \in Admin, DeleteMembership(a)
      PROVE  MemberInv'
  BY <1>5, DeletedRows, EndTyped DEF DeleteMembership
<1>6. ASSUME NEW a \in Admin, Abandon(a)
      PROVE  MemberInv'
  <2>1. rows' = rows
    BY <1>6 DEF Abandon
  <2>2. IsTable(rows') /\ Disjoint(rows')
    BY <2>1, RowsFacts
  <2> QED
    BY <1>6, <2>2, EndTyped DEF Abandon
<1>7. ASSUME ClockTicks
      PROVE  MemberInv'
  BY <1>7 DEF ClockTicks, MemberInv, MembershipInv, MemberTypes, AtMostOneMembership, IsTable
<1>8. ASSUME UNCHANGED memberVars
      PROVE  MemberInv'
  BY <1>8 DEF memberVars, MemberInv, MembershipInv, MemberTypes, AtMostOneMembership, IsTable
<1> QED
  BY <1>1, <1>2, <1>3, <1>4, <1>5, <1>6, <1>7, <1>8 DEF MemberNext

(* The memberships of one user in one group never overlap                  *)
(* (lib/membership.py:90), and the table holds only ranges, whatever       *)
(* requests interleave and whatever intervals they are asked for.          *)
THEOREM MembershipsNeverOverlap == MemberSpec => []MembershipInv
<1>1. MemberInv => MembershipInv
  BY DEF MemberInv
<1> QED
  BY <1>1, InitHolds, StepHolds, PTL DEF MemberSpec

(* The operations on intervals and sets of them that memberships are made  *)
(* of, evaluated and billed by denote what they should, for every choice   *)
(* of instants: Denotations holds of all half-open intervals and the sets  *)
(* made of two of them.                                                    *)
THEOREM IntervalsAlwaysDenote == MemberSpec => []IntervalsDenote
<1>1. IntervalsDenote
  BY DenotationsHold DEF IntervalsDenote
<1> QED
  BY <1>1, PTL

(* All callers of make_member_of grant intervals that are closed where     *)
(* they begin, and the edit form enters no others; either may be empty.    *)
ClosedInputs == \A i \in Grant \cup Edit : BeginsClosed(i)
(* All rows that are not empty are closed where they begin.                *)
ClosedRows(t) == \A k \in DOMAIN t : t[k] # Empty => BeginsClosed(t[k])

LEMMA StoredClosed ==
  ASSUME NEW i \in IntervalType, BeginsClosed(i)
  PROVE  Stored(i) # Empty => BeginsClosed(Stored(i))
BY DEF Stored

(* With such intervals granted and entered, the rows stay so.              *)
LEMMA ClosedStays ==
  ASSUME MemberInv, ClosedInputs, ClosedRows(rows), [MemberNext]_memberVars
  PROVE  ClosedRows(rows)'
<1>1. ASSUME NEW new \in Ivals, \A i \in ToSet(new) : BeginsClosed(i),
             \A k \in DOMAIN rows' : (k \in DOMAIN rows /\ rows'[k] = rows[k]) \/ \E i \in ToSet(new) : rows'[k] = Stored(i)
      PROVE  ClosedRows(rows)'
  <2>1. ToSet(new) \subseteq IntervalType
    BY ToSetFacts DEF Ivals
  <2>2. \A i \in ToSet(new) : Stored(i) # Empty => BeginsClosed(Stored(i))
    BY <1>1, <2>1, StoredClosed
  <2> QED
    BY <1>1, <2>2 DEF ClosedRows
<1>2. ASSUME NEW a \in Admin, MakeMemberOf(a)
      PROVE  ClosedRows(rows)'
  <2> DEFINE new == Made(view[a], op[a].during)
  <2>1. /\ op[a].during \in Grant /\ op[a].during \in IntervalType /\ IsTable(view[a])
        /\ \A k \in DOMAIN rows' : (k \in DOMAIN rows /\ rows'[k] = rows[k]) \/ \E i \in ToSet(new) : rows'[k] = Stored(i)
    BY <1>2, MadeRows
  <2>2. BeginsClosed(op[a].during)
    BY <2>1 DEF ClosedInputs
  <2>3. new \in Ivals /\ \A i \in ToSet(new) : BeginsClosed(i)
    BY <2>1, <2>2, MadeFacts DEF Proper
  <2> HIDE DEF new
  <2> QED
    BY <2>1, <2>3, <1>1
<1>3. ASSUME NEW a \in Admin, RemoveMemberOf(a)
      PROVE  ClosedRows(rows)'
  <2> DEFINE new == Removed(view[a], StartingFrom(op[a].from))
  <2>1. /\ op[a].from \in Instant /\ IsTable(view[a])
        /\ \A k \in DOMAIN rows' : (k \in DOMAIN rows /\ rows'[k] = rows[k]) \/ \E i \in ToSet(new) : rows'[k] = Stored(i)
    BY <1>3, RemovedRows
  <2>2. new \in Ivals /\ \A i \in ToSet(new) : BeginsClosed(i)
    BY <2>1, RemovedFacts DEF Proper
  <2> HIDE DEF new
  <2> QED
    BY <2>1, <2>2, <1>1
<1>4. ASSUME NEW a \in Admin, ChangeActiveDuring(a)
      PROVE  ClosedRows(rows)'
  <2>1. /\ op[a].during \in Edit /\ op[a].during \in IntervalType
        /\ \A k \in DOMAIN rows' : (k \in DOMAIN rows /\ rows'[k] = rows[k]) \/ rows'[k] = Stored(op[a].during)
    BY <1>4, EditedRows
  <2>2. BeginsClosed(op[a].during)
    BY <2>1 DEF ClosedInputs
  <2>3. Stored(op[a].during) # Empty => BeginsClosed(Stored(op[a].during))
    BY <2>1, <2>2, StoredClosed
  <2> QED
    BY <2>1, <2>3 DEF ClosedRows
<1>5. ASSUME NEW a \in Admin, DeleteMembership(a)
      PROVE  ClosedRows(rows)'
  <2>1. \A k \in DOMAIN rows' : k \in DOMAIN rows /\ rows'[k] = rows[k]
    BY <1>5, DeletedRows
  <2> QED
    BY <2>1 DEF ClosedRows
<1>6. ASSUME rows' = rows
      PROVE  ClosedRows(rows)'
  BY <1>6 DEF ClosedRows
<1> QED
  BY <1>2, <1>3, <1>4, <1>5, <1>6 DEF MemberNext, memberVars, BeginRequest, Abandon, ClockTicks

(* Which step commits a request.                                           *)
LEMMA CommitIs ==
  ASSUME MemberInv, [MemberNext]_memberVars, NEW a \in Admin
  PROVE  /\ Committed(a, "make") => MakeMemberOf(a)
         /\ Committed(a, "remove") => RemoveMemberOf(a)
<1> SUFFICES ASSUME NEW kind \in {"make", "remove"}, Committed(a, kind)
             PROVE  /\ kind = "make" => MakeMemberOf(a)
                    /\ kind = "remove" => RemoveMemberOf(a)
  OBVIOUS
<1>1. pc[a] = "tx" /\ op[a].kind = kind /\ pc'[a] = "idle" /\ rows' # rows
  BY DEF Committed
<1>2. PICK b \in Admin : MakeMemberOf(b) \/ RemoveMemberOf(b) \/ ChangeActiveDuring(b) \/ DeleteMembership(b)
  BY <1>1 DEF MemberNext, memberVars, BeginRequest, Abandon, ClockTicks
<1>3. b = a
  BY <1>1, <1>2, EndFacts DEF MakeMemberOf, RemoveMemberOf, ChangeActiveDuring, DeleteMembership
<1> QED
  BY <1>1, <1>2, <1>3 DEF MakeMemberOf, RemoveMemberOf, ChangeActiveDuring, DeleteMembership, End

(* make_member_of makes the user a member, whatever it has read.           *)
LEMMA StepMakesMember ==
  ASSUME MemberInv, [MemberNext]_memberVars, NEW a \in Admin, Committed(a, "make")
  PROVE  PointsOf(op[a].during) \subseteq MemberAt(rows')
<1>1. MakeMemberOf(a)
  BY CommitIs
<1>2. /\ op[a].during \in IntervalType /\ IsTable(view[a])
      /\ Covered(ToSet(Made(view[a], op[a].during))) \subseteq MemberAt(rows')
  BY <1>1, MadeRows
<1>3. PointsOf(op[a].during) \subseteq Covered(ToSet(Made(view[a], op[a].during)))
  BY <1>2, MadeFacts
<1> QED
  BY <1>2, <1>3

(* The closure of an interval adds at most its last point.                 *)
LEMMA ClosureAdds ==
  ASSUME NEW r \in IntervalType, BeginsClosed(r)
  PROVE  /\ PointsOf(r) \subseteq PointsOf(Closure(r))
         /\ PointsOf(Closure(r)) \subseteq PointsOf(r) \cup {2 * r.upper.value}
<1> DEFINE c == Closure(r)
<1>2. /\ c.lower.value = r.lower.value /\ c.upper.value = r.upper.value
      /\ c.lower.closed <=> r.lower.value \notin Infinite
      /\ c.upper.closed <=> r.upper.value \notin Infinite
  BY DEF Closure, Closed, Ival, Bnd
<1>3. /\ r.lower.value \in Int /\ r.upper.value \in Int
      /\ r.lower.closed <=> r.lower.value \notin Infinite
      /\ r.upper.closed => r.upper.value \notin Infinite
  BY IntervalParts DEF BeginsClosed, Value, BoundType
<1> HIDE DEF c
<1>4. ASSUME NEW p \in Point
      PROVE  /\ From(c.lower, p) <=> From(r.lower, p)
             /\ Till(r.upper, p) => Till(c.upper, p)
             /\ Till(c.upper, p) => Till(r.upper, p) \/ p = 2 * r.upper.value
  BY <1>2, <1>3 DEF From, Till, Point
<1> QED
  BY <1>4, PointsAre DEF c

(* A row as the program reads it: itself, or all time if it is empty.      *)
LEMMA LoadedFacts ==
  ASSUME NEW r \in DbRange, r # Empty => BeginsClosed(r)
  PROVE  /\ Loaded(r) \in IntervalType /\ BeginsClosed(Loaded(r))
         /\ r # Empty => Loaded(r) = r
         /\ PointsOf(r) \subseteq PointsOf(Loaded(r))
         /\ \A p \in Point : p = 2 * Loaded(r).upper.value => p = 2 * r.upper.value
         /\ r = Empty => Loaded(r).lower.value = NegInf /\ Loaded(r).upper.value = PosInf
<1>1. Loaded(r) \in IntervalType
  BY LoadedTyped
<1>2. r # Empty => Loaded(r) = r
  BY DEF Loaded
<1>3. CASE r = Empty
  <2>1. Loaded(r) = Unbounded
    BY <1>3 DEF Loaded
  <2>2. Unbounded.lower.value = NegInf /\ Unbounded.upper.value = PosInf
    BY BoundValue DEF Unbounded, Open, Ival
  <2>3. BeginsClosed(Unbounded)
    BY <2>2 DEF BeginsClosed, Infinite
  <2>4. PointsOf(r) = {}
    BY <1>3, EmptyHolds
  <2>5. \A p \in Point : p # 2 * PosInf
    BY DEF Point, InfinityAssumption
  <2> QED
    BY <1>1, <1>3, <2>1, <2>2, <2>3, <2>4, <2>5
<1> QED
  BY <1>1, <1>2, <1>3

(* Whatever interval is asked for, one that has no ends overlaps it.       *)
LEMMA EndlessOverlaps ==
  ASSUME NEW d \in IntervalType, NEW r, r.lower.value = NegInf, r.upper.value = PosInf
  PROVE  Overlaps(d, Closure(r))
<1>1. Closure(r).lower.value = NegInf /\ Closure(r).upper.value = PosInf
  BY DEF Closure, Closed, Ival, Bnd
<1>2. d.lower.value \in Value /\ d.upper.value \in Value
  BY IntervalParts
<1> QED
  BY <1>1, <1>2 DEF Overlaps, Leq, Value, Infinite, InfinityAssumption

(* make_member_of makes the user a member at no other time and takes none. *)
LEMMA StepGrantsOnly ==
  ASSUME MemberInv, ClosedInputs, ClosedRows(rows), [MemberNext]_memberVars,
         NEW a \in Admin, Committed(a, "make"), Undisturbed(a)
  PROVE  LET ends == {2 * rows[k].upper.value : k \in DOMAIN rows}
         IN  MemberAt(rows') \ ends = (TakenAt(rows) \cup PointsOf(op[a].during)) \ ends
<1> DEFINE ends == {2 * rows[k].upper.value : k \in DOMAIN rows}
           during == op[a].during
           old == Selected(rows, during)
           kept == Restrict(rows, DOMAIN rows \ old)
           new == Made(rows, during)
           closures == {Closure(Loaded(rows[k])) : k \in old}
<1>1. MakeMemberOf(a) /\ view[a] = rows
  BY CommitIs DEF Undisturbed
<1>2. /\ during \in Grant /\ during \in IntervalType /\ IsTable(rows)
      /\ MemberAt(rows') = MemberAt(kept) \cup Covered(ToSet(new))
  BY <1>1, MadeRows
<1>3. BeginsClosed(during)
  BY <1>2 DEF ClosedInputs
<1>4. /\ PointsOf(during) \subseteq Covered(ToSet(new))
      /\ Covered(ToSet(new)) \subseteq Covered(closures) \cup PointsOf(during)
      /\ Covered(closures) \subseteq Covered(ToSet(new)) \cup {2 * Loaded(rows[k]).upper.value : k \in old}
  BY <1>2, <1>3, MadeFacts
<1>5. old \subseteq DOMAIN rows /\ \A k \in DOMAIN rows : k \in old <=> Overlaps(during, Closure(Loaded(rows[k])))
  BY DEF Selected
<1>6. DOMAIN kept = DOMAIN rows \ old /\ \A k \in DOMAIN kept : kept[k] = rows[k]
  BY DEF Restrict
<1>7. \A p : p \in Covered(closures) <=> \E k \in old : p \in PointsOf(Closure(Loaded(rows[k])))
  BY DEF Covered
<1> HIDE DEF during, old, kept, new, closures
<1>8. ASSUME NEW k \in DOMAIN rows
      PROVE  /\ PointsOf(rows[k]) \subseteq PointsOf(Loaded(rows[k]))
             /\ PointsOf(Loaded(rows[k])) \subseteq PointsOf(Closure(Loaded(rows[k])))
             /\ PointsOf(Closure(Loaded(rows[k]))) \subseteq PointsOf(Loaded(rows[k])) \cup ends
             /\ \A p \in Point : p = 2 * Loaded(rows[k]).upper.value => p \in ends
             /\ k \notin old => Loaded(rows[k]) = rows[k]
  <2> DEFINE r == rows[k]
  <2>1. r \in DbRange /\ (r # Empty => BeginsClosed(r))
    BY <1>2 DEF IsTable, ClosedRows
  <2>2. 2 * r.upper.value \in ends
    OBVIOUS
  <2> HIDE DEF r, ends
  <2>3. /\ Loaded(r) \in IntervalType /\ BeginsClosed(Loaded(r))
        /\ r # Empty => Loaded(r) = r
        /\ PointsOf(r) \subseteq PointsOf(Loaded(r))
        /\ \A p \in Point : p = 2 * Loaded(r).upper.value => p = 2 * r.upper.value
        /\ r = Empty => Loaded(r).lower.value = NegInf /\ Loaded(r).upper.value = PosInf
    BY <2>1, LoadedFacts
  <2>4. \A p \in Point : p = 2 * Loaded(r).upper.value => p \in ends
    BY <2>2, <2>3
  <2>5. PointsOf(Closure(Loaded(r))) \subseteq PointsOf(Loaded(r)) \cup {2 * Loaded(r).upper.value}
        /\ PointsOf(Loaded(r)) \subseteq PointsOf(Closure(Loaded(r)))
    BY <2>3, ClosureAdds
  <2>6. PointsOf(Closure(Loaded(r))) \subseteq Point
    BY PointsAre
  <2>7. r = Empty => k \in old
    BY <1>2, <1>5, <2>3, EndlessOverlaps DEF r
  <2> QED
    BY <2>3, <2>4, <2>5, <2>6, <2>7 DEF r
<1>9. \A p : p \in MemberAt(kept) <=> \E k \in DOMAIN rows \ old : p \in PointsOf(rows[k])
  BY <1>6 DEF MemberAt
<1>10. \A p : p \in TakenAt(rows) <=> \E k \in DOMAIN rows : p \in PointsOf(Loaded(rows[k]))
  BY DEF TakenAt
<1>11. \A k \in DOMAIN rows : PointsOf(Closure(Loaded(rows[k]))) \subseteq Point
  BY PointsAre
<1> HIDE DEF ends
<1>12. ASSUME NEW p \in MemberAt(rows'), p \notin ends
       PROVE  p \in TakenAt(rows) \cup PointsOf(during)
  BY <1>2, <1>4, <1>5, <1>7, <1>8, <1>9, <1>10, <1>12
<1>13. ASSUME NEW p \in TakenAt(rows), p \notin ends
       PROVE  p \in MemberAt(rows')
  <2>1. PICK k \in DOMAIN rows : p \in PointsOf(Loaded(rows[k]))
    BY <1>10
  <2>2. CASE k \in old
    <3>1. p \in Covered(closures) /\ p \in Point
      BY <2>1, <2>2, <1>7, <1>8, <1>11
    <3>2. p \notin {2 * Loaded(rows[j]).upper.value : j \in old}
      BY <3>1, <1>5, <1>8, <1>13
    <3> QED
      BY <3>1, <3>2, <1>2, <1>4
  <2>3. CASE k \notin old
    BY <2>1, <2>3, <1>2, <1>8, <1>9
  <2> QED
    BY <2>2, <2>3
<1>14. MemberAt(rows') \ ends = (TakenAt(rows) \cup PointsOf(during)) \ ends
  BY <1>2, <1>4, <1>12, <1>13
<1> QED
  BY <1>14 DEF ends, during

(* remove_member_of takes what it should.                                  *)
LEMMA StepRemoves ==
  ASSUME MemberInv, ClosedRows(rows), [MemberNext]_memberVars,
         NEW a \in Admin, Committed(a, "remove"), Undisturbed(a)
  PROVE  MemberAt(rows') \ {2 * op[a].from}
           = (TakenAt(rows) \ PointsOf(StartingFrom(op[a].from))) \ {2 * op[a].from}
<1> DEFINE from == op[a].from
           d == StartingFrom(from)
           old == Selected(rows, d)
           kept == Restrict(rows, DOMAIN rows \ old)
           new == Removed(rows, d)
<1>1. RemoveMemberOf(a) /\ view[a] = rows
  BY CommitIs DEF Undisturbed
<1>2. /\ from \in Instant /\ IsTable(rows)
      /\ MemberAt(rows') = MemberAt(kept) \cup Covered(ToSet(new))
  BY <1>1, RemovedRows
<1>3. Covered(ToSet(new)) \ {2 * from} = PointsBefore(Covered({Closure(Loaded(rows[k])) : k \in old}), from)
  BY <1>2, RemovedFacts
<1>4. /\ d.lower.value = from /\ d.lower.closed /\ d.upper.value = PosInf
      /\ from \in Int /\ NegInf < from /\ from < PosInf
  <2>1. d.lower = Bnd(from, TRUE) /\ d.upper = Bnd(PosInf, FALSE)
    BY DEF StartingFrom, ClosedOpen, Ival
  <2>2. from \in Int /\ NegInf < from /\ from < PosInf
    BY <1>2 DEF Instant
  <2>3. Bnd(from, TRUE).closed
    <3>1. from \notin Infinite
      BY <2>2 DEF Infinite
    <3> QED
      BY <3>1 DEF Bnd
  <2> HIDE DEF d, from
  <2> QED
    BY <2>1, <2>2, <2>3, BoundValue
<1> HIDE DEF from
<1>5. ASSUME NEW p \in Point
      PROVE  p \in PointsOf(d) <=> ~(p < 2 * from)
  <2>1. From(d.lower, p) <=> ~(p < 2 * from)
    BY <1>4 DEF From, Point
  <2>2. Till(d.upper, p)
    BY <1>4 DEF Till, Point
  <2> QED
    BY <2>1, <2>2, PointsAre
<1> HIDE DEF d
<1>6. ASSUME NEW k \in DOMAIN rows
      PROVE  LET r == Loaded(rows[k])
             IN  /\ k \in old => PointsBefore(PointsOf(Closure(r)), from) = PointsBefore(PointsOf(r), from)
                 /\ k \notin old => r = rows[k] /\ PointsBefore(PointsOf(r), from) = PointsOf(r)
  <2> DEFINE r == Loaded(rows[k])
  <2>1. rows[k] \in DbRange /\ (rows[k] # Empty => BeginsClosed(rows[k]))
    BY <1>2 DEF IsTable, ClosedRows
  <2>0. /\ r \in IntervalType /\ BeginsClosed(r)
        /\ rows[k] # Empty => r = rows[k]
        /\ rows[k] = Empty => r.lower.value = NegInf /\ r.upper.value = PosInf
    BY <2>1, LoadedFacts
  <2> HIDE DEF r
  <2>2. /\ r \in IntervalType
        /\ PointsOf(r) \subseteq PointsOf(Closure(r))
        /\ PointsOf(Closure(r)) \subseteq PointsOf(r) \cup {2 * r.upper.value}
    BY <2>0, ClosureAdds
  <2>3. k \in old <=> Overlaps(d, Closure(r))
    BY DEF old, Selected, r
  <2>4. /\ Closure(r).lower.value = r.lower.value /\ Closure(r).upper.value = r.upper.value
        /\ Closure(r).upper.closed <=> r.upper.value \notin Infinite
    BY DEF Closure, Closed, Ival, Bnd
  <2>5. /\ r.lower.value \in Int /\ r.upper.value \in Int
        /\ NegInf <= r.lower.value /\ r.upper.value <= PosInf
        /\ r.lower.value <= r.upper.value
        /\ r.lower.value = r.upper.value => r.upper.value < PosInf
    BY <2>2, IntervalParts DEF Value, Instant
  <2>6. Leq(Closure(r).lower, d.upper)
    BY <1>4, <2>4, <2>5 DEF Leq, Infinite
  <2>7. Overlaps(d, Closure(r)) <=> Leq(d.lower, Closure(r).upper)
    BY <2>6 DEF Overlaps
  <2>8. Leq(d.lower, Closure(r).upper) <=> from <= r.upper.value
    BY <1>4, <2>4, <2>5 DEF Leq, Infinite
  <2>9. k \in old => PointsBefore(PointsOf(Closure(r)), from) = PointsBefore(PointsOf(r), from)
    <3>1. k \in old => ~(2 * r.upper.value < 2 * from)
      BY <1>4, <2>3, <2>5, <2>7, <2>8
    <3> QED
      BY <2>2, <3>1 DEF PointsBefore
  <2>10. k \notin old => \A p \in Point : Till(r.upper, p) => p < 2 * from
    BY <1>4, <2>3, <2>5, <2>7, <2>8 DEF Till, Point
  <2>11. k \notin old => PointsBefore(PointsOf(r), from) = PointsOf(r)
    BY <2>10, PointsAre DEF PointsBefore
  <2>12. k \notin old => r = rows[k]
    <3>1. rows[k] = Empty => ~(r.upper.value < from)
      BY <2>0, <1>4
    <3>2. rows[k] = Empty => k \in old
      BY <3>1, <2>3, <2>7, <2>8, <2>5, <1>4
    <3> QED
      BY <3>2, <2>0
  <2> QED
    BY <2>9, <2>11, <2>12 DEF r
<1>7. DOMAIN kept = DOMAIN rows \ old /\ \A k \in DOMAIN kept : kept[k] = rows[k]
  BY DEF Restrict
<1>8. old \subseteq DOMAIN rows
  BY DEF Selected
<1> HIDE DEF old, kept, new
<1>9. \A p \in TakenAt(rows) : p \in Point /\ p \in Int
  <2>1. \A k \in DOMAIN rows : PointsOf(Loaded(rows[k])) \subseteq Point
    BY PointsAre
  <2> QED
    BY <2>1 DEF TakenAt, Point
<1>10. ASSUME NEW p, p # 2 * from
       PROVE  p \in MemberAt(rows') <=> p \in TakenAt(rows) /\ p < 2 * from
  <2>1. p \in MemberAt(kept) <=> \E k \in DOMAIN rows \ old : p \in PointsOf(rows[k])
    BY <1>7 DEF MemberAt
  <2>2. p \in Covered(ToSet(new)) <=> p \in Covered({Closure(Loaded(rows[k])) : k \in old}) /\ p < 2 * from
    BY <1>3, <1>10 DEF PointsBefore
  <2>3. p \in Covered({Closure(Loaded(rows[k])) : k \in old}) <=> \E k \in old : p \in PointsOf(Closure(Loaded(rows[k])))
    BY DEF Covered
  <2>4. ASSUME NEW k \in old
        PROVE  p \in PointsOf(Closure(Loaded(rows[k]))) /\ p < 2 * from <=> p \in PointsOf(Loaded(rows[k])) /\ p < 2 * from
    BY <1>6, <1>8 DEF PointsBefore
  <2>5. ASSUME NEW k \in DOMAIN rows \ old
        PROVE  Loaded(rows[k]) = rows[k] /\ (p \in PointsOf(rows[k]) => p < 2 * from)
    BY <1>6 DEF PointsBefore
  <2>6. p \in TakenAt(rows) <=> \E k \in DOMAIN rows : p \in PointsOf(Loaded(rows[k]))
    BY DEF TakenAt
  <2> QED
    BY <1>2, <1>8, <2>1, <2>2, <2>3, <2>4, <2>5, <2>6
<1>11. MemberAt(rows') \ {2 * from} = (TakenAt(rows) \ PointsOf(d)) \ {2 * from}
  <2>1. ASSUME NEW p, p # 2 * from
        PROVE  p \in MemberAt(rows') <=> p \in TakenAt(rows) \ PointsOf(d)
    BY <2>1, <1>5, <1>9, <1>10
  <2> QED
    BY <2>1
<1> QED
  BY <1>11 DEF from, d

(* Whatever intervals are granted and entered, and whatever others do, a   *)
(* make_member_of that commits leaves the user a member for all of its     *)
(* interval.                                                               *)
THEOREM GrantsReachAll == MemberSpec => MadeIsMember
<1>1. MemberInv /\ [MemberNext]_memberVars
        => [\A a \in Admin : Committed(a, "make") => PointsOf(op[a].during) \subseteq MemberAt(rows')]_memberVars
  BY StepMakesMember
<1> QED
  BY <1>1, InitHolds, StepHolds, PTL DEF MemberSpec, MadeIsMember

(* With intervals granted and entered that are closed where they begin,    *)
(* empty or not, a grant gives all of its interval; undisturbed, it takes  *)
(* nothing and gives nothing else, but for the instants at which           *)
(* memberships ended and for all time if a row had become empty.           *)
THEOREM GrantsAreExact == ClosedInputs => (MemberSpec => GrantIsExact)
<1> SUFFICES ASSUME ClosedInputs
             PROVE  MemberSpec => GrantIsExact
  OBVIOUS
<1>1. MemberInit => MemberInv /\ ClosedRows(rows)
  <2>1. MemberInit => DOMAIN rows = {}
    BY DEF MemberInit
  <2> QED
    BY <2>1, InitHolds DEF ClosedRows
<1>2. MemberInv /\ ClosedRows(rows) /\ [MemberNext]_memberVars => (MemberInv /\ ClosedRows(rows))'
  BY StepHolds, ClosedStays
<1>3. MemberInv /\ [MemberNext]_memberVars
        => [\A a \in Admin : Committed(a, "make") => PointsOf(op[a].during) \subseteq MemberAt(rows')]_memberVars
  BY StepMakesMember
<1>4. MemberInv /\ ClosedRows(rows) /\ [MemberNext]_memberVars
        => [\A a \in Admin : Committed(a, "make") /\ Undisturbed(a) =>
              LET ends == {2 * rows[k].upper.value : k \in DOMAIN rows}
              IN  MemberAt(rows') \ ends = (TakenAt(rows) \cup PointsOf(op[a].during)) \ ends]_memberVars
  BY StepGrantsOnly
<1> QED
  BY <1>1, <1>2, <1>3, <1>4, PTL DEF MemberSpec, GrantIsExact, MadeIsMember, MakeGrantsOnly

(* With such intervals, a removal that ran undisturbed takes all from its  *)
(* moment on and leaves what was before as it was read.                    *)
THEOREM RemovalsAreExact == ClosedInputs => (MemberSpec => RemovalIsExact)
<1> SUFFICES ASSUME ClosedInputs
             PROVE  MemberSpec => RemovalIsExact
  OBVIOUS
<1>1. MemberInit => MemberInv /\ ClosedRows(rows)
  <2>1. MemberInit => DOMAIN rows = {}
    BY DEF MemberInit
  <2> QED
    BY <2>1, InitHolds DEF ClosedRows
<1>2. MemberInv /\ ClosedRows(rows) /\ [MemberNext]_memberVars => (MemberInv /\ ClosedRows(rows))'
  BY StepHolds, ClosedStays
<1>3. MemberInv /\ ClosedRows(rows) /\ [MemberNext]_memberVars
        => [\A a \in Admin : Committed(a, "remove") /\ Undisturbed(a) =>
              LET instant == {2 * op[a].from}
              IN  MemberAt(rows') \ instant =
                    (TakenAt(rows) \ PointsOf(StartingFrom(op[a].from))) \ instant]_memberVars
  BY StepRemoves
<1> QED
  BY <1>1, <1>2, <1>3, PTL DEF MemberSpec, RemovalIsExact

(* So with such intervals every grant gives all that was asked for, and no *)
(* request that ran undisturbed gives or takes anything else, but for what *)
(* the program takes an emptied row for and at the instants of ends.       *)
THEOREM MembershipsAreExact == ClosedInputs => (MemberSpec => RequestsAreExact)
<1> SUFFICES ASSUME ClosedInputs
             PROVE  MemberSpec => RequestsAreExact
  OBVIOUS
<1>1. MemberSpec => GrantIsExact
  BY GrantsAreExact
<1>2. MemberSpec => RemovalIsExact
  BY RemovalsAreExact
<1> QED
  BY <1>1, <1>2 DEF RequestsAreExact

----------------------------------------------------------------------------
(* The history of rooms.                                                   *)

USE RoomAssumption, SessionAssumption, TimeAssumption

(* Cutting an entry off at t leaves an entry that is not open.             *)
LEMMA EndedType ==
  ASSUME NEW e \in Entry, NEW t \in Time
  PROVE  Ended(e, t) \in Entry /\ Ended(e, t).to # Forever /\ Ended(e, t).room = e.room
<1>1. CASE e.from < t
  BY <1>1 DEF Ended, Entry, Time, Forever
<1>2. CASE ~(e.from < t)
  <2>1. Ended(e, t) = [room |-> e.room, from |-> 0, to |-> 0]
    BY <1>2 DEF Ended, Entry
  <2> QED
    BY <2>1 DEF Entry, Forever
<1> QED
  BY <1>1, <1>2

(* ... and takes away nothing before t.                                    *)
LEMMA EndedKeepsPast ==
  ASSUME NEW e \in Entry, NEW t \in Time, t < e.to, NEW i \in Time, i < t
  PROVE  (Ended(e, t).from <= i /\ i < Ended(e, t).to) <=> (e.from <= i /\ i < e.to)
BY DEF Ended, Entry, Time, Forever

LEMMA HistoryType ==
  ASSUME TypeOK, NEW r \in RoomOrNone, NEW t \in Time
  PROVE  AfterEnd(t) \subseteq Entry /\ History(r, t) \subseteq Entry
<1>1. AfterEnd(t) \subseteq Entry
  BY EndedType DEF AfterEnd, TypeOK
<1>2. r # NoRoom => OpenSince(r, t) \in Entry
  BY DEF OpenSince, Entry, RoomOrNone, Time, Forever
<1> QED
  BY <1>1, <1>2 DEF History

LEMMA TypeInductive ==
  ASSUME TypeOK, [Next]_vars
  PROVE  TypeOK'
<1>1. ASSUME NEW s \in Session, NEW r \in RoomOrNone, Begin(s, r)
      PROVE  TypeOK'
  BY <1>1 DEF Begin, TypeOK, Transaction, Time
<1>2. ASSUME NEW s \in Session, SetRoom(s)
      PROVE  TypeOK'
  <2>1. tx[s] \in Transaction
    BY <1>2 DEF SetRoom, TypeOK
  <2>2. entries' \subseteq Entry
    BY <1>2, <2>1, HistoryType DEF SetRoom, Transaction, TypeOK
  <2>3. /\ tx' \in [Session -> Transaction \cup {Idle}]
        /\ \A x \in Session : tx'[x].start <= now
    <3>1. ASSUME NEW x \in Session
          PROVE  /\ tx'[x] \in Transaction \cup {Idle}
                 /\ tx'[x].start <= now
      <4>1. tx'[x] = IF x = s \/ tx[x] = Idle THEN Idle
                     ELSE [tx[x] EXCEPT !.fresh = @ /\ tx[s].target = room]
        BY <1>2 DEF SetRoom
      <4>2. CASE x = s \/ tx[x] = Idle
        BY <4>1, <4>2 DEF Idle, TypeOK, Time
      <4>3. CASE ~(x = s \/ tx[x] = Idle)
        <5>1. tx[x] \in Transaction /\ tx[x].start <= now
          BY <4>3 DEF TypeOK
        <5>2. (tx[x].fresh /\ tx[s].target = room) \in BOOLEAN
          OBVIOUS
        <5> QED
          BY <4>1, <4>3, <5>1, <5>2 DEF Transaction
      <4> QED
        BY <4>2, <4>3
    <3> QED
      BY <1>2, <3>1 DEF SetRoom
  <2> QED
    BY <1>2, <2>1, <2>2, <2>3 DEF SetRoom, TypeOK, Transaction
<1>3. ASSUME NEW s \in Session, Abort(s)
      PROVE  TypeOK'
  BY <1>3 DEF Abort, TypeOK, Idle, Time
<1>4. CASE Tick
  BY <1>4 DEF Tick, TypeOK, Time, Transaction, Idle
<1>5. CASE UNCHANGED vars
  BY <1>5 DEF vars, TypeOK
<1> QED
  BY <1>1, <1>2, <1>3, <1>4, <1>5 DEF Next

(* The trigger itself: from a history whose open entry is the old room to  *)
(* one whose open entry is the new room, whenever the transaction began.   *)
LEMMA TriggerKeepsOpenEntry ==
  ASSUME TypeOK, OpenEntryIsRoom, NEW r \in RoomOrNone, NEW t \in Time
  PROVE  {e.room : e \in {x \in History(r, t) : x.to = Forever}} =
           IF r = NoRoom THEN {} ELSE {r}
<1>1. ASSUME NEW e \in AfterEnd(t)
      PROVE  e.to # Forever
  <2>1. PICK old \in entries :
          e = IF old.room = room /\ t < old.to THEN Ended(old, t) ELSE old
    BY <1>1 DEF AfterEnd
  <2>2. old \in Entry
    BY DEF TypeOK
  <2>3. CASE old.to = Forever
    <3>1. old.room = room
      BY <2>2, <2>3 DEF OpenEntryIsRoom
    <3>2. t < old.to
      BY <2>3 DEF Time, Forever
    <3> QED
      BY <2>1, <2>2, <3>1, <3>2, EndedType
  <2>4. CASE old.to # Forever
    BY <2>1, <2>2, <2>4, EndedType
  <2> QED
    BY <2>3, <2>4
<1>2. CASE r = NoRoom
  BY <1>1, <1>2 DEF History
<1>3. CASE r # NoRoom
  <2>1. History(r, t) = AfterEnd(t) \cup {OpenSince(r, t)}
    BY <1>3 DEF History
  <2>2. OpenSince(r, t).to = Forever /\ OpenSince(r, t).room = r
    BY DEF OpenSince
  <2>3. {x \in History(r, t) : x.to = Forever} = {OpenSince(r, t)}
    BY <1>1, <2>1, <2>2
  <2> QED
    BY <1>3, <2>2, <2>3
<1> QED
  BY <1>2, <1>3

LEMMA OpenEntryInductive ==
  ASSUME TypeOK, OpenEntryIsRoom, [Next]_vars
  PROVE  OpenEntryIsRoom'
<1>1. ASSUME NEW s \in Session, SetRoom(s)
      PROVE  OpenEntryIsRoom'
  <2>1. tx[s].target \in RoomOrNone /\ tx[s].start \in Time
    BY <1>1 DEF SetRoom, TypeOK, Transaction
  <2>2. CASE tx[s].target = room
    BY <1>1, <2>2 DEF SetRoom, OpenEntryIsRoom
  <2>3. CASE tx[s].target # room
    <3>1. room' = tx[s].target /\ entries' = History(tx[s].target, tx[s].start)
      BY <1>1, <2>3 DEF SetRoom
    <3> QED
      BY <2>1, <3>1, TriggerKeepsOpenEntry DEF OpenEntryIsRoom
  <2> QED
    BY <2>2, <2>3
<1>2. ASSUME room' = room, entries' = entries
      PROVE  OpenEntryIsRoom'
  BY <1>2 DEF OpenEntryIsRoom
<1> QED
  BY <1>1, <1>2 DEF Next, Begin, Abort, Tick, vars

LEMMA InitInv ==
  Init => TypeOK /\ OpenEntryIsRoom
<1> SUFFICES ASSUME Init PROVE TypeOK /\ OpenEntryIsRoom
  OBVIOUS
<1>1. CASE room = NoRoom
  BY <1>1 DEF Init, TypeOK, OpenEntryIsRoom, Idle, Time, RoomOrNone
<1>2. CASE room # NoRoom
  <2>1. entries = {OpenSince(room, 1)} /\ room \in Room
    BY <1>2 DEF Init, RoomOrNone
  <2>2. OpenSince(room, 1) \in Entry
    BY <2>1 DEF OpenSince, Entry, Forever
  <2>3. {x \in entries : x.to = Forever} = {OpenSince(room, 1)}
    BY <2>1 DEF OpenSince
  <2>4. OpenEntryIsRoom
    <3>1. {e.room : e \in {x \in entries : x.to = Forever}} = {OpenSince(room, 1).room}
      BY <2>3
    <3>2. OpenSince(room, 1).room = room
      BY DEF OpenSince
    <3> QED
      BY <1>2, <3>1, <3>2 DEF OpenEntryIsRoom
  <2> QED
    BY <2>1, <2>2, <2>4 DEF Init, TypeOK, Idle, Time
<1> QED
  BY <1>1, <1>2

(* However transactions overlap, the open entry is the user's room. *)
THEOREM OpenEntryAlwaysRoom ==
  Spec => [](TypeOK /\ OpenEntryIsRoom)
<1>1. TypeOK /\ OpenEntryIsRoom /\ [Next]_vars => (TypeOK /\ OpenEntryIsRoom)'
  BY TypeInductive, OpenEntryInductive
<1> QED
  BY <1>1, InitInv, PTL DEF Spec

(* The trigger does not touch the time before its transaction. *)
LEMMA TriggerKeepsPast ==
  ASSUME TypeOK, NEW r \in RoomOrNone, NEW t \in Time, NEW i \in Time, i < t
  PROVE  {e.room : e \in {x \in History(r, t) : x.from <= i /\ i < x.to}} = RoomsAt(i)
<1> DEFINE Cut(e) == IF e.room = room /\ t < e.to THEN Ended(e, t) ELSE e
<1>1. ASSUME NEW e \in entries
      PROVE  /\ Cut(e).room = e.room
             /\ (Cut(e).from <= i /\ i < Cut(e).to) <=> (e.from <= i /\ i < e.to)
  <2>1. e \in Entry
    BY DEF TypeOK
  <2> QED
    BY <2>1, EndedType, EndedKeepsPast
<1>2. AfterEnd(t) = {Cut(e) : e \in entries}
  BY DEF AfterEnd
<1>3. ~(OpenSince(r, t).from <= i)
  BY DEF OpenSince, Time
<1>4. {x \in History(r, t) : x.from <= i /\ i < x.to} =
        {x \in AfterEnd(t) : x.from <= i /\ i < x.to}
  BY <1>3 DEF History
<1> HIDE DEF Cut
<1>5. {e.room : e \in {x \in AfterEnd(t) : x.from <= i /\ i < x.to}} =
        {e.room : e \in {x \in entries : x.from <= i /\ i < x.to}}
  BY <1>1, <1>2
<1> QED
  BY <1>4, <1>5 DEF RoomsAt

(* Committing a room does not end the transactions of others.              *)
LEMMA OnlyWriterEnds ==
  ASSUME TypeOK, NEW s \in Session, tx[s] # Idle, tx'[s] = Idle,
         NEW x \in Session, SetRoom(x)
  PROVE  x = s
<1>1. CASE x # s
  <2>1. tx'[s] = [tx[s] EXCEPT !.fresh = @ /\ tx[x].target = room]
    BY <1>1 DEF SetRoom
  <2>2. tx[s] \in Transaction /\ tx'[s].start = tx[s].start
    BY <2>1 DEF TypeOK, Transaction
  <2> QED
    BY <2>2 DEF Transaction, Idle, Time
<1> QED
  BY <1>1

(* A transaction changes nothing that the history says of the time before  *)
(* the transaction began.                                                  *)
THEOREM PastAlwaysFixed ==
  Spec => PastIsFixed
<1>1. TypeOK /\ [Next]_vars =>
        [\A s \in Session : tx[s] # Idle /\ tx'[s] = Idle =>
           \A t \in Time : t < tx[s].start => RoomsAt(t)' = RoomsAt(t)]_vars
  <2> SUFFICES ASSUME TypeOK, Next, NEW s \in Session, tx[s] # Idle, tx'[s] = Idle,
                      NEW t \in Time, t < tx[s].start
               PROVE  RoomsAt(t)' = RoomsAt(t)
    BY DEF vars, RoomsAt
  <2>1. CASE entries' = entries
    BY <2>1 DEF RoomsAt
  <2>2. CASE entries' # entries
    <3>1. PICK x \in Session : SetRoom(x)
      BY <2>2 DEF Next, Begin, Abort, Tick
    <3>2. x = s
      BY <3>1, OnlyWriterEnds
    <3>3. tx[s].target \in RoomOrNone /\ tx[s].start \in Time
      BY DEF TypeOK, Transaction
    <3>4. entries' = History(tx[s].target, tx[s].start)
      BY <2>2, <3>1, <3>2 DEF SetRoom
    <3> QED
      BY <3>3, <3>4, TriggerKeepsPast DEF RoomsAt
  <2> QED
    BY <2>1, <2>2
<1> QED
  BY <1>1, OpenEntryAlwaysRoom, PTL DEF Spec, PastIsFixed


(* What is written lies in the past: of the clock, and of every transaction *)
(* that nobody has overtaken.                                               *)
WrittenBy(t) == \A e \in entries : e.from <= t /\ (e.to = Forever \/ e.to <= t)

FreshInv ==
  /\ WrittenBy(now)
  /\ \A s \in Session : tx[s] # Idle /\ tx[s].fresh => WrittenBy(tx[s].start)

LEMMA TriggerWritesPast ==
  ASSUME TypeOK, NEW r \in RoomOrNone, NEW t \in Time, NEW n \in Time, t <= n,
         WrittenBy(n)
  PROVE  \A e \in History(r, t) : e.from <= n /\ (e.to = Forever \/ e.to <= n)
<1> SUFFICES ASSUME NEW e \in History(r, t)
             PROVE  e.from <= n /\ (e.to = Forever \/ e.to <= n)
  OBVIOUS
<1>1. CASE e \in AfterEnd(t)
  <2>1. PICK old \in entries :
          e = IF old.room = room /\ t < old.to THEN Ended(old, t) ELSE old
    BY <1>1 DEF AfterEnd
  <2>2. old \in Entry
    BY DEF TypeOK
  <2>3. Ended(old, t).from <= n /\ Ended(old, t).to <= n
    BY <2>2 DEF Ended, Entry, Time
  <2> QED
    BY <2>1, <2>3 DEF WrittenBy
<1>2. CASE e = OpenSince(r, t)
  BY <1>2 DEF OpenSince
<1> QED
  BY <1>1, <1>2 DEF History

LEMMA FreshInductive ==
  ASSUME TypeOK, FreshInv, [Next]_vars
  PROVE  FreshInv'
<1>1. ASSUME NEW s \in Session, NEW r \in RoomOrNone, Begin(s, r)
      PROVE  FreshInv'
  <2>1. \A x \in Session : tx'[x] = tx[x] \/ tx'[x].start = now
    BY <1>1 DEF Begin, TypeOK
  <2>2. entries' = entries /\ now' = now
    BY <1>1 DEF Begin
  <2> QED
    BY <2>1, <2>2 DEF FreshInv, WrittenBy, Forever
<1>2. ASSUME NEW s \in Session, SetRoom(s)
      PROVE  FreshInv'
  <2>1. /\ tx[s].target \in RoomOrNone
        /\ tx[s].start \in Time /\ now \in Time /\ tx[s].start <= now
    BY <1>2 DEF SetRoom, TypeOK, Transaction
  <2>2. now' = now
    BY <1>2 DEF SetRoom
  <2>3. ASSUME NEW x \in Session, tx'[x] # Idle, tx'[x].fresh
        PROVE  tx[x] # Idle /\ tx[x].fresh /\ tx[s].target = room /\ tx'[x].start = tx[x].start
    <3>1. tx[x] # Idle /\ tx'[x] = [tx[x] EXCEPT !.fresh = @ /\ tx[s].target = room]
      BY <1>2, <2>3 DEF SetRoom
    <3>2. tx[x] \in Transaction
      BY <3>1 DEF TypeOK
    <3> QED
      BY <2>3, <3>1, <3>2 DEF Transaction
  <2>4. CASE tx[s].target = room
    <3>1. entries' = entries
      BY <1>2, <2>4 DEF SetRoom
    <3> QED
      BY <2>2, <2>3, <3>1 DEF FreshInv, WrittenBy, Forever
  <2>5. CASE tx[s].target # room
    <3>1. entries' = History(tx[s].target, tx[s].start)
      BY <1>2, <2>5 DEF SetRoom
    <3>2. WrittenBy(now)'
      BY <2>1, <2>2, <3>1, TriggerWritesPast DEF FreshInv, WrittenBy, Forever
    <3> QED
      BY <2>3, <2>5, <3>2 DEF FreshInv
  <2> QED
    BY <2>4, <2>5
<1>3. ASSUME NEW s \in Session, Abort(s)
      PROVE  FreshInv'
  <2>1. \A x \in Session : tx'[x] = tx[x] \/ tx'[x] = Idle
    BY <1>3 DEF Abort, TypeOK
  <2>2. entries' = entries /\ now' = now
    BY <1>3 DEF Abort
  <2> QED
    BY <2>1, <2>2 DEF FreshInv, WrittenBy, Forever
<1>4. CASE Tick
  <2>1. \A e \in entries : e \in Entry
    BY DEF TypeOK
  <2>2. WrittenBy(now + 1)
    BY <2>1 DEF FreshInv, WrittenBy, TypeOK, Entry, Time, Forever
  <2> QED
    BY <1>4, <2>2 DEF Tick, FreshInv, WrittenBy, Forever
<1>5. CASE UNCHANGED vars
  BY <1>5 DEF vars, FreshInv, WrittenBy, Forever
<1> QED
  BY <1>1, <1>2, <1>3, <1>4, <1>5 DEF Next

(* A transaction that nobody has overtaken finds no entry but that of the  *)
(* present room in the time from its beginning on, and that one it ends.   *)
LEMMA FreshTrigger ==
  ASSUME TypeOK, OpenEntryIsRoom, NEW r \in RoomOrNone, NEW t \in Time, WrittenBy(t),
         NEW i \in Time, t <= i, NEW e \in History(r, t), e.from <= i, i < e.to
  PROVE  e.room = r
<1>1. CASE e \in AfterEnd(t)
  <2>1. PICK old \in entries :
          e = IF old.room = room /\ t < old.to THEN Ended(old, t) ELSE old
    BY <1>1 DEF AfterEnd
  <2>2. old \in Entry
    BY DEF TypeOK
  <2>3. Ended(old, t).to <= t
    BY <2>2 DEF Ended, Entry, Time
  <2>4. ~(i < Ended(old, t).to)
    BY <2>2, <2>3, EndedType DEF Entry, Time, Forever
  <2>5. e = old /\ ~(old.room = room /\ t < old.to)
    BY <2>1, <2>4
  <2>6. old.to = Forever
    BY <2>2, <2>5 DEF WrittenBy, Entry, Time
  <2>7. old.room = room
    BY <2>6 DEF OpenEntryIsRoom
  <2> QED
    BY <2>5, <2>6, <2>7 DEF Time, Forever
<1>2. CASE e = OpenSince(r, t)
  BY <1>2 DEF OpenSince
<1> QED
  BY <1>1, <1>2 DEF History

(* Two entries for two rooms at one time take transactions that overlap.   *)
THEOREM FreshAlwaysKeepsOneRoom ==
  Spec => FreshKeepsOneRoom
<1>1. Init => FreshInv
  BY DEF Init, FreshInv, WrittenBy, OpenSince, Time
<1>2. FreshInv /\ TypeOK /\ [Next]_vars => FreshInv'
  BY FreshInductive
<1>3. TypeOK /\ OpenEntryIsRoom /\ FreshInv /\ [Next]_vars =>
        [\A s \in Session : tx[s] # Idle /\ tx'[s] = Idle /\ tx[s].fresh
           => (OneRoomAtATime => OneRoomAtATime')]_vars
  <2> SUFFICES ASSUME TypeOK, OpenEntryIsRoom, FreshInv, Next,
                      NEW s \in Session, tx[s] # Idle, tx'[s] = Idle, tx[s].fresh,
                      OneRoomAtATime, NEW i \in Time
               PROVE  \A p, q \in RoomsAt(i)' : p = q
    BY DEF OneRoomAtATime
  <2>1. CASE entries' = entries
    BY <2>1 DEF RoomsAt, OneRoomAtATime
  <2>2. CASE entries' # entries
    <3>1. PICK x \in Session : SetRoom(x)
      BY <2>2 DEF Next, Begin, Abort, Tick
    <3>2. x = s
      BY <3>1, OnlyWriterEnds
    <3>3. tx[s].target \in RoomOrNone /\ tx[s].start \in Time
      BY DEF TypeOK, Transaction
    <3>4. entries' = History(tx[s].target, tx[s].start)
      BY <2>2, <3>1, <3>2 DEF SetRoom
    <3>5. CASE i < tx[s].start
      <4>1. RoomsAt(i)' = RoomsAt(i)
        BY <3>3, <3>4, <3>5, TriggerKeepsPast DEF RoomsAt
      <4> QED
        BY <4>1 DEF OneRoomAtATime
    <3>6. CASE tx[s].start <= i
      <4>1. \A e \in entries' : e.from <= i /\ i < e.to => e.room = tx[s].target
        BY <3>3, <3>4, <3>6, FreshTrigger DEF FreshInv
      <4> QED
        BY <4>1 DEF RoomsAt
    <3> QED
      BY <3>3, <3>5, <3>6 DEF Time
  <2> QED
    BY <2>1, <2>2
<1> QED
  BY <1>1, <1>2, <1>3, OpenEntryAlwaysRoom, PTL DEF Spec, FreshKeepsOneRoom
=============================================================================
