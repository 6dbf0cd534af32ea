----------------------------- MODULE Intervals -----------------------------
(***************************************************************************)
(* pycroft/helpers/interval.py: bounds, intervals and sorted sequences of  *)
(* disjoint intervals, operation by operation, and what they denote.       *)
(*                                                                         *)
(* Time is dense, a model is finite: an instant v is the even point 2v,    *)
(* and the odd point 2v + 1 stands for everything between v and v + 1.     *)
(* Comparing two intervals never looks deeper than that.                   *)
(***************************************************************************)
EXTENDS Integers, Sequences, SequencesExt

CONSTANTS
  NegInf,    \* NegativeInfinity and PositiveInfinity; the instants are the
  PosInf     \* integers between them

ASSUME InfinityAssumption == NegInf \in Int /\ PosInf \in Int /\ NegInf + 1 < PosInf

Infinite == {NegInf, PosInf}
Instant  == NegInf + 1 .. PosInf - 1
Value    == NegInf .. PosInf

(* Bound.__new__: an infinite bound is never closed. *)
Bnd(v, closed) == [value |-> v, closed |-> closed /\ v \notin Infinite]

BoundType == {b \in [value: Value, closed: BOOLEAN] : b.value \in Infinite => ~b.closed}

Invert(b) == Bnd(b.value, ~b.closed)

(* Bound.__le__ and __lt__. *)
Leq(a, b)  == \/ a.value < b.value
              \/ a.value = b.value /\ (a.value \in Infinite \/ (a.closed /\ b.closed))
Less(a, b) == \/ a.value < b.value
              \/ a.value = b.value /\ a.value \in Infinite

(* Python's max and min keep the first of two operands that tie. *)
MutMinBound(a, b) == IF Less(a, b) THEN b ELSE a    \* mutation
MaxBound(a, b) == IF Less(a, b) THEN b ELSE a
MinBound(a, b) == IF Less(b, a) THEN b ELSE a

----------------------------------------------------------------------------
(* Intervals. *)

Ival(l, u) == [lower |-> l, upper |-> u]

(* Interval.__new__ raises ValueError on all others. *)
WellFormed(i) == ~Less(i.upper, i.lower)

IntervalType == {i \in [lower: BoundType, upper: BoundType] : WellFormed(i)}

Closed(b, e)     == Ival(Bnd(b, TRUE), Bnd(e, TRUE))
ClosedOpen(b, e) == Ival(Bnd(b, TRUE), Bnd(e, FALSE))
OpenClosed(b, e) == Ival(Bnd(b, FALSE), Bnd(e, TRUE))
Open(b, e)       == Ival(Bnd(b, FALSE), Bnd(e, FALSE))
Single(p)        == Closed(p, p)
EmptyAt(p)       == Open(p, p)
StartingFrom(b)  == ClosedOpen(b, PosInf)
Unbounded        == Open(NegInf, PosInf)

Closure(i) == Closed(i.lower.value, i.upper.value)

IsEmpty(i) == i.lower.value = i.upper.value /\ ~(i.lower.closed /\ i.upper.closed)

Overlaps(i, j) == Leq(i.lower, j.upper) /\ Leq(j.lower, i.upper)

(* Interval.__contains__ *)
Includes(i, v) == Leq(i.lower, Bnd(v, TRUE)) /\ Leq(Bnd(v, TRUE), i.upper)

(* A tie of bounds counts as <= only if both are closed, and as < never.   *)
StrictlyBefore(i, j)   == Less(i.upper, j.lower)
IsBefore(i, j)         == Leq(i.upper, j.lower)
StrictlyAfter(i, j)    == StrictlyBefore(j, i)
IsAfter(i, j)          == IsBefore(j, i)
StrictlyOverlaps(i, j) == Less(i.lower, j.upper) /\ Less(j.lower, i.upper)
StrictlyDuring(i, j)   == Less(j.lower, i.lower) /\ Less(i.upper, j.upper)
During(i, j)           == Leq(j.lower, i.lower) /\ Leq(i.upper, j.upper)
StrictlyContains(i, j) == StrictlyDuring(j, i)
Comprises(i, j)        == During(j, i)

Meets(i, j) == /\ i.upper.value = j.lower.value
               /\ i.upper.closed \/ i.lower.closed

Precedes(i, j) == \/ Less(i.lower, j.lower)
                  \/ i.lower = j.lower /\ Less(i.upper, j.upper)

(* intersect and join, where they do not return None. *)
Intersect(i, j) == Ival(MaxBound(i.lower, j.lower), MinBound(i.upper, j.upper))
Joins(i, j)     == Overlaps(i, j) \/ Meets(i, j)
Join(i, j)      == Ival(MinBound(i.lower, j.lower), MaxBound(i.upper, j.upper))

----------------------------------------------------------------------------
(* Interval sets: the generators over sorted sequences of intervals. *)

(* _join: the last element of the accumulator is top. *)
Added(acc, i) ==
  IF IsEmpty(i) THEN acc
  ELSE IF acc # <<>> /\ Joins(Last(acc), i) THEN Append(Front(acc), Join(Last(acc), i))
  ELSE Append(acc, i)

JoinSorted(s) ==
  LET joined[n \in 0 .. Len(s)] == IF n = 0 THEN <<>> ELSE Added(joined[n - 1], s[n])
  IN  joined[Len(s)]

(* sorted, of different intervals: two of them stay in the wrong order     *)
(* only if each is less than the other.                                    *)
SortedSeq(S) ==
  CHOOSE s \in [1 .. Cardinality(S) -> S] :
    /\ ToSet(s) = S
    /\ \A m, n \in DOMAIN s : m < n /\ Precedes(s[n], s[m]) => Precedes(s[m], s[n])

(* _mangle_argument, for an iterable. *)
FromIntervals(S) == JoinSorted(SortedSeq(S))

(* Two sequences are walked along: left and right are the next positions.  *)
WalkBegin == [left |-> 1, right |-> 1, out |-> <<>>]

(* _chain_ordered: a merge that takes from the right when neither is less. *)
ChainStep(s, t, w) ==
  IF w.left <= Len(s) /\ (w.right <= Len(t) => Precedes(s[w.left], t[w.right]))
  THEN [left |-> w.left + 1, right |-> w.right, out |-> Append(w.out, s[w.left])]
  ELSE [left |-> w.left, right |-> w.right + 1, out |-> Append(w.out, t[w.right])]

ChainOrdered(s, t) ==
  LET walk[n \in 0 .. Len(s) + Len(t)] == IF n = 0 THEN WalkBegin ELSE ChainStep(s, t, walk[n - 1])
  IN  walk[Len(s) + Len(t)].out

UnionOf(s, t) == JoinSorted(ChainOrdered(s, t))

(* _complement: what lies before the first, between and after the last. *)
Gaps(s) == [n \in 1 .. Len(s) - 1 |-> Ival(Invert(s[n].upper), Invert(s[n + 1].lower))]
GapBefore(s) == <<Ival(Bnd(NegInf, FALSE), Invert(s[1].lower))>>
GapAfter(s)  == <<Ival(Invert(Last(s).upper), Bnd(PosInf, FALSE))>>

Complement(s) ==
  IF s = <<>> THEN <<Unbounded>>
  ELSE (IF s[1].lower.value \in Infinite THEN <<>> ELSE GapBefore(s))
       \o Gaps(s)
       \o (IF Last(s).upper.value \in Infinite THEN <<>> ELSE GapAfter(s))

(* _intersect: advance the side whose interval ends first. *)
Common(i, j) == IF Overlaps(i, j) /\ ~IsEmpty(Intersect(i, j)) THEN <<Intersect(i, j)>> ELSE <<>>

IntersectStep(s, t, w) ==
  IF w.left > Len(s) \/ w.right > Len(t) THEN w
  ELSE LET out == w.out \o Common(s[w.left], t[w.right])
       IN  IF Less(s[w.left].upper, t[w.right].upper)
           THEN [left |-> w.left + 1, right |-> w.right, out |-> out]
           ELSE [left |-> w.left, right |-> w.right + 1, out |-> out]

IntersectionOf(s, t) ==
  LET walk[n \in 0 .. Len(s) + Len(t)] == IF n = 0 THEN WalkBegin ELSE IntersectStep(s, t, walk[n - 1])
  IN  walk[Len(s) + Len(t)].out

Difference(s, t) == IntersectionOf(s, Complement(t))

----------------------------------------------------------------------------
(* What they denote. *)

Point == 2 * NegInf + 1 .. 2 * PosInf - 1

PointsOf(i) ==
  {p \in Point : /\ 2 * i.lower.value < p \/ (i.lower.closed /\ 2 * i.lower.value = p)
                 /\ p < 2 * i.upper.value \/ (i.upper.closed /\ 2 * i.upper.value = p)}

Covered(S) == UNION {PointsOf(i) : i \in S}

=============================================================================
