---------------------------- MODULE IntervalSets ----------------------------
(***************************************************************************)
(* What the operators of pycroft/helpers/interval.py ought to denote, for  *)
(* every pair of intervals and for the interval sets that a program makes  *)
(* of them.  Denotation is computed on sets of points, which the operators *)
(* never look at.                                                          *)
(***************************************************************************)
EXTENDS Intervals

(* [b, e), also unbounded on either side, also empty: the only intervals   *)
(* that the database keeps.                                                *)
HalfOpen == {ClosedOpen(b, e) : b, e \in Value} \cap IntervalType

(* IntervalSet([i, j]) and its complement *)
SetsOf(I) == LET made == {FromIntervals({i, j}) : i, j \in I}
             IN  made \cup {Complement(s) : s \in made}

Denotes(s, points) == Covered(ToSet(s)) = points

(* The members stay in order and share no point: the two-pointer walks of  *)
(* intersection and merging, and the exclude constraint behind             *)
(* memberships, assume it.                                                 *)
Ordered(s) ==
  /\ ToSet(s) \subseteq IntervalType
  /\ \A m, n \in DOMAIN s : m < n => \A p \in PointsOf(s[m]), q \in PointsOf(s[n]) : p < q

Relates(i, j) ==
  LET P == PointsOf(i)
      Q == PointsOf(j)
  IN  /\ StrictlyBefore(i, j) \/ StrictlyAfter(j, i) => \A p \in P, q \in Q : p < q
      /\ IsBefore(i, j) \/ IsAfter(j, i) => \A p \in P, q \in Q : p <= q
      /\ Overlaps(i, j) <=> P \cap Q # {}
      /\ StrictlyOverlaps(i, j) => Overlaps(i, j)
      /\ Overlaps(i, j) => PointsOf(Intersect(i, j)) = P \cap Q
      /\ Overlaps(i, j) => PointsOf(Join(i, j)) = P \cup Q
      /\ During(i, j) \/ Comprises(j, i) => P \subseteq Q
      /\ StrictlyDuring(i, j) \/ StrictlyContains(j, i) =>
           P \subseteq Q /\ (P # Q \/ i = Unbounded)    \* an infinite bound is less than itself

(* Relations between intervals say what they should of the points, and     *)
(* sets are unions, intersections, differences and complements of points,  *)
(* in order, however their members touch.  Memberships, their evaluation   *)
(* and the fees that depend on it rest on this.                            *)
Denotations ==
  /\ \A v \in Instant : PointsOf(Single(v)) = {2 * v} /\ PointsOf(EmptyAt(v)) = {}
  /\ \A b, e \in Instant : b < e =>
       /\ PointsOf(OpenClosed(b, e)) = PointsOf(Open(b, e)) \cup {2 * e}
       /\ PointsOf(Closed(b, e)) = PointsOf(OpenClosed(b, e)) \cup {2 * b}
  /\ \A i \in HalfOpen, v \in Instant : Includes(i, v) <=> 2 * v \in PointsOf(i)
  /\ \A i, j \in HalfOpen : ~IsEmpty(i) /\ ~IsEmpty(j) => Relates(i, j)
  /\ \A s \in SetsOf(HalfOpen) :
       Ordered(s) /\ Ordered(Complement(s)) /\ Denotes(Complement(s), Point \ Covered(ToSet(s)))
  /\ \A s, t \in SetsOf(HalfOpen) :
       LET P == Covered(ToSet(s))
           Q == Covered(ToSet(t))
       IN  /\ Ordered(UnionOf(s, t)) /\ Denotes(UnionOf(s, t), P \cup Q)
           /\ Ordered(IntersectionOf(s, t)) /\ Denotes(IntersectionOf(s, t), P \cap Q)
           /\ Ordered(Difference(s, t)) /\ Denotes(Difference(s, t), P \ Q)
=============================================================================
