---------------------------- MODULE RingGeometry ----------------------------
(***************************************************************************)
(* The geometric predicates that graphs and rings are built with:          *)
(* orientation, quadrants, envelopes, orientation of a ring                *)
(* (CGAlgorithms::isCCW), point location (RayCrossingCounter), and         *)
(* validity of a LinearRing.  Pure operators over integer coordinates, so  *)
(* the sign of a determinant is exact.                                     *)
(***************************************************************************)
EXTENDS Integers, Sequences, FiniteSets, SequencesExt

\* The function f itself, as a table: TLC evaluates f once per argument.
Table(f) == f @@ <<>>

\* Op(x), with x evaluated once.
With(x, Op(_)) == CHOOSE r \in {Op(v) : v \in {x}} : TRUE

\* The elements of S in the order of the strict total order Less.
SortSet(S, Less(_, _)) ==
    Table([i \in 1..Cardinality(S) |->
        CHOOSE d \in S : Cardinality({e \in S : Less(e, d)}) = i - 1])

\* CoordinateSequence::removeRepeatedPoints: a point equal to the one before is
\* dropped.
removeRepeatedPoints(s) ==
    FlattenSeq([i \in DOMAIN s |-> IF i > 1 /\ s[i] = s[i - 1] THEN <<>> ELSE <<s[i]>>])

Sign(x) == IF x > 0 THEN 1 ELSE IF x < 0 THEN -1 ELSE 0

\* 1 when r is to the left of p -> q, -1 when to the right, 0 when collinear.
orientationIndex(p, q, r) ==
    Sign((q[1] - p[1]) * (r[2] - q[2]) - (r[1] - q[1]) * (q[2] - p[2]))

\* Quadrant::quadrant: NE 0, NW 1, SW 2, SE 3
quadrant(dx, dy) == IF dx >= 0 THEN (IF dy >= 0 THEN 0 ELSE 3)
                               ELSE (IF dy >= 0 THEN 1 ELSE 2)

-----------------------------------------------------------------------------
(* Envelope                                                                *)
Envelope(pts) ==
    LET xs == {pts[i][1] : i \in DOMAIN pts}
        ys == {pts[i][2] : i \in DOMAIN pts}
        least(S) == CHOOSE x \in S : \A y \in S : x <= y
        most(S)  == CHOOSE x \in S : \A y \in S : x >= y
    IN  [minx |-> least(xs), maxx |-> most(xs),
         miny |-> least(ys), maxy |-> most(ys)]

envContains(e, f) == /\ f.minx >= e.minx /\ f.maxx <= e.maxx
                     /\ f.miny >= e.miny /\ f.maxy <= e.maxy

envIntersects(e, f) == /\ f.minx <= e.maxx /\ f.maxx >= e.minx
                       /\ f.miny <= e.maxy /\ f.maxy >= e.miny

-----------------------------------------------------------------------------
(* CGAlgorithms::isCCW looks only at the highest vertex: the orientation   *)
(* of the ring is that of the turn made there.  at(i) is the i-th of the   *)
(* nPts + 1 coordinates, counted from 0; the last one repeats the first.   *)
isCCW(ring) ==
    LET nPts  == Len(ring) - 1
        at(i) == ring[i + 1]
        hi    == CHOOSE i \in 0..nPts :
                    /\ \A j \in 0..nPts  : at(j)[2] <= at(i)[2]
                    /\ \A j \in 0..(i-1) : at(j)[2] <  at(i)[2]
        hiPt  == at(hi)
        \* the k-th candidate before and after the highest point
        before(k) == (hi - k) % (nPts + 1)
        after(k)  == (hi + k) % nPts
        first(cand(_)) ==
            at(cand(CHOOSE k \in 1..(nPts + 1) :
                      /\ at(cand(k)) # hiPt \/ k = nPts + 1
                      /\ \A j \in 1..(k-1) : at(cand(j)) = hiPt))
        prev  == first(before)
        next  == first(after)
        disc  == orientationIndex(prev, hiPt, next)
    IN  /\ prev # hiPt /\ next # hiPt /\ prev # next
        /\ IF disc = 0 THEN prev[1] > next[1] ELSE disc > 0

-----------------------------------------------------------------------------
(* RayCrossingCounter: a ray from p in the positive x direction.           *)
isOnSegment(p, a, b) ==
    /\ ~(a[1] < p[1] /\ b[1] < p[1])
    /\ \/ p = b
       \/ /\ a[2] = p[2] /\ b[2] = p[2]
          /\ \/ a[1] <= p[1] /\ p[1] <= b[1]
             \/ b[1] <= p[1] /\ p[1] <= a[1]
       \/ /\ (a[2] > p[2] /\ b[2] <= p[2]) \/ (b[2] > p[2] /\ a[2] <= p[2])
          /\ orientationIndex(a, b, p) = 0

crossesRay(p, a, b) ==
    /\ ~(a[1] < p[1] /\ b[1] < p[1])
    /\ (a[2] > p[2] /\ b[2] <= p[2]) \/ (b[2] > p[2] /\ a[2] <= p[2])
    /\ orientationIndex(a, b, p) * (IF b[2] < a[2] THEN -1 ELSE 1) > 0

\* An on-segment hit ends the count; otherwise the parity of the crossings
\* decides.
isPointInRing(p, ring) ==
    LET segs == 1..(Len(ring) - 1)
    IN  \/ \E i \in segs : isOnSegment(p, ring[i], ring[i+1])
        \/ Cardinality({i \in segs : crossesRay(p, ring[i], ring[i+1])}) % 2 = 1

-----------------------------------------------------------------------------
(* LineIntersector, as far as "do the two segments meet".                  *)
hasIntersection(p1, p2, q1, q2) ==
    /\ envIntersects(Envelope(<<p1, p2>>), Envelope(<<q1, q2>>))
    /\ orientationIndex(p1, p2, q1) * orientationIndex(p1, p2, q2) <= 0
    /\ orientationIndex(q1, q2, p1) * orientationIndex(q1, q2, p2) <= 0

\* LinearRing::validateConstruction accepts closed rings of 4 points or more;
\* IsValidOp then rejects a ring that passes twice through a point.
isValidRing(ring) ==
    LET n == Len(ring) - 1
    IN  /\ n >= 3
        /\ Head(ring) = Last(ring)
        /\ \A i, j \in 1..n : i < j =>
              /\ ring[i] # ring[j]
              /\ hasIntersection(ring[i], ring[i+1], ring[j], ring[j+1]) =>
                    \* consecutive segments share one vertex and no more
                    \/ /\ j = i + 1
                       /\ ~isOnSegment(ring[i], ring[j], ring[j+1])
                       /\ ~isOnSegment(ring[j+1], ring[i], ring[i+1])
                    \/ /\ i = 1 /\ j = n
                       /\ ~isOnSegment(ring[j], ring[i], ring[i+1])
                       /\ ~isOnSegment(ring[i+1], ring[j], ring[j+1])
=============================================================================
