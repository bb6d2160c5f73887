--------------------------- MODULE SegmentStrings ---------------------------
(***************************************************************************)
(* Segment strings and the places where they are to be split: the          *)
(* LineIntersector of a fixed precision model of scale 1, SegmentNode,     *)
(* SegmentNodeList, NodedSegmentString, HotPixel and NodingValidator.      *)
(* Pure operators.  Coordinates are non-negative integers, positions count *)
(* from 1; a string is [pts |-> its coordinates, nodes |-> its node list], *)
(* and has no repeated points.                                             *)
(***************************************************************************)
EXTENDS RingGeometry

Segments(pts) == 1..(Len(pts) - 1)

-----------------------------------------------------------------------------
(* LineIntersector::computeIntersection                                    *)

\* Envelope::intersects and orientationIndex 0: e lies on the segment a-b.
liesOn(e, a, b) == /\ envContains(Envelope(<<a, b>>), Envelope(<<e>>))
                   /\ orientationIndex(a, b, e) = 0

isProper(p1, p2, q1, q2) ==
    /\ orientationIndex(p1, p2, q1) * orientationIndex(p1, p2, q2) = -1
    /\ orientationIndex(q1, q2, p1) * orientationIndex(q1, q2, p2) = -1

\* java_math_round of the fraction n / d
roundQuotient(n, d) ==
    LET up == IF d > 0 THEN n ELSE -n
        dn == IF d > 0 THEN d ELSE -d
    IN  (2 * up + dn) \div (2 * dn)

\* LineIntersector::intersection, and PrecisionModel::makePrecise of it
properPoint(p1, p2, q1, q2) ==
    LET dx == p2[1] - p1[1]  dy == p2[2] - p1[2]
        ex == q2[1] - q1[1]  ey == q2[2] - q1[2]
        d  == dx * ey - dy * ex
        t  == (q1[1] - p1[1]) * ey - (q1[2] - p1[2]) * ex
    IN  <<roundQuotient(p1[1] * d + t * dx, d), roundQuotient(p1[2] * d + t * dy, d)>>

\* The intersection points: the rounded crossing, or else the end points of
\* one segment that lie on the other (two when the segments overlap).
computeIntersection(p1, p2, q1, q2) ==
    IF isProper(p1, p2, q1, q2)
      THEN {properPoint(p1, p2, q1, q2)}
      ELSE {e \in {q1, q2} : liesOn(e, p1, p2)} \cup {e \in {p1, p2} : liesOn(e, q1, q2)}

isInteriorIntersection(points, p1, p2, q1, q2) ==
    \E e \in points : e \notin {p1, p2} \/ e \notin {q1, q2}

-----------------------------------------------------------------------------
(* SegmentNode and SegmentNodeList                                         *)

\* SegmentNode::isInterior
isInterior(pts, n) == n.coord # pts[n.index]

\* SegmentNode::compareTo: along the string, and within a segment by the
\* progress of its octant, along the longer axis first.
nodeBefore(pts, m, n) ==
    \/ m.index < n.index
    \/ /\ m.index = n.index /\ m.coord # n.coord
       /\ LET dx == pts[m.index + 1][1] - pts[m.index][1]
              dy == pts[m.index + 1][2] - pts[m.index][2]
              sx == IF dx >= 0 THEN 1 ELSE -1
              sy == IF dy >= 0 THEN 1 ELSE -1
              x  == sx * (n.coord[1] - m.coord[1])
              y  == sy * (n.coord[2] - m.coord[2])
          IN  IF dx * sx >= dy * sy THEN x > 0 \/ (x = 0 /\ y > 0)
                                    ELSE y > 0 \/ (y = 0 /\ x > 0)

inOrder(pts, nodes) ==
    With(nodes, LAMBDA ns : SortSet(ns, LAMBDA m, n : nodeBefore(pts, m, n)))

\* NodedSegmentString::addIntersection: a point on the end of the segment is
\* a node of the next one.
intersectionNode(pts, point, i) ==
    [index |-> IF point = pts[i + 1] THEN i + 1 ELSE i, coord |-> point]

addEndpoints(str) ==
    [str EXCEPT !.nodes = @ \cup {[index |-> 1, coord |-> Head(str.pts)],
                                  [index |-> Len(str.pts), coord |-> Last(str.pts)]}]

findCollapsesFromInsertedNodes(str) ==
    LET between(m, n) ==
            n.index - m.index - (IF isInterior(str.pts, n) THEN 0 ELSE 1)
        collapses(sorted) ==
            {sorted[k].index + 1 : k \in {k \in 1..(Len(sorted) - 1) :
                /\ sorted[k].coord = sorted[k + 1].coord
                /\ between(sorted[k], sorted[k + 1]) = 1}}
    IN  With(inOrder(str.pts, str.nodes), collapses)

findCollapsesFromExistingVertices(str) ==
    {i + 1 : i \in {i \in 1..(Len(str.pts) - 2) : str.pts[i] = str.pts[i + 2]}}

addCollapsedNodes(str) ==
    [str EXCEPT !.nodes = @ \cup
        {[index |-> i, coord |-> str.pts[i]] :
            i \in findCollapsesFromInsertedNodes(str) \cup findCollapsesFromExistingVertices(str)}]

\* The node list as addSplitEdges leaves it.
prepared(str) == With(addEndpoints(str), addCollapsedNodes)

\* MUTANT: the copy of the vertices starts one too late.
createSplitEdge_SkipsAVertex(pts, m, n) ==
    LET useIntPt1 == n.index = m.index \/ isInterior(pts, n)
    IN  <<m.coord>> \o SubSeq(pts, m.index + 2, n.index)
                    \o (IF useIntPt1 THEN <<n.coord>> ELSE <<>>)

createSplitEdge(pts, m, n) ==
    LET useIntPt1 == n.index = m.index \/ isInterior(pts, n)
    IN  <<m.coord>> \o SubSeq(pts, m.index + 1, n.index)
                    \o (IF useIntPt1 THEN <<n.coord>> ELSE <<>>)

\* SegmentNodeList::addSplitEdges
splitEdges(str) ==
    LET edges(sorted) == Table([k \in 1..(Len(sorted) - 1) |->
                                    createSplitEdge(str.pts, sorted[k], sorted[k + 1])])
    IN  With(inOrder(str.pts, prepared(str).nodes), edges)

\* NodedSegmentString::getNodedSubstrings
getNodedSubstrings(strs) == FlattenSeq(Table([s \in DOMAIN strs |-> splitEdges(strs[s])]))

\* new NodedSegmentString
NodedSegmentString(pts) == [pts |-> pts, nodes |-> {}]

Strings(lines) == Table([k \in DOMAIN lines |-> NodedSegmentString(lines[k])])

-----------------------------------------------------------------------------
(* MCIndexNoder: every pair of segments, once.  The segments of one        *)
(* monotone chain are not compared; they meet in shared vertices only.     *)

AllSegments(strs) == UNION {{<<s, i>> : i \in Segments(strs[s].pts)} : s \in DOMAIN strs}

crossings(strs, a, b) ==
    computeIntersection(strs[a[1]].pts[a[2]], strs[a[1]].pts[a[2] + 1],
                        strs[b[1]].pts[b[2]], strs[b[1]].pts[b[2] + 1])

hasInterior(strs, a, b, points) ==
    isInteriorIntersection(points, strs[a[1]].pts[a[2]], strs[a[1]].pts[a[2] + 1],
                                   strs[b[1]].pts[b[2]], strs[b[1]].pts[b[2] + 1])

\* IntersectionAdder::isTrivialIntersection.  The second alternative tests
\* the number of points where the last segment is meant, so it never holds.
isTrivialIntersection(strs, a, b, points) ==
    /\ a[1] = b[1] /\ Cardinality(points) = 1
    /\ \/ a[2] - b[2] \in {1, -1}
       \/ /\ Head(strs[a[1]].pts) = Last(strs[a[1]].pts)
          /\ {a[2], b[2]} = {1, Len(strs[a[1]].pts)}

\* The strings with the points of each pair that passes the test added to
\* both of its segments.
addIntersections(strs, Adds(_, _, _)) ==
    LET all == AllSegments(strs)
        new(s) == UNION {UNION {
                    LET points == crossings(strs, <<s, i>>, b)
                    IN  IF b # <<s, i>> /\ points # {} /\ Adds(<<s, i>>, b, points)
                          THEN {intersectionNode(strs[s].pts, e, i) : e \in points}
                          ELSE {}
                    : b \in all} : i \in Segments(strs[s].pts)}
    IN  Table([s \in DOMAIN strs |-> [strs[s] EXCEPT !.nodes = @ \cup new(s)]])

interiorPairs(strs) ==
    LET all == AllSegments(strs)
    IN  {ab \in all \X all :
            LET a == ab[1]  b == ab[2]
            IN  /\ a[1] < b[1] \/ (a[1] = b[1] /\ a[2] < b[2])
                /\ hasInterior(strs, a, b, crossings(strs, a, b))}

\* MUTANT: vertices that only touch are not noded.
withIntersections_InteriorOnly(strs) ==
    addIntersections(strs, LAMBDA a, b, points : hasInterior(strs, a, b, points))

\* IntersectionAdder under MCIndexNoder::computeNodes
withIntersections(strs) ==
    addIntersections(strs, LAMBDA a, b, points : ~isTrivialIntersection(strs, a, b, points))

\* IntersectionFinderAdder: only the interior intersections
withInteriorIntersections(strs) ==
    addIntersections(strs, LAMBDA a, b, points : hasInterior(strs, a, b, points))

interiorIntersections(strs) ==
    UNION {crossings(strs, ab[1], ab[2]) : ab \in interiorPairs(strs)}

-----------------------------------------------------------------------------
(* HotPixel: the unit square around a point, in doubled coordinates.       *)
intersectsPixel(c, p0, p1) ==
    LET x == 2 * c[1]  y == 2 * c[2]
        a == <<2 * p0[1], 2 * p0[2]>>  b == <<2 * p1[1], 2 * p1[2]>>
        corner == <<<<x + 1, y + 1>>, <<x - 1, y + 1>>, <<x - 1, y - 1>>, <<x + 1, y - 1>>>>
        side(k) == <<corner[k], corner[1 + (k % 4)]>>
        meets(k) == hasIntersection(a, b, side(k)[1], side(k)[2])
    IN  /\ envIntersects(Envelope(<<a, b>>), Envelope(corner))
        /\ \/ \E k \in 1..4 : isProper(a, b, side(k)[1], side(k)[2])
           \/ meets(2) /\ meets(3)
           \/ c \in {p0, p1}

\* HotPixel::addSnappedNode on the segments of a string
snappedNodes(pts, c, segs) ==
    {intersectionNode(pts, c, i) : i \in {i \in segs : intersectsPixel(c, pts[i], pts[i + 1])}}

-----------------------------------------------------------------------------
(* NodingValidator                                                         *)

checkEndPtVertexIntersections(lines) ==
    \A e \in {Head(lines[k]) : k \in DOMAIN lines} \cup {Last(lines[k]) : k \in DOMAIN lines} :
        \A k \in DOMAIN lines : \A j \in 2..(Len(lines[k]) - 1) : lines[k][j] # e

checkInteriorIntersections(lines) ==
    LET strs == Strings(lines)
    IN  \A a, b \in AllSegments(strs) : a # b =>
            LET p1 == lines[a[1]][a[2]]  p2 == lines[a[1]][a[2] + 1]
                q1 == lines[b[1]][b[2]]  q2 == lines[b[1]][b[2] + 1]
            IN  ~isProper(p1, p2, q1, q2) /\ ~hasInterior(strs, a, b, crossings(strs, a, b))

checkCollapses(lines) ==
    \A k \in DOMAIN lines : \A i \in 1..(Len(lines[k]) - 2) : lines[k][i] # lines[k][i + 2]

checkValid(lines) == /\ checkEndPtVertexIntersections(lines)
                     /\ checkInteriorIntersections(lines)
                     /\ checkCollapses(lines)
=============================================================================
