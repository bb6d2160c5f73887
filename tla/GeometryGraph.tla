--------------------------- MODULE GeometryGraph ----------------------------
(***************************************************************************)
(* What a GeometryGraph makes of one argument of an operation: an edge for *)
(* every ring and line, with the label that tells on which side the        *)
(* interior is; the labelled nodes; the intersections of edges with each   *)
(* other, recorded on the edges (EdgeIntersectionList); and the edges      *)
(* split there.  Point location in an argument is here too.                *)
(*                                                                         *)
(* A geometry is a record of its polygons, lines and points; "multi" tells *)
(* a MultiPolygon from a Polygon.  Vertices are pairs of integers, and     *)
(* segments meet in points with integer coordinates.                       *)
(***************************************************************************)
EXTENDS RingGeometry, TLC

-----------------------------------------------------------------------------
(* The labels geomgraph attaches to nodes and edges: for each of the two    *)
(* input geometries a TopologyLocation says where the node or edge lies     *)
(* with respect to it.  A line (or point) location is ON only; an area      *)
(* location has a left and a right side too.  Depth counts how many         *)
(* coincident area edges have their interior on each side.                  *)

INTERIOR == "interior"
BOUNDARY == "boundary"
EXTERIOR == "exterior"
UNDEF    == "undef"
Location == {INTERIOR, BOUNDARY, EXTERIOR, UNDEF}

ON    == 1
LEFT  == 2
RIGHT == 3
opposite(pos) == IF pos = LEFT THEN RIGHT ELSE LEFT

TopologyLocation == [1..1 -> Location] \cup [1..3 -> Location]

-----------------------------------------------------------------------------
(* TopologyLocation                                                        *)
get(tl, pos)  == IF pos \in DOMAIN tl THEN tl[pos] ELSE UNDEF
isNullTL(tl)  == \A i \in DOMAIN tl : tl[i] = UNDEF
isAnyNullTL(tl) == \E i \in DOMAIN tl : tl[i] = UNDEF
isAreaTL(tl)  == Len(tl) > 1
flipTL(tl)    == IF Len(tl) <= 1 THEN tl ELSE <<tl[ON], tl[RIGHT], tl[LEFT]>>
setAllIfNull(tl, loc) ==
    [i \in DOMAIN tl |-> IF tl[i] = UNDEF THEN loc ELSE tl[i]]

\* The loop runs over the size the location had before it was widened, so the
\* sides of a location that has just become an area stay undefined.
mergeTL(tl, gl) ==
    [i \in 1..(IF Len(gl) > Len(tl) THEN 3 ELSE Len(tl)) |->
        IF i > Len(tl) THEN UNDEF
        ELSE IF tl[i] = UNDEF THEN get(gl, i) ELSE tl[i]]

-----------------------------------------------------------------------------
(* Label: a TopologyLocation for geometry 0 and one for geometry 1.        *)
Arg == 0..1
Label == [Arg -> TopologyLocation]

NullLabel == [i \in Arg |-> <<UNDEF>>]
LineLabel(arg, on) == [NullLabel EXCEPT ![arg] = <<on>>]
AreaLabel(arg, on, left, right) ==
    [i \in Arg |-> IF i = arg THEN <<on, left, right>> ELSE <<UNDEF, UNDEF, UNDEF>>]

getLocation(lbl, i, pos) == get(lbl[i], pos)
isNull(lbl, i)    == isNullTL(lbl[i])
isAnyNull(lbl, i) == isAnyNullTL(lbl[i])
isAreaAt(lbl, i)  == isAreaTL(lbl[i])
isArea(lbl)       == isAreaAt(lbl, 0) \/ isAreaAt(lbl, 1)
isLineAt(lbl, i)  == Len(lbl[i]) = 1
allPositionsEqual(lbl, i, loc) == \A k \in DOMAIN lbl[i] : lbl[i][k] = loc
flip(lbl)         == [i \in Arg |-> flipTL(lbl[i])]
merge(lbl, other) == [i \in Arg |-> mergeTL(lbl[i], other[i])]
toLineLabel(lbl)  == [i \in Arg |-> <<get(lbl[i], ON)>>]
toLine(tl)        == IF isAreaTL(tl) THEN <<tl[ON]>> ELSE tl
getGeometryCount(lbl) == (IF isNull(lbl, 0) THEN 0 ELSE 1) + (IF isNull(lbl, 1) THEN 0 ELSE 1)

-----------------------------------------------------------------------------
(* Depth: depth[i][side], with -1 for a side that was never set.           *)
NULL_VALUE == -1
NullDepth == [i \in Arg |-> [s \in LEFT..RIGHT |-> NULL_VALUE]]

isNullDepth(d) == \A i \in Arg, s \in LEFT..RIGHT : d[i][s] = NULL_VALUE
isNullDepthAt(d, i) == d[i][LEFT] = NULL_VALUE

depthAtLocation(loc) == IF loc = INTERIOR THEN 1 ELSE 0

addDepth(d, lbl) ==
    [i \in Arg |-> [s \in LEFT..RIGHT |->
        LET loc == getLocation(lbl, i, s)
        IN  IF loc \notin {EXTERIOR, INTERIOR} THEN d[i][s]
            ELSE depthAtLocation(loc) + IF d[i][s] = NULL_VALUE THEN 0 ELSE d[i][s]]]

\* Depths reduced by the same amount so that the smaller is 0, the other 0 or 1.
normalize(d) ==
    [i \in Arg |->
        IF isNullDepthAt(d, i) THEN d[i]
        ELSE LET least == IF d[i][RIGHT] < d[i][LEFT] THEN d[i][RIGHT] ELSE d[i][LEFT]
             IN  [s \in LEFT..RIGHT |-> IF d[i][s] > least /\ d[i][s] > 0 THEN 1 ELSE 0]]

getDelta(d, i) == d[i][RIGHT] - d[i][LEFT]
depthLocation(d, i, s) == IF d[i][s] <= 0 THEN EXTERIOR ELSE INTERIOR
-----------------------------------------------------------------------------
(* Arguments.                                                              *)

isAreal(g) == Len(g.polys) > 0

polyRings(p) == <<p.shell>> \o p.holes

geomPoints(g) ==
    LET seqs == FlattenSeq([i \in DOMAIN g.polys |-> polyRings(g.polys[i])]) \o g.lines
    IN  FlattenSeq(seqs) \o g.points

geomEnv(g) == Envelope(geomPoints(g))

-----------------------------------------------------------------------------
(* Edges and nodes of an argument.                                         *)

\* The sides are given for a clockwise ring and swapped for the others.
addPolygonRing(arg, ring, cwLeft, cwRight) ==
    LET coord == removeRepeatedPoints(ring)
    IN  IF Len(coord) < 4 THEN <<>>
        ELSE <<[pts |-> coord,
                label |-> IF isCCW(coord)
                          THEN AreaLabel(arg, BOUNDARY, cwRight, cwLeft)
                          ELSE AreaLabel(arg, BOUNDARY, cwLeft, cwRight)]>>

addPolygon(arg, p) ==
    addPolygonRing(arg, p.shell, EXTERIOR, INTERIOR)
        \o FlattenSeq([i \in DOMAIN p.holes |->
                         addPolygonRing(arg, p.holes[i], INTERIOR, EXTERIOR)])

addLineString(arg, line) ==
    LET coord == removeRepeatedPoints(line)
    IN  IF Len(coord) < 2 THEN <<>>
        ELSE <<[pts |-> coord, label |-> LineLabel(arg, INTERIOR)]>>

edgesOf(arg, g) ==
    FlattenSeq([i \in DOMAIN g.polys |-> addPolygon(arg, g.polys[i])])
        \o FlattenSeq([i \in DOMAIN g.lines |-> addLineString(arg, g.lines[i])])

\* A node map is a function from coordinates to locations.
insertPoint(nodes, p, loc) == (p :> loc) @@ nodes

locationAt(nodes, p) == IF p \in DOMAIN nodes THEN nodes[p] ELSE UNDEF

\* The mod-2 rule: an endpoint of a second line is an interior point again.
insertBoundaryPoint(nodes, p) ==
    insertPoint(nodes, p, IF locationAt(nodes, p) = BOUNDARY THEN INTERIOR ELSE BOUNDARY)

nodesOf(arg, g) ==
    LET addEdge(nodes, e) ==
            IF isArea(e.label) THEN insertPoint(nodes, e.pts[1], BOUNDARY)
            ELSE insertBoundaryPoint(insertBoundaryPoint(nodes, e.pts[1]), Last(e.pts))
        ofEdges == FoldLeft(addEdge, <<>>, edgesOf(arg, g))
    IN  FoldLeft(LAMBDA nodes, p : insertPoint(nodes, p, INTERIOR), ofEdges, g.points)

\* An EdgeIntersectionList is ordered along its edge.
inOrder(ei) == SortSet(ei, LAMBDA x, y : x[1] < y[1] \/ (x[1] = y[1] /\ x[2] < y[2]))

\* addSelfIntersectionNode for each recorded intersection of each edge.
addSelfIntersectionNodes(nodes, arg, g, es, ei) ==
    LET one(loc, ns, p) ==
            IF locationAt(ns, p) = BOUNDARY THEN ns
            ELSE IF loc = BOUNDARY /\ ~g.multi THEN insertBoundaryPoint(ns, p)
            ELSE insertPoint(ns, p, loc)
        ofEdge(ns, k) ==
            FoldLeft(LAMBDA m, x : one(getLocation(es[k].label, arg, ON), m, x[3]),
                     ns, inOrder(ei[k]))
    IN  FoldLeft(ofEdge, nodes, [k \in DOMAIN es |-> k])

-----------------------------------------------------------------------------
(* LineIntersector::computeIntersection: the set of one or two points in   *)
(* which two segments meet.                                                *)
inSpan(x, a, b) == (a <= x /\ x <= b) \/ (b <= x /\ x <= a)
inSegEnv(p, a, b) == inSpan(p[1], a[1], b[1]) /\ inSpan(p[2], a[2], b[2])

\* Two segments that cross in the interior of both.
properPoint(p1, p2, q1, q2) ==
    LET dx == p2[1] - p1[1]      dy == p2[2] - p1[2]
        ex == q2[1] - q1[1]      ey == q2[2] - q1[2]
        den == dx * ey - dy * ex
        num == (q1[1] - p1[1]) * ey - (q1[2] - p1[2]) * ex
    IN  <<p1[1] + (Sign(den) * num * dx) \div (Sign(den) * den),
          p1[2] + (Sign(den) * num * dy) \div (Sign(den) * den)>>

computeIntersection(p1, p2, q1, q2) ==
    LET a == orientationIndex(p1, p2, q1)
        b == orientationIndex(p1, p2, q2)
        c == orientationIndex(q1, q2, p1)
        d == orientationIndex(q1, q2, p2)
        ends == {x \in {p1, p2} : inSegEnv(x, q1, q2) /\ (IF x = p1 THEN c ELSE d) = 0}
                \cup {x \in {q1, q2} : inSegEnv(x, p1, p2) /\ (IF x = q1 THEN a ELSE b) = 0}
    IN  IF a * b > 0 \/ c * d > 0 THEN {}
        ELSE IF 0 \in {a, b, c, d} THEN ends
        ELSE {properPoint(p1, p2, q1, q2)}

\* Proper: in the interior of both segments.
isProper(p1, p2, q1, q2) ==
    /\ orientationIndex(p1, p2, q1) * orientationIndex(p1, p2, q2) < 0
    /\ orientationIndex(q1, q2, p1) * orientationIndex(q1, q2, p2) < 0

-----------------------------------------------------------------------------
(* Edge::addIntersection: a recorded intersection is the 0-based index of  *)
(* the segment, the distance along it, and the point; a point on the next  *)
(* vertex is recorded there.                                               *)
Abs(x) == IF x < 0 THEN -x ELSE x
Larger(x, y) == IF x < y THEN y ELSE x

computeEdgeDistance(p, p0, p1) ==
    LET dx == Abs(p1[1] - p0[1])
        dy == Abs(p1[2] - p0[2])
    IN  IF p = p0 THEN 0
        ELSE IF p = p1 THEN Larger(dx, dy)
        ELSE IF dx > dy THEN Abs(p[1] - p0[1]) ELSE Abs(p[2] - p0[2])

addIntersection(pts, seg, p) ==
    IF p = pts[seg + 2] THEN <<seg + 1, 0, p>>
    ELSE <<seg, computeEdgeDistance(p, pts[seg + 1], pts[seg + 2]), p>>

\* A shared vertex of neighbouring segments of one edge.  The test meant for
\* the two ends of a closed edge compares with an index no segment has.
isTrivialIntersection(same, n, i, j, npts, closed) ==
    /\ same /\ n = 1
    /\ \/ Abs(i - j) = 1
       \/ closed /\ {i, j} = {0, npts - 1}

\* The intersections of edge e with edge f, as recorded on e.
intersectionsOn(e, f, same) ==
    LET segs(pts) == 0..(Len(pts) - 2)
        meet(i, j) == computeIntersection(e[i + 1], e[i + 2], f[j + 1], f[j + 2])
        closed == Head(e) = Last(e)
    IN  UNION {LET m == meet(s[1], s[2])
               IN  IF isTrivialIntersection(same, Cardinality(m), s[1], s[2], Len(e), closed)
                   THEN {} ELSE {addIntersection(e, s[1], x) : x \in m} :
               s \in {t \in segs(e) \X segs(f) : ~(same /\ t[1] = t[2])}}

\* computeSelfNodes, for the edges sel: rings are noded with other rings only;
\* lines also with themselves.
selfIntersections(g, es, sel) ==
    LET partners(k) == IF isAreal(g) THEN sel \ {k} ELSE sel
    IN  [k \in DOMAIN es |-> IF k \notin sel THEN {}
            ELSE UNION {intersectionsOn(es[k].pts, es[m].pts, k = m) : m \in partners(k)}]

-----------------------------------------------------------------------------
(* EdgeIntersectionList::addSplitEdges                                     *)
createSplitEdge(e, ei0, ei1) ==
    [pts |-> <<ei0[3]>> \o SubSeq(e.pts, ei0[1] + 2, ei1[1] + 1)
                 \o (IF ei1[2] > 0 \/ ei1[3] # e.pts[ei1[1] + 1] THEN <<ei1[3]>> ELSE <<>>),
     label |-> e.label]

\* addEndpoints: the ends of the edge are in its list too
withEndpoints(e, ei) ==
    LET n == Len(e.pts)
    IN  inOrder(ei \cup {<<0, 0, e.pts[1]>>, <<n - 1, 0, e.pts[n]>>})

addSplitEdges(e, ei) ==
    LET s == withEndpoints(e, ei)
    IN  [k \in 1..(Len(s) - 1) |-> createSplitEdge(e, s[k], s[k + 1])]

-----------------------------------------------------------------------------
(* Point location.                                                         *)
isOnLine(p, pts) == \E i \in 1..(Len(pts) - 1) :
    inSegEnv(p, pts[i], pts[i + 1]) /\ orientationIndex(pts[i], pts[i + 1], p) = 0

\* Mutant: holes are not looked at.
containsPointInPolygon_ShellOnly(p, poly) == isPointInRing(p, poly.shell)

\* SimplePointInAreaLocator::locate: only areas count, and a point on the
\* boundary of a hole is outside.
containsPointInPolygon(p, poly) ==
    /\ isPointInRing(p, poly.shell)
    /\ \A i \in DOMAIN poly.holes : ~isPointInRing(p, poly.holes[i])

locateInArea(p, g) ==
    IF \E i \in DOMAIN g.polys : containsPointInPolygon(p, g.polys[i])
    THEN INTERIOR ELSE EXTERIOR

\* PointLocator::locate
locateInPolygonRing(p, ring) ==
    IF isOnLine(p, ring) THEN BOUNDARY
    ELSE IF isPointInRing(p, ring) THEN INTERIOR ELSE EXTERIOR

locateInPolygon(p, poly) ==
    LET shellLoc == locateInPolygonRing(p, poly.shell)
        holeLocs == {locateInPolygonRing(p, poly.holes[i]) : i \in DOMAIN poly.holes}
    IN  IF shellLoc # INTERIOR THEN shellLoc
        ELSE IF INTERIOR \in holeLocs THEN EXTERIOR
        ELSE IF BOUNDARY \in holeLocs THEN BOUNDARY ELSE INTERIOR

locateOnLine(p, line) ==
    IF Head(line) # Last(line) /\ p \in {Head(line), Last(line)} THEN BOUNDARY
    ELSE IF isOnLine(p, line) THEN INTERIOR ELSE EXTERIOR

locate(p, g) ==
    LET locs == [i \in DOMAIN g.polys |-> locateInPolygon(p, g.polys[i])]
                    \o [i \in DOMAIN g.lines |-> locateOnLine(p, g.lines[i])]
        numBoundaries == Cardinality({i \in DOMAIN locs : locs[i] = BOUNDARY})
        isIn == INTERIOR \in ToSet(locs) \/ p \in ToSet(g.points)
    IN  IF numBoundaries % 2 = 1 THEN BOUNDARY
        ELSE IF numBoundaries > 0 \/ isIn THEN INTERIOR ELSE EXTERIOR

-----------------------------------------------------------------------------
(* Labelling.  Around a node in CCW order one moves from the right to the  *)
(* left side of each edge.  propagateSideLabels(tls) gives the             *)
(* locations tls of the edges for one argument, completed where an area    *)
(* edge of that argument tells them, and whether they were consistent.     *)
propagateSideLabels(tls) ==
    LET sided == {k \in DOMAIN tls : isAreaTL(tls[k]) /\ tls[k][LEFT] # UNDEF}
        last  == CHOOSE k \in sided : \A j \in sided : j <= k
        visit(acc, tl) ==
            LET on == IF tl[ON] = UNDEF THEN acc.curr ELSE tl[ON]
            IN  IF ~isAreaTL(tl)
                THEN [acc EXCEPT !.out = Append(@, <<on>>)]
                ELSE IF tl[RIGHT] = UNDEF
                THEN [acc EXCEPT !.out = Append(@, <<on, acc.curr, acc.curr>>)]
                ELSE [ok   |-> acc.ok /\ tl[RIGHT] = acc.curr,
                      curr |-> tl[LEFT],
                      out  |-> Append(acc.out, <<on, tl[LEFT], tl[RIGHT]>>)]
        start(loc) == [ok |-> TRUE, curr |-> loc, out |-> <<>>]
    IN  IF sided = {} THEN [start(UNDEF) EXCEPT !.out = tls]
        ELSE FoldLeft(visit, start(tls[last][LEFT]), tls)

\* Edges that still have no location for an argument: the node decides, unless
\* an edge of that argument collapsed here.
completeLabels(tls, n, g) ==
    LET collapsed == \E k \in DOMAIN tls : tls[k] = <<BOUNDARY>>
        loc == IF collapsed THEN EXTERIOR ELSE locateInArea(n, g)
    IN  IF \E k \in DOMAIN tls : isAnyNullTL(tls[k])
        THEN [k \in DOMAIN tls |-> setAllIfNull(tls[k], loc)] ELSE tls

-----------------------------------------------------------------------------
(* The order of edges around a node, and of nodes.                         *)
compareDirection(p, q) ==
    LET quad(s) == quadrant(s[2][1] - s[1][1], s[2][2] - s[1][2])
    IN  IF quad(p) # quad(q) THEN Sign(quad(p) - quad(q))
        ELSE orientationIndex(q[1], q[2], p[2])

\* The nodes in the order of the node map.
sortNodes(ns) == SortSet(ns, LAMBDA p, q : p[1] < q[1] \/ (p[1] = q[1] /\ p[2] < q[2]))

-----------------------------------------------------------------------------
(* EdgeEndBuilder: stubs [from, to, label] on both sides of each recorded  *)
(* intersection s[k].  A stub ends at the next vertex or intersection.     *)
createEdgeEndForPrev(e, s, k) ==
    LET iPrev == IF s[k][2] = 0 THEN s[k][1] - 1 ELSE s[k][1]
        pPrev == IF k > 1 /\ s[k - 1][1] >= iPrev THEN s[k - 1][3] ELSE e.pts[iPrev + 1]
    IN  IF iPrev < 0 THEN <<>>
        ELSE <<[from |-> s[k][3], to |-> pPrev, label |-> flip(e.label)]>>

createEdgeEndForNext(e, s, k) ==
    LET same  == k < Len(s) /\ s[k + 1][1] = s[k][1]
        pNext == IF same THEN s[k + 1][3] ELSE e.pts[s[k][1] + 2]
    IN  IF s[k][1] + 1 >= Len(e.pts) /\ k = Len(s) THEN <<>>
        ELSE <<[from |-> s[k][3], to |-> pNext, label |-> e.label]>>

computeEdgeEnds(e, x) ==
    LET s == withEndpoints(e, x)
    IN  FlattenSeq([k \in DOMAIN s |-> createEdgeEndForPrev(e, s, k) \o createEdgeEndForNext(e, s, k)])

\* EdgeEndBundleStar::insert: stubs in the same direction are one bundle.
bundles(ends, p) ==
    LET at   == SelectSeq(ends, LAMBDA x : x.from = p)
        same(x, y) == compareDirection(<<p, x.to>>, <<p, y.to>>) = 0
        first == {k \in DOMAIN at : ~\E j \in 1..(k - 1) : same(at[j], at[k])}
        order == SortSet(first, LAMBDA j, k : compareDirection(<<p, at[j].to>>, <<p, at[k].to>>) < 0)
    IN  [n \in DOMAIN order |-> LET all == SelectSeq(at, LAMBDA x : same(x, at[order[n]]))
                                IN  [k \in DOMAIN all |-> all[k].label]]

\* EdgeEndBundle::computeLabel: a boundary counts by the mod-2 rule and goes
\* before the interior; on a side the interior goes before the exterior.
bundleLabel(ls) ==
    LET at(i, pos) == {getLocation(ls[k], i, pos) : k \in DOMAIN ls}
        onBoundary(i) == Cardinality({k \in DOMAIN ls : getLocation(ls[k], i, ON) = BOUNDARY})
        on(i) == IF onBoundary(i) > 0 THEN (IF onBoundary(i) % 2 = 1 THEN BOUNDARY ELSE INTERIOR)
                 ELSE IF INTERIOR \in at(i, ON) THEN INTERIOR ELSE UNDEF
        side(i, pos) == IF INTERIOR \in at(i, pos) THEN INTERIOR
                        ELSE IF EXTERIOR \in at(i, pos) THEN EXTERIOR ELSE UNDEF
    IN  [i \in Arg |-> IF \E k \in DOMAIN ls : isArea(ls[k])
                       THEN <<on(i), side(i, LEFT), side(i, RIGHT)>> ELSE <<on(i)>>]
=============================================================================
