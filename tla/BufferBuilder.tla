---------------------------- MODULE BufferBuilder ----------------------------
(***************************************************************************)
(* operation/buffer: BufferBuilder::buffer, with OffsetCurveSetBuilder,    *)
(* OffsetCurveBuilder and OffsetSegmentGenerator, BufferSubgraph,          *)
(* RightmostEdgeFinder and SubgraphDepthLocater.  Raw offset curves are    *)
(* made of the parts of a geometry and noded; each connected part of the   *)
(* graph gets the depths of its sides, starting from the outside at its    *)
(* rightmost edge; the edges between depth 0 and more bound the buffer.    *)
(* The polygons are built as for an overlay, one subgraph after the other. *)
(*                                                                         *)
(* Segments are axis-parallel and joins and caps are straight, so that     *)
(* every point of a curve has integer coordinates, and no vertex is close  *)
(* enough to another for BufferInputLineSimplifier to drop it.             *)
(***************************************************************************)
EXTENDS OverlayOp

CONSTANT Buffered       \* pairs of a geometry and the parameters of a buffer

VARIABLES
    bufParams,          \* distance, cap ("square" or "flat"), join ("mitre" or "bevel"), singleSided
    depth,              \* the depths of the sides of the directed edges, NULL until they are set
    waiting, processed, \* the subgraphs still to be built, and those built
    subgraph,           \* the one at hand, or NULL
    visited             \* the directed edges a traversal of it has visited
bufferVars == <<bufParams, depth, waiting, processed, subgraph, visited>>

Strings == INSTANCE SegmentStrings

distance == bufParams.distance

-----------------------------------------------------------------------------
(* OffsetSegmentGenerator: a curve is built by adding points to it.        *)
addPts(curve, ps) ==
    FoldLeft(LAMBDA acc, p : IF acc # <<>> /\ Last(acc) = p THEN acc ELSE Append(acc, p), curve, ps)

closeRing(curve) ==
    IF curve = <<>> \/ Head(curve) = Last(curve) THEN curve ELSE Append(curve, Head(curve))

computeOffsetSegment(p, q, side, d) ==
    LET sideSign == IF side = LEFT THEN 1 ELSE -1
        ux == sideSign * d * Sign(q[1] - p[1])
        uy == sideSign * d * Sign(q[2] - p[2])
    IN  << <<p[1] - uy, p[2] + ux>>, <<q[1] - uy, q[2] + ux>> >>

midpoint(p, q) == <<(p[1] + q[1]) \div 2, (p[2] + q[2]) \div 2>>

\* The segments that turn back get a straight end.
addCollinear(s0, s1, s2, offset0, offset1, addStartPoint) ==
    IF Cardinality(computeIntersection(s0, s1, s1, s2)) < 2 THEN <<>>
    ELSE (IF addStartPoint THEN <<offset0[2]>> ELSE <<>>) \o <<offset1[1]>>

\* A mitre is within its limit at a right angle.
addOutsideTurn(offset0, offset1) ==
    IF bufParams.join = "mitre"
    THEN IF offset0[1][2] = offset0[2][2] THEN << <<offset1[1][1], offset0[2][2]>> >>
                                          ELSE << <<offset0[2][1], offset1[1][2]>> >>
    ELSE <<offset0[2], offset1[1]>>

\* Mutant: offset segments that do not meet are joined directly.
addInsideTurn_Direct(s1, offset0, offset1) ==
    LET meet == computeIntersection(offset0[1], offset0[2], offset1[1], offset1[2])
    IN  IF meet # {} THEN <<CHOOSE p \in meet : TRUE>> ELSE <<offset0[2], offset1[1]>>

\* Offset segments that do not meet are joined through points half way to the
\* vertex.
addInsideTurn(s1, offset0, offset1) ==
    LET meet == computeIntersection(offset0[1], offset0[2], offset1[1], offset1[2])
    IN  IF meet # {} THEN <<CHOOSE p \in meet : TRUE>>
        ELSE <<offset0[2], midpoint(offset0[2], s1), midpoint(offset1[1], s1), offset1[1]>>

\* addNextSegment: what the turn at s1 adds to a curve on the given side.
turnAt(s0, s1, s2, side, d, addStartPoint) ==
    LET offset0 == computeOffsetSegment(s0, s1, side, d)
        offset1 == computeOffsetSegment(s1, s2, side, d)
        orientation == orientationIndex(s0, s1, s2)
    IN  IF orientation = 0 THEN addCollinear(s0, s1, s2, offset0, offset1, addStartPoint)
        ELSE IF orientation = (IF side = LEFT THEN -1 ELSE 1) THEN addOutsideTurn(offset0, offset1)
        ELSE addInsideTurn(s1, offset0, offset1)

addLineEndCap(p0, p1, d) ==
    LET offsetL == computeOffsetSegment(p0, p1, LEFT, d)[2]
        offsetR == computeOffsetSegment(p0, p1, RIGHT, d)[2]
        dx == IF bufParams.cap = "square" THEN d * Sign(p1[1] - p0[1]) ELSE 0
        dy == IF bufParams.cap = "square" THEN d * Sign(p1[2] - p0[2]) ELSE 0
    IN  << <<offsetL[1] + dx, offsetL[2] + dy>>, <<offsetR[1] + dx, offsetR[2] + dy>> >>

createSquare(p, d) ==
    << <<p[1] + d, p[2] + d>>, <<p[1] + d, p[2] - d>>, <<p[1] - d, p[2] - d>>, <<p[1] - d, p[2] + d>> >>

-----------------------------------------------------------------------------
(* OffsetCurveBuilder                                                      *)

\* The left side of a line up to its last segment.
leftSide(pts, d) ==
    LET n == Len(pts)
    IN  FlattenSeq([i \in 1..(n - 2) |-> turnAt(pts[i], pts[i + 1], pts[i + 2], LEFT, d, TRUE)])
          \o <<computeOffsetSegment(pts[n - 1], pts[n], LEFT, d)[2]>>

computeLineBufferCurve(pts, d) ==
    LET n == Len(pts)
        back == Reverse(pts)
    IN  leftSide(pts, d) \o addLineEndCap(pts[n - 1], pts[n], d)
          \o leftSide(back, d) \o addLineEndCap(back[n - 1], back[n], d)

computeSingleSidedBufferCurve(pts, isRightSide, d) ==
    LET side == IF isRightSide THEN Reverse(pts) ELSE pts
    IN  Reverse(side) \o <<computeOffsetSegment(side[1], side[2], LEFT, d)[1]>> \o leftSide(side, d)

\* getLineCurve
lineCurve(pts, nDistance) ==
    LET d == Abs(nDistance)
        added == IF Len(pts) <= 1
                 THEN IF bufParams.cap = "square" THEN createSquare(pts[1], nDistance) ELSE <<>>
                 ELSE IF bufParams.singleSided
                 THEN computeSingleSidedBufferCurve(pts, nDistance < 0, d)
                 ELSE computeLineBufferCurve(pts, d)
    IN  IF nDistance = 0 \/ (nDistance < 0 /\ ~bufParams.singleSided) THEN <<>>
        ELSE closeRing(addPts(<<>>, added))

\* getRingCurve and computeRingBufferCurve; the ring is closed.
ringCurve(pts, side, d) ==
    LET n == Len(pts) - 1
        at(i) == pts[(i % n) + 1]
        turns == FlattenSeq([i \in 1..n |-> turnAt(at(i + n - 2), at(i - 1), at(i), side, d, i # 1)])
    IN  IF d = 0 THEN pts
        ELSE IF Len(pts) <= 2 THEN lineCurve(pts, d)
        ELSE closeRing(addPts(<<>>, turns))

-----------------------------------------------------------------------------
(* OffsetCurveSetBuilder                                                   *)
addCurve(curve, leftLoc, rightLoc) ==
    IF Len(curve) < 2 THEN <<>>
    ELSE <<[pts |-> curve, label |-> AreaLabel(0, BOUNDARY, leftLoc, rightLoc)]>>

addPoint(p) ==
    IF distance <= 0 THEN <<>> ELSE addCurve(lineCurve(<<p>>, distance), EXTERIOR, INTERIOR)

bufferLine(line) ==
    IF distance <= 0 /\ ~bufParams.singleSided THEN <<>>
    ELSE addCurve(lineCurve(removeRepeatedPoints(line), distance), EXTERIOR, INTERIOR)

isErodedCompletely(ring, bufferDistance) ==
    LET e == Envelope(ring)
        envMinDimension == -Larger(e.minx - e.maxx, e.miny - e.maxy)
    IN  bufferDistance < 0 /\ (Len(ring) < 4 \/ 2 * Abs(bufferDistance) > envMinDimension)

bufferRing(ring, offsetDistance, offsetSide, cwLeft, cwRight) ==
    LET ccw == Len(ring) >= 4 /\ isCCW(ring)
        side == IF ccw THEN opposite(offsetSide) ELSE offsetSide
    IN  IF offsetDistance = 0 /\ Len(ring) < 4 THEN <<>>
        ELSE addCurve(ringCurve(ring, side, offsetDistance),
                      IF ccw THEN cwRight ELSE cwLeft, IF ccw THEN cwLeft ELSE cwRight)

bufferPolygon(p) ==
    LET side  == IF distance < 0 THEN RIGHT ELSE LEFT
        shell == removeRepeatedPoints(p.shell)
        hole(h) == IF distance > 0 /\ isErodedCompletely(h, -distance) THEN <<>>
                   ELSE bufferRing(removeRepeatedPoints(h), Abs(distance), opposite(side), INTERIOR, EXTERIOR)
    IN  IF \/ distance < 0 /\ isErodedCompletely(p.shell, distance)
           \/ distance <= 0 /\ Len(shell) < 3
        THEN <<>>
        ELSE bufferRing(shell, Abs(distance), side, EXTERIOR, INTERIOR)
               \o FlattenSeq([i \in DOMAIN p.holes |-> hole(p.holes[i])])

getCurves(g) ==
    FlattenSeq([i \in DOMAIN g.polys |-> bufferPolygon(g.polys[i])]
                 \o [i \in DOMAIN g.lines |-> bufferLine(g.lines[i])]
                 \o [i \in DOMAIN g.points |-> addPoint(g.points[i])])

-----------------------------------------------------------------------------
BufferStart(g, params) ==
    /\ args = <<g>> /\ bufParams = params
    /\ opCode = NULL /\ env = NULL /\ argNodes = NULL /\ ei = NULL
    /\ depth = <<>> /\ waiting = {} /\ processed = {} /\ subgraph = NULL /\ visited = {}
    /\ Blank

BufferInit == pc = "getCurves" /\ \E b \in Buffered : BufferStart(b[1], b[2])

\* computeNodedEdges, up to the list of the noded strings; the loop over them
\* is insertUniqueDepthEdge.  No curve means an empty result.
computeNodedEdges ==
    /\ pc = "getCurves"
    /\ \E curves \in {getCurves(args[1])} :
         \E strs \in {Strings!withIntersections(Strings!Strings([k \in DOMAIN curves |-> curves[k].pts]))} :
            splits' = FlattenSeq(Table([k \in DOMAIN strs |->
                LET edges == Strings!splitEdges(strs[k])
                IN  [j \in DOMAIN edges |-> [pts   |-> removeRepeatedPoints(edges[j]),
                                             label |-> curves[k].label]]]))
    /\ pc' = IF splits' = <<>> THEN "buffered" ELSE "insertUniqueEdge"
    /\ UNCHANGED <<input, argNodes, ei, graph, todo, areas, results, error, bufferVars>>

depthDelta(lbl) ==
    LET lLoc == getLocation(lbl, 0, LEFT)
        rLoc == getLocation(lbl, 0, RIGHT)
    IN  IF lLoc = INTERIOR /\ rLoc = EXTERIOR THEN 1
        ELSE IF lLoc = EXTERIOR /\ rLoc = INTERIOR THEN -1 ELSE 0

insertUniqueDepthEdge ==
    /\ pc = "insertUniqueEdge" /\ splits # <<>>
    /\ LET e == Head(splits)
           found == {k \in DOMAIN edgeList : equalEdges(edgeList[k].pts, e.pts)}
       IN  edgeList' =
             IF Len(e.pts) < 2 THEN edgeList
             ELSE IF found = {}
             THEN Append(edgeList, [pts |-> e.pts, label |-> e.label, depthDelta |-> depthDelta(e.label)])
             ELSE LET k   == CHOOSE x \in found : TRUE
                      lbl == IF edgeList[k].pts = e.pts THEN e.label ELSE flip(e.label)
                  IN  [edgeList EXCEPT ![k] = [@ EXCEPT !.label = merge(@, lbl),
                                                        !.depthDelta = @ + depthDelta(lbl)]]
    /\ splits' = Tail(splits)
    /\ UNCHANGED <<pc, input, argNodes, ei, nodes, star, deLabel, todo, areas, results, error, bufferVars>>

addBufferEdges ==
    /\ pc = "insertUniqueEdge" /\ splits = <<>>
    /\ addEdgesTo("createSubgraphs")
    /\ depth' = Table([d \in ToSet(dirEdges) |-> NULL])
    /\ UNCHANGED <<input, noding, edgeList, areas, results, error, bufParams, waiting, processed, subgraph,
                   visited>>

-----------------------------------------------------------------------------
(* Subgraphs and their rightmost edge.                                     *)
nodeOf(d) == Head(dirPts(d))

\* BufferSubgraph::addReachable
reachable(n) ==
    LET next1(S) == S \cup {nodeOf(getSym(d)) : d \in UNION {ToSet(star[m]) : m \in S}}
        reached[k \in 0..Cardinality(DOMAIN star)] == IF k = 0 THEN {n} ELSE With(reached[k - 1], next1)
    IN  reached[Cardinality(DOMAIN star)]

edgesAt(ns) == UNION {ToSet(star[n]) : n \in ns}

\* DirectedEdgeStar::getRightmostEdge
getRightmostEdge(s) ==
    LET dy(d) == dirPts(d)[2][2] - dirPts(d)[1][2]
        isNorthern(d) == quadrant(dirPts(d)[2][1] - dirPts(d)[1][1], dy(d)) \in {0, 1}
        de0 == Head(s)
        deLast == Last(s)
    IN  IF Len(s) = 1 \/ (isNorthern(de0) /\ isNorthern(deLast)) THEN de0
        ELSE IF ~isNorthern(de0) /\ ~isNorthern(deLast) THEN deLast
        ELSE IF dy(de0) # 0 THEN de0 ELSE deLast

\* Whether the rightmost side of the segment from vertex i is its left one
\* (TRUE) or its right one; NULL if it is horizontal, or if there is none.
rightmostSideIsLeft(pts, i) ==
    IF i < 1 \/ i >= Len(pts) \/ pts[i][2] = pts[i + 1][2] THEN NULL
    ELSE pts[i][2] > pts[i + 1][2]

\* findRightmostEdgeAtVertex: the segment to look at for vertex i
segmentAtVertex(pts, i) ==
    LET prev == pts[i - 1]
        at   == pts[i]
        nxt  == pts[i + 1]
        turn == orientationIndex(at, nxt, prev)
    IN  IF \/ prev[2] < at[2] /\ nxt[2] < at[2] /\ turn = 1
           \/ prev[2] > at[2] /\ nxt[2] > at[2] /\ turn = -1
        THEN i - 1 ELSE i

\* RightmostEdgeFinder::findEdge, from the vertex <<k, i>>: the i-th of edge k.
\* Gives the directed edge with the outside on its right, and the rightmost
\* coordinate, which is looked for once more when no side could be told.
findEdge(k, i) ==
    LET atNode == i = 1
        de  == IF atNode THEN getRightmostEdge(star[edgeList[k].pts[1]]) ELSE <<k, TRUE>>
        pts == edgeList[de[1]].pts
        index == IF atNode THEN (IF de[2] THEN 1 ELSE Len(pts)) ELSE segmentAtVertex(pts, i)
        first == rightmostSideIsLeft(pts, index)
        side  == IF first # NULL THEN first ELSE rightmostSideIsLeft(pts, index - 1)
        most   == CHOOSE j \in 1..(Len(pts) - 1) : \A m \in 1..(Len(pts) - 1) :
                     pts[m][1] < pts[j][1] \/ (pts[m][1] = pts[j][1] /\ j <= m)
    IN  [edge  |-> IF side = TRUE THEN <<de[1], FALSE>> ELSE <<de[1], TRUE>>,
         coord |-> IF side # NULL THEN edgeList[k].pts[i]
                   ELSE pts[most]]

\* checkForRightmostCoordinate over the forward edges: the last vertex of an
\* edge is not looked at.  Which of several it finds depends on the order in
\* which the subgraph was traversed.
rightmostVertices(ns) ==
    LET ks == {d[1] : d \in edgesAt(ns)}
        vs == UNION {{<<k, i>> : i \in 1..(Len(edgeList[k].pts) - 1)} : k \in ks}
        x(v) == edgeList[v[1]].pts[v[2]][1]
        most == CHOOSE m \in {x(v) : v \in vs} : \A v \in vs : x(v) <= m
    IN  {v \in vs : x(v) = most}

\* createSubgraphs, one subgraph for the first node not yet visited
createSubgraph ==
    /\ pc = "createSubgraphs" /\ todo # <<>>
    /\ \E ns \in {reachable(Head(todo))} :
         /\ \E v \in rightmostVertices(ns) :
              waiting' = waiting \cup {[nodes |-> ns, finder |-> findEdge(v[1], v[2])]}
         /\ todo' = SelectSeq(todo, LAMBDA n : n \notin ns)
    /\ pc' = IF todo' = <<>> THEN "buildSubgraphs" ELSE pc
    /\ UNCHANGED <<input, noding, graph, areas, results, error, bufParams, depth, processed, subgraph, visited>>

-----------------------------------------------------------------------------
(* SubgraphDepthLocater: the segments of processed subgraphs that a ray    *)
(* from p in the positive x direction meets, upwards, with the depth on    *)
(* their left.                                                             *)
stabbedSegments(p) ==
    LET segs(s) == UNION {{<<k, i>> : i \in 1..(Len(edgeList[k].pts) - 1)} :
                             k \in {d[1] : d \in edgesAt(s.nodes)}}
        \* getEnvelope: of the vertices that segments start from
        env1(s) == Envelope(Table([x \in segs(s) |-> edgeList[x[1]].pts[x[2]]]))
        near == {s \in processed : envContains(env1(s), Envelope(<<p>>))}
        upward(s) ==
            LET a == edgeList[s[1]].pts[s[2]]
                b == edgeList[s[1]].pts[s[2] + 1]
            IN  IF a[2] > b[2] THEN [low |-> b, high |-> a, leftDepth |-> depth[<<s[1], TRUE>>][RIGHT]]
                               ELSE [low |-> a, high |-> b, leftDepth |-> depth[<<s[1], TRUE>>][LEFT]]
    IN  {u \in {upward(x) : x \in UNION {segs(s) : s \in near}} :
            /\ Larger(u.low[1], u.high[1]) >= p[1]
            /\ u.low[2] # u.high[2] /\ u.low[2] <= p[2] /\ p[2] <= u.high[2]
            /\ orientationIndex(u.low, u.high, p) # -1}

\* LineSegment::orientationIndex: with one end on the line and the other to its
\* right it gives 0.
segmentOrientation(s, t) ==
    LET o0 == orientationIndex(s.low, s.high, t.low)
        o1 == orientationIndex(s.low, s.high, t.high)
    IN  IF (o0 >= 0 /\ o1 >= 0) \/ (o0 <= 0 /\ o1 <= 0) THEN Larger(o0, o1) ELSE 0

\* DepthSegment::compareTo
isLeftOf(s, t) ==
    LET o == segmentOrientation(s, t)
        index == IF o # 0 THEN o ELSE -segmentOrientation(t, s)
        before(p, q) == p[1] < q[1] \/ (p[1] = q[1] /\ p[2] < q[2])
    IN  IF index # 0 THEN index < 0
        ELSE before(s.low, t.low) \/ (s.low = t.low /\ before(s.high, t.high))

\* Mutant: a subgraph is always taken to be outside the others.
depthsAt_Outside(p) == {0}

\* getDepth; the sort may put any of the least segments first.
depthsAt(p) ==
    LET ss == stabbedSegments(p)
    IN  IF ss = {} THEN {0}
        ELSE {s.leftDepth : s \in {s \in ss : \A t \in ss : ~isLeftOf(t, s)}}

-----------------------------------------------------------------------------
(* Depths.                                                                 *)
delta(d) == IF d[2] THEN edgeList[d[1]].depthDelta ELSE -edgeList[d[1]].depthDelta

\* The depths of both directions of an edge, given the depth on the right of d.
bothDepths(d, right) ==
    LET left == right + delta(d)
    IN  (d :> (LEFT :> left @@ RIGHT :> right)) @@ (getSym(d) :> (LEFT :> right @@ RIGHT :> left))

\* buildSubgraphs, up to the first depths of a subgraph.  The subgraphs are
\* sorted by their rightmost coordinate, equal ones in any order.
beginSubgraph ==
    /\ pc = "buildSubgraphs" /\ waiting # {}
    /\ \E s \in waiting :
         /\ \A t \in waiting : t.finder.coord[1] <= s.finder.coord[1]
         /\ \E outsideDepth \in depthsAt(s.finder.coord) :
              depth' = bothDepths(s.finder.edge, outsideDepth) @@ depth
         /\ subgraph' = s
         /\ waiting' = waiting \ {s}
         /\ visited' = {s.finder.edge}
         /\ todo' = <<nodeOf(s.finder.edge)>>
    /\ pc' = "computeDepths"
    /\ UNCHANGED <<input, noding, graph, areas, results, error, bufParams, processed>>

\* DirectedEdgeStar::computeDepths from the k-th edge of star s: the depth on the
\* right of each edge, moving around to that edge again.
depthsAround(s, k) ==
    LET n == Len(s)
        at(i) == s[((k + i - 1) % n) + 1]
        right[i \in 1..n] == IF i = 1 THEN depth[s[k]][LEFT] ELSE right[i - 1] + delta(at(i - 1))
    IN  [i \in 1..n |-> [edge |-> at(i), right |-> right[i]]]

\* BufferSubgraph::computeNodeDepth for the first node of the queue
computeNodeDepth ==
    /\ pc = "computeDepths" /\ todo # <<>>
    /\ LET s == star[Head(todo)]
           known == {k \in DOMAIN s : s[k] \in visited \/ getSym(s[k]) \in visited}
           start == CHOOSE k \in known : \A j \in known : k <= j
           adjacent(i) == nodeOf(getSym(s[i]))
           fresh == SelectSeq([i \in DOMAIN s |-> i], LAMBDA i :
                       /\ getSym(s[i]) \notin visited' /\ adjacent(i) \notin ToSet(todo)
                       /\ \A j \in 1..(i - 1) : adjacent(j) # adjacent(i))
       IN  \E around \in {depthsAround(s, start)} :
             /\ visited' = visited \cup ToSet(s)
             /\ LET set(i) == bothDepths(around[i].edge, around[i].right)
                    clash(i) == \E d \in DOMAIN set(i) : depth[d] # NULL /\ depth[d] # set(i)[d]
                IN  IF \E i \in DOMAIN around : clash(i)
                    THEN throw("depth mismatch") /\ UNCHANGED <<depth, todo>>
                    ELSE /\ depth' = FoldLeft(LAMBDA f, i : set(i) @@ f, depth, [i \in DOMAIN around |-> i])
                         /\ todo' = Tail(todo) \o [i \in DOMAIN fresh |-> adjacent(fresh[i])]
                         /\ UNCHANGED <<pc, error>>
    /\ UNCHANGED <<input, noding, graph, areas, results, bufParams, waiting, processed, subgraph>>

\* Mutant: an edge counts wherever the depth changes.
isBoundary_AnyChange(d) == depth[d][RIGHT] > depth[d][LEFT]

isBoundary(d) == /\ depth[d][RIGHT] >= 1 /\ depth[d][LEFT] <= 0
                 /\ ~isInteriorAreaEdge(deLabel[d])

\* findResultEdges; only the edges of the subgraph at hand are looked at in
\* what follows, PolygonBuilder::add.
findResultEdges ==
    /\ pc = "computeDepths" /\ todo = <<>>
    /\ inResult' = {d \in edgesAt(subgraph.nodes) : isBoundary(d)}
    /\ maxEdgeRings' = <<>> /\ edgeRings' = <<>>
    /\ processed' = processed \cup {subgraph}
    /\ pc' = "linkResultDirectedEdges"
    /\ UNCHANGED <<input, noding, graph, todo, next, shellList, freeHoleList, results, error,
                   bufParams, depth, waiting, subgraph, visited>>

addPolygons ==
    /\ \/ linkResultDirectedEdges \/ buildMaximalEdgeRings \/ buildMinimalEdgeRings
       \/ sortShellsAndHoles \/ placeFreeHoles
    /\ UNCHANGED bufferVars

nextSubgraph ==
    /\ pc = "placeFreeHoles" /\ freeHoleList = <<>>
    /\ subgraph' = NULL
    /\ pc' = IF waiting = {} THEN "buffered" ELSE "buildSubgraphs"
    /\ UNCHANGED <<input, noding, graph, todo, areas, results, error, bufParams, depth, waiting,
                   processed, visited>>

\* GEOS_CHECK_FOR_INTERRUPTS in buffer
bufferInterrupted ==
    /\ \/ pc = "getCurves" \/ (pc = "insertUniqueEdge" /\ splits = <<>>)
       \/ (pc = "createSubgraphs" /\ waiting = {}) \/ (pc = "buildSubgraphs" /\ processed = {})
    /\ pc' = "interrupted"
    /\ UNCHANGED <<input, noding, graph, todo, areas, results, error, bufferVars>>

BufferNext ==
    \/ computeNodedEdges \/ insertUniqueDepthEdge \/ addBufferEdges \/ createSubgraph
    \/ beginSubgraph \/ computeNodeDepth \/ findResultEdges \/ addPolygons \/ nextSubgraph
    \/ bufferInterrupted
=============================================================================
