----------------------------- MODULE IsValidOp ------------------------------
(***************************************************************************)
(* operation/valid: IsValidOp on a Polygon or MultiPolygon, with           *)
(* ConsistentAreaTester, IndexedNestedRingTester and                       *)
(* ConnectedInteriorTester, and operation/IsSimpleOp.  The checks come in  *)
(* an order in which each relies on the ones before: a ring is tested by   *)
(* one vertex that is no node, which is sound only once crossings are      *)
(* excluded.  The last one links the edges around the interior in the same *)
(* graph as an overlay does.                                               *)
(*                                                                         *)
(* The geometry is argument 0 of the graph.  Coordinates are finite and    *)
(* rings closed, as LinearRing demands.                                    *)
(***************************************************************************)
EXTENDS OverlayOp

CONSTANT Tested        \* the geometries to check

VARIABLE validErr      \* the error found, or NULL

geom  == args[1]
rings == edgesOf(0, geom)

\* The rings as edges: where the edges of a polygon begin
ringsBefore(k) == FoldLeft(LAMBDA n, p : n + 1 + Len(p.holes), 0, SubSeq(geom.polys, 1, k - 1))
shellOf(k)   == ringsBefore(k) + 1
holesOf(k)   == [h \in DOMAIN geom.polys[k].holes |-> ringsBefore(k) + 1 + h]

ValidInit ==
    /\ pc = "isValid" /\ \E g \in Tested : args = <<g>>
    /\ argNodes = [i \in {0} |-> nodesOf(0, geom)]
    /\ ei = [i \in {0} |-> [k \in DOMAIN rings |-> {}]]
    /\ opCode = NULL /\ env = NULL /\ Blank
    /\ validErr = NULL

\* A check that finds nothing hands over to the next one.
Check(this, bad, err, after) ==
    /\ pc = this
    /\ validErr' = IF bad THEN err ELSE validErr
    /\ pc' = IF bad THEN "checked" ELSE after
Untouched == UNCHANGED <<input, noding, graph, todo, areas, results, error>>

hasTooFewPoints(g) ==
    \/ \E k \in DOMAIN g.polys : \E r \in ToSet(polyRings(g.polys[k])) : Len(removeRepeatedPoints(r)) < 4
    \/ \E k \in DOMAIN g.lines : Len(removeRepeatedPoints(g.lines[k])) < 2

\* Lines and points are valid unless they have too few points.
checkTooFewPoints ==
    /\ Check("isValid", hasTooFewPoints(geom), "eTooFewPoints",
             IF isAreal(geom) THEN "checkConsistentArea" ELSE "isSimple")
    /\ Untouched

-----------------------------------------------------------------------------
(* ConsistentAreaTester: no proper intersection, and around each node of   *)
(* the RelateNodeGraph the sides of the edges agree.                       *)
allIntersections(es) ==
    [k \in DOMAIN es |-> UNION {intersectionsOn(es[k].pts, es[m].pts, k = m) : m \in DOMAIN es}]

hasProperIntersection(es) ==
    \E k, m \in DOMAIN es : \E i \in 1..(Len(es[k].pts) - 1), j \in 1..(Len(es[m].pts) - 1) :
        /\ k # m \/ i # j
        /\ isProper(es[k].pts[i], es[k].pts[i + 1], es[m].pts[j], es[m].pts[j + 1])

nodeBundles(es, x) ==
    LET ends == FlattenSeq([k \in DOMAIN es |-> computeEdgeEnds(es[k], x[k])])
    IN  Table([p \in {ends[k].from : k \in DOMAIN ends} |-> bundles(ends, p)])

checkAreaLabelsConsistent(bs) ==
    LET tls == [k \in DOMAIN bs |-> bundleLabel(bs[k])[0]]
        before(k) == IF k = 1 THEN Len(tls) ELSE k - 1
    IN  \A k \in DOMAIN tls : tls[k][LEFT] # tls[k][RIGHT] /\ tls[k][RIGHT] = tls[before(k)][LEFT]

hasDuplicateRings(bs) == \E p \in DOMAIN bs : \E k \in DOMAIN bs[p] : Len(bs[p][k]) > 1

\* Building the stubs leaves the ends of each edge in its list.
checkConsistentArea ==
    /\ pc = "checkConsistentArea"
    /\ \E es \in {rings} : \E x \in {Table(allIntersections(es))} : \E bs \in {nodeBundles(es, x)} :
          LET crossed == hasProperIntersection(es)
              conflict == \E p \in DOMAIN bs : ~checkAreaLabelsConsistent(bs[p])
          IN  /\ Check("checkConsistentArea", crossed \/ conflict \/ hasDuplicateRings(bs),
                       IF crossed \/ conflict THEN "eSelfIntersection" ELSE "eDuplicatedRings",
                       "checkNoSelfIntersectingRings")
              /\ ei' = [i \in {0} |-> Table([k \in DOMAIN x |-> ToSet(withEndpoints(es[k], x[k]))])]
    /\ UNCHANGED <<input, argNodes, splits, graph, todo, areas, results, error>>

\* A ring that passes twice through a point, its start apart
selfTouches(x) ==
    LET s == Tail(inOrder(x))
    IN  \E i, j \in DOMAIN s : i < j /\ s[i][3] = s[j][3]

checkNoSelfIntersectingRings ==
    /\ Check("checkNoSelfIntersectingRings", \E k \in DOMAIN rings : selfTouches(ei[0][k]),
             "eRingSelfIntersection", "checkHolesInShell")
    /\ Untouched

-----------------------------------------------------------------------------
(* Nesting.                                                                *)

\* Mutant: the first vertex is taken.
findPtNotNode_First(pts, k) == <<pts[1]>>

\* The first of the points that is no node of ring k; <<>> if there is none.
findPtNotNode(pts, k) ==
    LET free == SelectSeq(pts, LAMBDA p : \A x \in ei[0][k] : x[3] # p)
    IN  IF free = <<>> THEN <<>> ELSE <<free[1]>>

inRing(pt, k) == isPointInRing(pt[1], rings[k].pts)

\* The loop over the holes ends at the first one that has no vertex to test.
holeOutside(k) ==
    LET hs == holesOf(k)
        pt == Table([h \in DOMAIN hs |-> findPtNotNode(geom.polys[k].holes[h], shellOf(k))])
    IN  \E h \in DOMAIN hs : /\ \A j \in 1..h : pt[j] # <<>>
                             /\ ~inRing(pt[h], shellOf(k))

checkHolesInShell ==
    /\ Check("checkHolesInShell", \E k \in DOMAIN geom.polys : holeOutside(k),
             "eHoleOutsideShell", "checkHolesNotNested")
    /\ Untouched

\* IndexedNestedRingTester
isNested(inner, search) ==
    /\ envIntersects(Envelope(rings[inner].pts), Envelope(rings[search].pts))
    /\ LET pt == findPtNotNode(rings[inner].pts, search)
       IN  pt # <<>> /\ inRing(pt, search)

checkHolesNotNested ==
    /\ Check("checkHolesNotNested",
             \E k \in DOMAIN geom.polys : \E h, j \in ToSet(holesOf(k)) : h # j /\ isNested(h, j),
             "eNestedHoles", "checkShellsNotNested")
    /\ Untouched

\* checkShellInsideHole
shellInsideHole(shell, hole) ==
    LET shellPt == findPtNotNode(rings[shell].pts, hole)
        holePt  == findPtNotNode(rings[hole].pts, shell)
    IN  /\ shellPt # <<>> => inRing(shellPt, hole)
        /\ holePt # <<>> => ~inRing(holePt, shell)

shellNested(shell, k) ==
    LET shellPt == findPtNotNode(rings[shell].pts, shellOf(k))
    IN  /\ shellPt # <<>> /\ inRing(shellPt, shellOf(k))
        /\ \A h \in ToSet(holesOf(k)) : ~shellInsideHole(shell, h)

\* Only a MultiPolygon has shells to compare.
checkShellsNotNested ==
    /\ Check("checkShellsNotNested",
             \E i, k \in DOMAIN geom.polys : i # k /\ shellNested(shellOf(i), k),
             "eNestedShells", "isInteriorsConnected")
    /\ Untouched

-----------------------------------------------------------------------------
(* ConnectedInteriorTester: the split edges, linked around the interior.   *)
isInteriorsConnected ==
    /\ pc = "isInteriorsConnected"
    /\ edgeList' = FlattenSeq([k \in DOMAIN rings |-> addSplitEdges(rings[k], ei[0][k])])
    /\ pc' = "addEdges"
    /\ UNCHANGED <<validErr, input, noding, nodes, star, deLabel, todo, areas, results, error>>

\* setInteriorEdgesInResult, once addEdges has made the graph
setInteriorEdgesInResult ==
    /\ pc = "computeLabelling"
    /\ inResult' = {d \in DOMAIN deLabel : getLocation(deLabel[d], 0, RIGHT) = INTERIOR}
    /\ pc' = "linkResultDirectedEdges"
    /\ UNCHANGED <<validErr, input, noding, graph, todo, next, maxEdgeRings, shellList,
                   freeHoleList, edgeRings, results, error>>

buildEdgeRings ==
    /\ pc = "buildMaximalEdgeRings"
    /\ IF unringed # <<>>
       THEN /\ maxEdgeRings' = Append(maxEdgeRings, walk(Head(unringed), next).ring)
            /\ UNCHANGED <<pc, edgeRings>>
       ELSE /\ edgeRings' = FlattenSeq([k \in DOMAIN maxEdgeRings |-> minimalRings(k)])
            /\ pc' = "hasUnvisitedShellEdge" /\ UNCHANGED maxEdgeRings
    /\ UNCHANGED <<validErr, input, noding, graph, todo, inResult, next, shellList, freeHoleList,
                   results, error>>

matchInSameDirection(p0, p1, ep0, ep1) ==
    /\ p0 = ep0
    /\ orientationIndex(p0, p1, ep1) = 0
    /\ quadrant(p1[1] - p0[1], p1[2] - p0[2]) = quadrant(ep1[1] - ep0[1], ep1[2] - ep0[2])

\* visitInteriorRing: of the edge that leaves the start of the ring, the direction
\* with the interior on its right, and what is linked to it
visitInteriorRing(ring) ==
    LET p1 == SelectSeq(ring, LAMBDA p : p # ring[1])[1]
        matches(k) == \E fwd \in BOOLEAN :
            matchInSameDirection(ring[1], p1, dirPts(<<k, fwd>>)[1], dirPts(<<k, fwd>>)[2])
        e  == CHOOSE k \in DOMAIN edgeList : matches(k) /\ \A j \in 1..(k - 1) : ~matches(j)
        de == IF <<e, TRUE>> \in inResult THEN <<e, TRUE>> ELSE <<e, FALSE>>
    IN  ToSet(walk(de, next).ring)

\* Mutant: every linked ring counts as visited.
visitShellInteriors_All(g) == inResult

\* visitShellInteriors: one ring is visited for each shell.
visitShellInteriors(g) == UNION {visitInteriorRing(g.polys[k].shell) : k \in DOMAIN g.polys}

checkConnectedInteriors ==
    /\ pc = "hasUnvisitedShellEdge"
    /\ \E visited \in {visitShellInteriors(geom)} :
          Check("hasUnvisitedShellEdge",
                \E k \in DOMAIN edgeRings :
                    /\ ~isHole(edgeRings[k].ring)
                    /\ edgeRings[k].ring[1] \in inResult
                    /\ ~(ToSet(edgeRings[k].ring) \subseteq visited),
                "eDisconnectedInterior", "checked")
    /\ Untouched

-----------------------------------------------------------------------------
(* IsSimpleOp, for lines and points.                                       *)
isEndPoint(x, npts) == (x[1] = 0 /\ x[2] = 0) \/ x[1] = npts - 1

hasNonEndpointIntersection(es, x) ==
    \E k \in DOMAIN es : \E y \in x[k] : ~isEndPoint(y, Len(es[k].pts))

\* The end of a closed line may only be used by that line.
hasClosedEndpointIntersection(es) ==
    LET closed(k) == Head(es[k].pts) = Last(es[k].pts)
        degree(p) == Cardinality({k \in DOMAIN es : Head(es[k].pts) = p})
                       + Cardinality({k \in DOMAIN es : Last(es[k].pts) = p})
    IN  \E k \in DOMAIN es : closed(k) /\ degree(Head(es[k].pts)) # 2

isSimpleLinearGeometry(es) ==
    LET x == allIntersections(es)
    IN  \/ \A k \in DOMAIN es : x[k] = {}
        \/ /\ ~hasProperIntersection(es)
           /\ ~hasNonEndpointIntersection(es, x)
           /\ ~hasClosedEndpointIntersection(es)

isSimpleMultiPoint(ps) == \A i, j \in DOMAIN ps : ps[i] = ps[j] => i = j

isSimple ==
    /\ Check("isSimple", ~(isSimpleLinearGeometry(rings) /\ isSimpleMultiPoint(geom.points)),
             "not simple", "checked")
    /\ Untouched

ValidNext ==
    \/ checkTooFewPoints \/ checkConsistentArea \/ checkNoSelfIntersectingRings
    \/ checkHolesInShell \/ checkHolesNotNested \/ checkShellsNotNested
    \/ isInteriorsConnected
    \/ (addEdges \/ linkResultDirectedEdges) /\ UNCHANGED validErr
    \/ setInteriorEdgesInResult \/ buildEdgeRings \/ checkConnectedInteriors
    \/ isSimple

ValidSpec == ValidInit /\ [][ValidNext]_<<vars, validErr>>
=============================================================================
