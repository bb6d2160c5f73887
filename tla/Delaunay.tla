------------------------------ MODULE Delaunay ------------------------------
(***************************************************************************)
(* triangulate: DelaunayTriangulationBuilder, IncrementalDelaunay-         *)
(* Triangulator and triangulate/quadedge, a planar subdivision made of     *)
(* quad-edges: four pointers and two vertices each, which every operation  *)
(* rewires.  Sites are inserted in their order, each in three loops: the   *)
(* walk to its triangle, the edges to the corners, the edges to swap.      *)
(*                                                                         *)
(* <<n, r>> is the r-th quarter of the n-th edge: 0 and 2 run along it,    *)
(* there and back, 1 and 3 across it.  The locator hands the edge it found *)
(* last to locateFromEdge, which does not look at it.                      *)
(***************************************************************************)
EXTENDS RingGeometry

CONSTANTS SiteSets,     \* the sets of sites
          Tolerances,   \* the squares of the tolerances
          NULL

VARIABLES siteCoords,   \* the sites, sorted, without duplicates
          tolerance,
          mesh,         \* next and vertex of all quarters; NULL: not created yet
          quadEdges,    \* the edges that were not removed
          dPc,          \* the loop of insertSite that runs
          toInsert,     \* the sites to insert, the current one first
          at            \* e, base, startEdge and iter of these loops

delVars == <<siteCoords, tolerance, mesh, quadEdges, dPc, toInsert, at>>

-----------------------------------------------------------------------------
(* QuadEdge                                                                *)
rot(q) == <<q[1], (q[2] + 1) % 4>>
sym(q) == rot(rot(q))
invRot(q) == rot(sym(q))
oNext(m, q) == m.next[q]
oPrev(m, q) == rot(oNext(m, rot(q)))
dPrev(m, q) == invRot(oNext(m, invRot(q)))
lNext(m, q) == rot(oNext(m, invRot(q)))
lPrev(m, q) == sym(oNext(m, q))
orig(m, q) == m.vertex[q]
dest(m, q) == orig(m, sym(q))

\* The n-th edge, which joins nothing yet.
makeEdge(m, n, o, d) ==
    [next   |-> m.next @@ (<<n, 0>> :> <<n, 0>>) @@ (<<n, 1>> :> <<n, 3>>)
                       @@ (<<n, 2>> :> <<n, 2>>) @@ (<<n, 3>> :> <<n, 1>>),
     vertex |-> m.vertex @@ (<<n, 0>> :> o) @@ (<<n, 2>> :> d)]

splice(m, a, b) ==
    LET alpha == rot(oNext(m, a))
        beta  == rot(oNext(m, b))
    IN  [m EXCEPT !.next = [@ EXCEPT ![a] = oNext(m, b), ![b] = oNext(m, a),
                                     ![alpha] = oNext(m, beta), ![beta] = oNext(m, alpha)]]

connect(m, n, a, b) ==
    LET m1 == makeEdge(m, n, dest(m, a), orig(m, b))
        m2 == splice(m1, <<n, 0>>, lNext(m1, a))
    IN  splice(m2, sym(<<n, 0>>), b)

\* Mutant: the swapped edge keeps its ends.
swap_Ends(m, e) ==
    LET a  == oPrev(m, e)
        b  == oPrev(m, sym(e))
        m1 == splice(m, e, a)
        m2 == splice(m1, sym(e), b)
        m3 == splice(m2, e, lNext(m2, a))
    IN  splice(m3, sym(e), lNext(m3, b))

\* e leaves its four neighbours and joins the other corners of the two triangles.
swap(m, e) ==
    LET a  == oPrev(m, e)
        b  == oPrev(m, sym(e))
        m1 == splice(m, e, a)
        m2 == splice(m1, sym(e), b)
        m3 == splice(m2, e, lNext(m2, a))
        m4 == splice(m3, sym(e), lNext(m3, b))
    IN  [m4 EXCEPT !.vertex = [@ EXCEPT ![e] = dest(m, a), ![sym(e)] = dest(m, b)]]

removeEdge(m, e) ==
    LET m1 == splice(m, e, oPrev(m, e))
    IN  splice(m1, sym(e), oPrev(m1, sym(e)))

-----------------------------------------------------------------------------
(* Vertex and TrianglePredicate                                            *)
isCCW3(a, b, c) == (b[1] - a[1]) * (c[2] - a[2]) - (b[2] - a[2]) * (c[1] - a[1]) > 0

rightOf(m, v, e) == isCCW3(v, dest(m, e), orig(m, e))

\* TrianglePredicate::isInCircleNormalized
isInCircle(p, a, b, c) ==
    LET ad == <<a[1] - p[1], a[2] - p[2]>>
        bd == <<b[1] - p[1], b[2] - p[2]>>
        cd == <<c[1] - p[1], c[2] - p[2]>>
        det(x, y) == x[1] * y[2] - y[1] * x[2]
        lift(x) == x[1] * x[1] + x[2] * x[2]
    IN  lift(ad) * det(bd, cd) + lift(bd) * det(cd, ad) + lift(cd) * det(ad, bd) > 0

\* Vertex::equals(v, tolerance): nothing is equal with a tolerance of zero.
equals(v, w) == (v[1] - w[1]) * (v[1] - w[1]) + (v[2] - w[2]) * (v[2] - w[2]) < tolerance

isVertexOfEdge(m, e, v) == equals(v, orig(m, e)) \/ equals(v, dest(m, e))

isBetween(v, a, b) ==
    orientationIndex(a, b, v) = 0 /\ envContains(Envelope(<<a, b>>), Envelope(<<v>>))

\* Closer than a thousandth of the tolerance, which no other point of the grid is.
isOnEdge(m, e, v) == tolerance > 0 /\ isBetween(v, orig(m, e), dest(m, e))

-----------------------------------------------------------------------------
(* QuadEdgeSubdivision                                                     *)
createFrame ==
    LET env == Envelope(siteCoords)
        deltaX == env.maxx - env.minx
        deltaY == env.maxy - env.miny
        offset == 10 * (IF deltaX > deltaY THEN deltaX ELSE deltaY)
    IN  << <<(env.maxx + env.minx) \div 2, env.maxy + offset>>,
           <<env.minx - offset, env.miny - offset>>,
           <<env.maxx + offset, env.miny - offset>> >>

initSubdiv(f) ==
    LET m0 == [next |-> <<>>, vertex |-> <<>>]
        m3 == makeEdge(makeEdge(makeEdge(m0, 1, f[1], f[2]), 2, f[2], f[3]), 3, f[3], f[1])
        m4 == splice(m3, sym(<<1, 0>>), <<2, 0>>)
        m5 == splice(m4, sym(<<2, 0>>), <<3, 0>>)
    IN  splice(m5, sym(<<3, 0>>), <<1, 0>>)

startingEdge == <<1, 0>>
isFrameVertex(v) == v \in ToSet(createFrame)

\* visitTriangles: the quarters that are visited from the first edge
visited(m) ==
    LET wave[k \in Nat] == IF k = 0 THEN {startingEdge}
                           ELSE UNION {{q, sym(q), lNext(m, q)} : q \in wave[k - 1]}
    IN  wave[2 * Cardinality(quadEdges)]

\* fetchTriangleToVisit: the edges of the face to the left of q
face(m, q) == <<q, lNext(m, q), lNext(m, lNext(m, q))>>
isTriangle(m, q) == lNext(m, face(m, q)[3]) = q
corners(m, q) == {orig(m, f) : f \in ToSet(face(m, q))}

\* The triangles and the edges, of the quarters visited, that no corner of the frame has
getTriangles(m, qs) == {t \in {corners(m, q) : q \in qs} : \A v \in t : ~isFrameVertex(v)}
getPrimaryEdges(m, qs) ==
    {ends \in {{orig(m, q), dest(m, q)} : q \in qs} : \A v \in ends : ~isFrameVertex(v)}

\* getVoronoiCellPolygon: the triangles, as their corners, round the origin of q;
\* each stands for the centre of its circle.
getVoronoiCell(m, q) ==
    LET ring[k \in Nat] == IF k = 1 THEN q ELSE oPrev(m, ring[k - 1])
        n == CHOOSE k \in 2..Cardinality(quadEdges) : ring[k] = q /\ \A j \in 2..(k - 1) : ring[j] # q
    IN  [k \in 1..(n - 1) |-> corners(m, ring[k])]

-----------------------------------------------------------------------------
DelInit == /\ siteCoords \in {SortSet(S, LAMBDA p, q : p[1] < q[1] \/ (p[1] = q[1] /\ p[2] < q[2])) : S \in SiteSets}
           /\ tolerance \in Tolerances
           /\ mesh = NULL /\ quadEdges = {} /\ dPc = "idle" /\ toInsert = <<>> /\ at = NULL

\* The walk begins at the first edge.
walkFrom == [e |-> startingEdge, base |-> NULL, startEdge |-> NULL, iter |-> 0]

\* DelaunayTriangulationBuilder::create, IncrementalDelaunayTriangulator::insertSites
create ==
    /\ mesh = NULL
    /\ mesh' = initSubdiv(createFrame)
    /\ quadEdges' = {1, 2, 3}
    /\ toInsert' = siteCoords
    /\ dPc' = "locate"
    /\ at' = walkFrom
    /\ UNCHANGED <<siteCoords, tolerance>>

returnFromInsert ==
    /\ toInsert' = Tail(toInsert)
    /\ dPc' = IF Tail(toInsert) = <<>> THEN "built" ELSE "locate"
    /\ at' = walkFrom

\* One turn of the loop of locateFromEdge.
locate ==
    LET v == Head(toInsert)
        e == at.e
        go(q) == at' = [at EXCEPT !.e = q, !.iter = @ + 1] /\ UNCHANGED dPc
    IN  /\ dPc = "locate"
        /\ IF at.iter >= Cardinality(quadEdges) THEN dPc' = "thrown" /\ UNCHANGED at
           ELSE IF v = orig(mesh, e) \/ v = dest(mesh, e) THEN dPc' = "insert" /\ UNCHANGED at
           ELSE IF rightOf(mesh, v, e) THEN go(sym(e))
           ELSE IF ~rightOf(mesh, v, oNext(mesh, e)) THEN go(oNext(mesh, e))
           ELSE IF ~rightOf(mesh, v, dPrev(mesh, e)) THEN go(dPrev(mesh, e))
           ELSE dPc' = "insert" /\ UNCHANGED at
        /\ UNCHANGED <<siteCoords, tolerance, mesh, quadEdges, toInsert>>

fresh(m) == 1 + Cardinality({q \in DOMAIN m.next : q[2] = 0})

\* insertSite: a site that is there, or one that takes the place of the edge it is on,
\* or one in a triangle, and the first of its edges.
insertSite ==
    LET v == Head(toInsert)
        onEdge == isOnEdge(mesh, at.e, v)
        e  == IF onEdge THEN oPrev(mesh, at.e) ELSE at.e
        m1 == IF onEdge THEN removeEdge(mesh, at.e) ELSE mesh
        n  == fresh(m1)
        m2 == makeEdge(m1, n, orig(m1, e), v)
    IN  /\ dPc = "insert"
        /\ IF isVertexOfEdge(mesh, at.e, v)
           THEN returnFromInsert /\ UNCHANGED <<mesh, quadEdges>>
           ELSE /\ mesh' = splice(m2, <<n, 0>>, e)
                /\ quadEdges' = (IF onEdge THEN quadEdges \ {at.e[1]} ELSE quadEdges) \cup {n}
                /\ at' = [at EXCEPT !.e = e, !.base = <<n, 0>>, !.startEdge = <<n, 0>>]
                /\ dPc' = "connect"
                /\ UNCHANGED toInsert
        /\ UNCHANGED <<siteCoords, tolerance>>

\* One turn of the loop that connects the site to the corners.
connectCorner ==
    LET n == fresh(mesh)
        m == connect(mesh, n, at.e, sym(at.base))
        e == oPrev(m, <<n, 0>>)
    IN  /\ dPc = "connect"
        /\ mesh' = m
        /\ quadEdges' = quadEdges \cup {n}
        /\ at' = [at EXCEPT !.base = <<n, 0>>, !.e = e]
        /\ dPc' = IF lNext(m, e) # at.startEdge THEN "connect" ELSE "swap"
        /\ UNCHANGED <<siteCoords, tolerance, toInsert>>

\* Mutant: the circle is not looked at.
mustSwap_Any(m, e, v) == rightOf(m, dest(m, oPrev(m, e)), e)

mustSwap(m, e, v) ==
    LET t == oPrev(m, e)
    IN  rightOf(m, dest(m, t), e) /\ isInCircle(v, orig(m, e), dest(m, t), dest(m, e))

\* One turn of the loop that examines the suspect edges.
swapSuspect ==
    LET v == Head(toInsert)
        e == at.e
        m == swap(mesh, e)
    IN  /\ dPc = "swap"
        /\ IF mustSwap(mesh, e, v)
           THEN mesh' = m /\ at' = [at EXCEPT !.e = oPrev(m, e)] /\ UNCHANGED <<dPc, toInsert>>
           ELSE /\ UNCHANGED mesh
                /\ IF oNext(mesh, e) = at.startEdge THEN returnFromInsert
                   ELSE at' = [at EXCEPT !.e = lPrev(mesh, oNext(mesh, e))] /\ UNCHANGED <<dPc, toInsert>>
        /\ UNCHANGED <<siteCoords, tolerance, quadEdges>>

DelNext == create \/ locate \/ insertSite \/ connectCorner \/ swapSuspect
=============================================================================
