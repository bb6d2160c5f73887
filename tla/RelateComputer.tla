--------------------------- MODULE RelateComputer ---------------------------
(***************************************************************************)
(* operation/relate: RelateComputer::computeIM with EdgeEndBuilder,        *)
(* EdgeEndBundle and RelateNode; geom/IntersectionMatrix; and the          *)
(* predicates of Geometry that ask it.  Unlike an overlay, relate does not *)
(* split edges: it notes the intersections that are not proper, builds a   *)
(* stub of each edge on both sides of them, and labels the stubs around    *)
(* each node.  What it does not look at (edges that cross properly, edges  *)
(* that touch nothing) is settled by rules of their own.                   *)
(***************************************************************************)
EXTENDS GeometryGraph

CONSTANTS Inputs,    \* pairs of geometries
          NULL

VARIABLES pc, args,
          argNodes,  \* the node maps of the two arguments
          ei,        \* ei[a][k]: the intersections recorded on edge k of argument a
          isolated,  \* isolated[a]: the edges that meet no edge of the other argument
          proper,    \* [has, interior]: a proper intersection, one off the boundaries
          nodes,     \* the labels of the nodes
          star,      \* star[n]: the bundles of stubs at node n in CCW order
          im, error
vars == <<pc, args, argNodes, ei, isolated, proper, nodes, star, im, error>>

Rows == {INTERIOR, BOUNDARY, EXTERIOR}
False == -1    \* Dimension::False

edges(i) == edgesOf(i, args[i + 1])

getDimension(g) == IF g.polys # <<>> THEN 2 ELSE IF g.lines # <<>> THEN 1
                   ELSE IF g.points # <<>> THEN 0 ELSE False

\* Each line is looked at alone: lines that only together close a ring still have
\* a boundary here.
getBoundaryDimension(g) ==
    IF g.polys # <<>> THEN 1
    ELSE IF \E i \in DOMAIN g.lines : Head(g.lines[i]) # Last(g.lines[i]) THEN 0
    ELSE False

isEmpty(g) == getDimension(g) = False

\* Envelope::intersects and covers: a null envelope does neither.
envelopesMeet(a, b)   == ~isEmpty(a) /\ ~isEmpty(b) /\ envIntersects(geomEnv(a), geomEnv(b))
envelopeCovers(a, b)  == ~isEmpty(a) /\ ~isEmpty(b) /\ envContains(geomEnv(a), geomEnv(b))
envelopesEqual(a, b)  == IF isEmpty(a) \/ isEmpty(b) THEN isEmpty(a) /\ isEmpty(b)
                         ELSE geomEnv(a) = geomEnv(b)

-----------------------------------------------------------------------------
(* IntersectionMatrix                                                      *)

\* setAtLeastIfValid for each of the entries <<row, column, dimension>>
setAtLeast(m, entries) ==
    [rc \in Rows \X Rows |->
        LET ds == {x[3] : x \in {y \in entries : <<y[1], y[2]>> = rc}} \cup {m[rc]}
        IN  CHOOSE d \in ds : \A c \in ds : c <= d]

some(m, r, c) == m[<<r, c>>] >= 0
none(m, r, c) == m[<<r, c>>] = False
isDisjoint(m) == \A rc \in {INTERIOR, BOUNDARY} \X {INTERIOR, BOUNDARY} : m[rc] = False

\* Any two geometries touch in the same way, but two points never do.
isTouches(m, dA, dB) ==
    /\ {dA, dB} \subseteq 0..2 /\ {dA, dB} # {0}
    /\ none(m, INTERIOR, INTERIOR)
    /\ ~isDisjoint(m)

isCrosses(m, dA, dB) ==
    \/ /\ 0 <= dA /\ dA < dB
       /\ some(m, INTERIOR, INTERIOR) /\ some(m, INTERIOR, EXTERIOR)
    \/ /\ 0 <= dB /\ dB < dA
       /\ some(m, INTERIOR, INTERIOR) /\ some(m, EXTERIOR, INTERIOR)
    \/ dA = 1 /\ dB = 1 /\ m[<<INTERIOR, INTERIOR>>] = 0

isContains(m) == /\ some(m, INTERIOR, INTERIOR)
                 /\ none(m, EXTERIOR, INTERIOR) /\ none(m, EXTERIOR, BOUNDARY)

isWithin(m) == /\ some(m, INTERIOR, INTERIOR)
               /\ none(m, INTERIOR, EXTERIOR) /\ none(m, BOUNDARY, EXTERIOR)

isEquals(m, dA, dB) == dA = dB /\ isContains(m) /\ isWithin(m)

isOverlaps(m, dA, dB) ==
    /\ dA = dB /\ dA \in 0..2
    /\ IF dA = 1 THEN m[<<INTERIOR, INTERIOR>>] = 1 ELSE some(m, INTERIOR, INTERIOR)
    /\ some(m, INTERIOR, EXTERIOR) /\ some(m, EXTERIOR, INTERIOR)

isCovers(m) == /\ ~isDisjoint(m)
               /\ none(m, EXTERIOR, INTERIOR) /\ none(m, EXTERIOR, BOUNDARY)

isCoveredBy(m) == /\ ~isDisjoint(m)
                  /\ none(m, INTERIOR, EXTERIOR) /\ none(m, BOUNDARY, EXTERIOR)

-----------------------------------------------------------------------------
Init ==
    /\ pc = "computeIM" /\ args \in Inputs
    /\ argNodes = [i \in Arg |-> nodesOf(i, args[i + 1])]
    /\ ei = [i \in Arg |-> [k \in DOMAIN edges(i) |-> {}]]
    /\ isolated = [i \in Arg |-> DOMAIN edges(i)]
    /\ proper = [has |-> FALSE, interior |-> FALSE]
    /\ nodes = <<>> /\ star = <<>>
    /\ im = [rc \in Rows \X Rows |-> IF rc = <<EXTERIOR, EXTERIOR>> THEN 2 ELSE False]
    /\ error = NULL

\* The envelopes do not meet.
computeDisjointIM ==
    /\ pc = "computeIM" /\ ~envelopesMeet(args[1], args[2])
    /\ im' = [im EXCEPT ![<<INTERIOR, EXTERIOR>>] = getDimension(args[1]),
                        ![<<BOUNDARY, EXTERIOR>>] = getBoundaryDimension(args[1]),
                        ![<<EXTERIOR, INTERIOR>>] = getDimension(args[2]),
                        ![<<EXTERIOR, BOUNDARY>>] = getBoundaryDimension(args[2])]
    /\ pc' = "related"
    /\ UNCHANGED <<args, argNodes, ei, isolated, proper, nodes, star, error>>

computeSelfNodes ==
    /\ pc = "computeIM" /\ envelopesMeet(args[1], args[2])
    /\ ei' = [i \in Arg |-> Table(selfIntersections(args[i + 1], edges(i), DOMAIN edges(i)))]
    /\ argNodes' = [i \in Arg |->
          addSelfIntersectionNodes(argNodes[i], i, args[i + 1], edges(i), ei'[i])]
    /\ pc' = "computeEdgeIntersections"
    /\ UNCHANGED <<args, isolated, proper, nodes, star, im, error>>

-----------------------------------------------------------------------------
(* Intersections of the edges of the two arguments (SegmentIntersector).   *)
\* The meeting segments of two edges: <<segment of e, of f, where, proper>>
meetings(e, f) ==
    {x \in {LET p == e[i + 1]  q == e[i + 2]  r == f[j + 1]  s == f[j + 2]
            IN  <<i, computeIntersection(p, q, r, s), isProper(p, q, r, s)>> :
            i \in 0..(Len(e) - 2), j \in 0..(Len(f) - 2)} : x[2] # {}}

\* Only the intersections that are not proper are recorded on the edges.
recorded(e, meets) == UNION {{addIntersection(e, x[1], p) : p \in x[2]} : x \in {y \in meets : ~y[3]}}

boundaryNodes == UNION {{p \in DOMAIN argNodes[i] : argNodes[i][p] = BOUNDARY} : i \in Arg}

computeEdgeIntersections ==
    /\ pc = "computeEdgeIntersections"
    /\ \E met \in {[i \in Arg |-> Table([k \in DOMAIN edges(i) |->
                      UNION {meetings(edges(i)[k].pts, edges(1 - i)[m].pts) :
                                m \in DOMAIN edges(1 - i)}])]} :
          LET crossings == {x[2] : x \in {y \in UNION Range(met[0]) : y[3]}}
          IN  /\ ei' = [i \in Arg |-> Table([k \in DOMAIN ei[i] |->
                           ei[i][k] \cup recorded(edges(i)[k].pts, met[i][k])])]
              /\ isolated' = [i \in Arg |-> {k \in isolated[i] : met[i][k] = {}}]
              /\ proper' = [has |-> crossings # {},
                            interior |-> \E c \in crossings : c \cap boundaryNodes = {}]
    /\ pc' = "computeNodes"
    /\ UNCHANGED <<args, argNodes, nodes, star, im, error>>

-----------------------------------------------------------------------------
(* The nodes.                                                              *)
setLabelBoundary(loc) == IF loc = BOUNDARY THEN INTERIOR ELSE BOUNDARY

\* Of the intersections on the edges of argument i: each ring through a node
\* flips its location, a line makes it interior if it has none.
computeIntersectionNodes(i) ==
    LET es == edges(i)
        one(loc, ns, p) ==
            insertPoint(ns, p, IF loc = BOUNDARY THEN setLabelBoundary(locationAt(ns, p))
                               ELSE IF locationAt(ns, p) = UNDEF THEN INTERIOR ELSE locationAt(ns, p))
        ofEdge(ns, k) == FoldLeft(LAMBDA m, x : one(getLocation(es[k].label, i, ON), m, x[3]),
                                  ns, inOrder(ei[i][k]))
    IN  FoldLeft(ofEdge, <<>>, [k \in DOMAIN es |-> k])

\* Mutant: the labels of intersections are kept.
copyNodesAndLabels_Keeps(i, found) == found @@ argNodes[i]

\* The labels the nodes have in the argument itself override those found.
copyNodesAndLabels(i, found) == argNodes[i] @@ found

computeNodes ==
    /\ pc = "computeNodes"
    /\ \E of \in {[i \in Arg |-> copyNodesAndLabels(i, computeIntersectionNodes(i))]} :
          nodes' = Table([p \in DOMAIN of[0] \cup DOMAIN of[1] |->
                             [i \in Arg |-> <<locationAt(of[i], p)>>]])
    /\ pc' = "labelIsolatedNodes"
    /\ UNCHANGED <<args, argNodes, ei, isolated, proper, star, im, error>>

labelIsolatedNode(p) ==
    [i \in Arg |-> IF getGeometryCount(nodes[p]) = 1 /\ isNull(nodes[p], i)
                   THEN <<locate(p, args[i + 1])>> ELSE nodes[p][i]]

labelIsolatedNodes ==
    /\ pc = "labelIsolatedNodes"
    /\ nodes' = Table([p \in DOMAIN nodes |-> labelIsolatedNode(p)])
    /\ pc' = "computeProperIntersectionIM"
    /\ UNCHANGED <<args, argNodes, ei, isolated, proper, star, im, error>>

\* What a proper intersection tells at least, for the dimensions of the arguments.
properEntries(dA, dB) ==
    LET all(S) == IF proper.has THEN S ELSE {}
        inner(S) == IF proper.interior THEN S ELSE {}
        I == INTERIOR  B == BOUNDARY  E == EXTERIOR
    IN  CASE dA = 2 /\ dB = 2 -> all({<<I, I, 2>>, <<I, B, 1>>, <<I, E, 2>>, <<B, I, 1>>, <<B, B, 0>>,
                                      <<B, E, 1>>, <<E, I, 2>>, <<E, B, 1>>, <<E, E, 2>>})
          [] dA = 2 /\ dB = 1 -> all({<<B, I, 0>>, <<E, E, 2>>}) \cup inner({<<I, I, 1>>, <<E, I, 1>>})
          [] dA = 1 /\ dB = 2 -> all({<<I, B, 0>>, <<E, E, 2>>}) \cup inner({<<I, I, 1>>, <<I, E, 1>>})
          [] dA = 1 /\ dB = 1 -> inner({<<I, I, 0>>})
          [] OTHER -> {}

computeProperIntersectionIM ==
    /\ pc = "computeProperIntersectionIM"
    /\ im' = setAtLeast(im, properEntries(getDimension(args[1]), getDimension(args[2])))
    /\ pc' = "insertEdgeEnds"
    /\ UNCHANGED <<args, argNodes, ei, isolated, proper, nodes, star, error>>

-----------------------------------------------------------------------------
(* The stubs of the edges at the nodes.                                    *)
edgeEnds == FlattenSeq([a \in 1..2 |->
    FlattenSeq([k \in DOMAIN edges(a - 1) |-> computeEdgeEnds(edges(a - 1)[k], ei[a - 1][k])])])

insertEdgeEnds ==
    /\ pc = "insertEdgeEnds"
    /\ \E ends \in {edgeEnds} :
          LET ps == {ends[k].from : k \in DOMAIN ends} \cup DOMAIN nodes
          IN  /\ star' = Table([p \in ps |-> bundles(ends, p)])
              /\ nodes' = Table([p \in ps |-> IF p \in DOMAIN nodes THEN nodes[p] ELSE NullLabel])
    /\ pc' = "labelNodeEdges"
    /\ UNCHANGED <<args, argNodes, ei, isolated, proper, im, error>>

\* EdgeEndStar::computeLabelling around p: the labels, and whether they agree
computeLabelling(p) ==
    LET ls == [k \in DOMAIN star[p] |-> bundleLabel(star[p][k])]
        around == [i \in Arg |-> propagateSideLabels([k \in DOMAIN ls |-> ls[k][i]])]
        tls == [i \in Arg |-> completeLabels(around[i].out, p, args[i + 1])]
    IN  [ok |-> around[0].ok /\ around[1].ok,
         labels |-> [k \in DOMAIN ls |-> [i \in Arg |-> tls[i][k]]]]

labelNodeEdges ==
    /\ pc = "labelNodeEdges"
    /\ \E labelled \in {Table([p \in DOMAIN star |-> computeLabelling(p)])} :
          IF \A p \in DOMAIN star : labelled[p].ok
          THEN /\ star' = Table([p \in DOMAIN star |-> labelled[p].labels])
               /\ pc' = "updateIM" /\ UNCHANGED error
          ELSE pc' = "failed" /\ error' = "side location conflict" /\ UNCHANGED star
    /\ UNCHANGED <<args, argNodes, ei, isolated, proper, nodes, im>>

-----------------------------------------------------------------------------
(* The matrix.                                                             *)

\* An isolated edge lies on one side of the other argument: its first point tells.
labelIsolatedEdge(i, e) ==
    LET target == args[2 - i]
        loc == IF getDimension(target) > 0 THEN locate(e.pts[1], target) ELSE EXTERIOR
    IN  [e.label EXCEPT ![1 - i] = [k \in DOMAIN @ |-> loc]]

\* Edge::updateIM; locations that are undefined count for nothing.
edgeEntries(label) ==
    LET at(pos, d) == <<getLocation(label, 0, pos), getLocation(label, 1, pos), d>>
    IN  {at(ON, 1)} \cup IF isArea(label) THEN {at(LEFT, 2), at(RIGHT, 2)} ELSE {}

nodeEntry(p) == <<nodes[p][0][ON], nodes[p][1][ON], 0>>

updateIM ==
    /\ pc = "updateIM"
    /\ LET ofIsolated == UNION {{labelIsolatedEdge(i, edges(i)[k]) : k \in isolated[i]} : i \in Arg}
           ofStubs == UNION {ToSet(star[p]) : p \in DOMAIN star}
       IN  im' = setAtLeast(im, {nodeEntry(p) : p \in DOMAIN nodes}
                                  \cup UNION {edgeEntries(l) : l \in ofIsolated \cup ofStubs})
    /\ pc' = "related"
    /\ UNCHANGED <<args, argNodes, ei, isolated, proper, nodes, star, error>>

Next ==
    \/ computeDisjointIM \/ computeSelfNodes \/ computeEdgeIntersections
    \/ computeNodes \/ labelIsolatedNodes \/ computeProperIntersectionIM
    \/ insertEdgeEnds \/ labelNodeEdges \/ updateIM

Spec == Init /\ [][Next]_vars

-----------------------------------------------------------------------------
(* The predicates of Geometry: the envelopes first, then a rectangle, then *)
(* the matrix m of a and b.                                                *)
Rect == INSTANCE PreparedPredicates

asParts(g) ==
    [dim |-> getDimension(g),
     parts |-> [i \in DOMAIN g.polys |-> polyRings(g.polys[i])]
                  \o [i \in DOMAIN g.lines |-> <<g.lines[i]>>]
                  \o [i \in DOMAIN g.points |-> <<<<g.points[i]>>>>]]

isRectangle(g) == Rect!isRectangle(asParts(g))

intersects(a, b, m) ==
    /\ envelopesMeet(a, b)
    /\ IF isRectangle(a) THEN Rect!rectangleIntersects(asParts(a), asParts(b))
       ELSE IF isRectangle(b) THEN Rect!rectangleIntersects(asParts(b), asParts(a))
       ELSE ~isDisjoint(m)

contains(a, b, m) ==
    /\ envelopeCovers(a, b)
    /\ IF isRectangle(a) THEN Rect!rectangleContains(asParts(a), asParts(b)) ELSE isContains(m)

covers(a, b, m) == envelopeCovers(a, b) /\ (isRectangle(a) \/ isCovers(m))

disjoint(a, b, m) == envelopesMeet(a, b) => isDisjoint(m)
touches(a, b, m)  == envelopesMeet(a, b) /\ isTouches(m, getDimension(a), getDimension(b))
crosses(a, b, m)  == envelopesMeet(a, b) /\ isCrosses(m, getDimension(a), getDimension(b))
overlaps(a, b, m) == envelopesMeet(a, b) /\ isOverlaps(m, getDimension(a), getDimension(b))

equals(a, b, m) ==
    /\ envelopesEqual(a, b)
    /\ IF isEmpty(a) \/ isEmpty(b) THEN isEmpty(a) /\ isEmpty(b)
       ELSE isEquals(m, getDimension(a), getDimension(b))
=============================================================================
