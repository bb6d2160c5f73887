----------------------------- MODULE OverlayOp ------------------------------
(***************************************************************************)
(* operation/overlay: OverlayOp::computeOverlay, with PolygonBuilder,      *)
(* LineBuilder and PointBuilder and the parts of geomgraph they use.  The  *)
(* two arguments are noded together, coincident edges are merged, every    *)
(* edge and node is labelled with its location in both arguments, and the  *)
(* polygons, then the lines, then the points of the result are built from  *)
(* the labels.  A TopologyException ends the operation at any of several   *)
(* points; so may an interruption.                                         *)
(*                                                                         *)
(* Arithmetic is exact here: rounding, and what the callers do against it  *)
(* (snapping, reduced precision), is left out.                             *)
(***************************************************************************)
EXTENDS GeometryGraph

CONSTANTS Inputs,     \* pairs of geometries
          OpCode,     \* the operations to run
          NULL

OpCodes == {"INTERSECTION", "UNION", "DIFFERENCE", "SYMDIFFERENCE"}
ASSUME OverlayAssumption == OpCode \subseteq OpCodes

VARIABLES
    pc,            \* the next step of computeOverlay
    args, opCode, env,
    argNodes,      \* the node maps of the two arguments
    ei,            \* ei[a][k]: the intersections recorded on edge k of argument a
    splits,        \* baseSplitEdges not yet inserted
    edgeList,      \* the unique edges: points, label, depth
    nodes,         \* the labels of the nodes of the result graph
    star,          \* star[n]: the directed edges at node n in CCW order
    deLabel,       \* the labels of the directed edges
    todo,          \* nodes or rings a loop has not reached yet
    inResult,      \* directed edges in the result
    next,          \* DirectedEdge::next
    maxEdgeRings,  \* the maximal edge rings, as sequences of directed edges
    shellList, freeHoleList, edgeRings,
    edgeInResult,  \* edges whose linework is in the result
    covered,       \* Edge::isCovered, NULL until it is set
    lines, points, \* result lines (as edges) and points
    error          \* what a TopologyException said
vars == <<pc, args, opCode, env, argNodes, ei, splits, edgeList, nodes, star, deLabel, todo,
          inResult, next, maxEdgeRings, shellList, freeHoleList, edgeRings,
          edgeInResult, covered, lines, points, error>>

input   == <<args, opCode, env>>
noding  == <<argNodes, ei, splits>>
graph   == <<edgeList, nodes, star, deLabel>>
areas   == <<inResult, next, maxEdgeRings, shellList, freeHoleList, edgeRings>>
results == <<edgeInResult, covered, lines, points>>

-----------------------------------------------------------------------------
(* The target envelope.  A null envelope intersects and covers nothing.    *)
NullEnv == [minx |-> 0, maxx |-> -1, miny |-> 0, maxy |-> -1]

envIntersection(e, f) ==
    LET lesser(x, y) == IF x < y THEN x ELSE y
    IN  IF ~envIntersects(e, f) THEN NullEnv
        ELSE [minx |-> Larger(e.minx, f.minx), maxx |-> lesser(e.maxx, f.maxx),
              miny |-> Larger(e.miny, f.miny), maxy |-> lesser(e.maxy, f.maxy)]

\* The result precision model is the more precise one of the arguments.
resultIsFloating(a) == a[1].floating \/ a[2].floating

targetEnv(a, op) ==
    IF ~resultIsFloating(a) THEN NULL
    ELSE CASE op = "INTERSECTION" -> envIntersection(geomEnv(a[1]), geomEnv(a[2]))
           [] op = "DIFFERENCE"   -> geomEnv(a[1])
           [] OTHER               -> NULL

ptEnv(p) == Envelope(<<p>>)

\* env is absent, or not null and meets the envelope e
reaches(e) == env = NULL \/ (env # NullEnv /\ envIntersects(env, e))

Blank ==
    /\ splits = <<>> /\ edgeList = <<>> /\ nodes = <<>> /\ star = <<>> /\ deLabel = <<>>
    /\ todo = <<>> /\ inResult = {} /\ next = <<>> /\ maxEdgeRings = <<>>
    /\ shellList = <<>> /\ freeHoleList = <<>> /\ edgeRings = <<>>
    /\ edgeInResult = {} /\ covered = <<>> /\ lines = <<>> /\ points = <<>>
    /\ error = NULL

Start(a, op) ==
    /\ args = a /\ opCode = op
    /\ env = targetEnv(a, op)
    /\ argNodes = [i \in Arg |-> nodesOf(i, a[i + 1])]
    /\ ei = [i \in Arg |-> [k \in DOMAIN edgesOf(i, a[i + 1]) |-> {}]]
    /\ Blank

Init == pc = "copyPoints" /\ \E a \in Inputs, op \in OpCode : Start(a, op)

throw(msg) == pc' = "failed" /\ error' = msg

-----------------------------------------------------------------------------
(* Noding.                                                                 *)
newNode(p) == IF p \in DOMAIN nodes THEN nodes[p] ELSE NullLabel

copyPoints ==
    /\ pc = "copyPoints"
    /\ nodes' =
         LET copied(i) == {p \in DOMAIN argNodes[i] : reaches(ptEnv(p))}
         IN  Table([p \in copied(0) \cup copied(1) |->
                [i \in Arg |-> <<IF p \in copied(i) THEN argNodes[i][p] ELSE UNDEF>>]])
    /\ pc' = "computeSelfNodes" /\ todo' = <<0, 1>>
    /\ UNCHANGED <<input, noding, edgeList, star, deLabel, areas, results, error>>

\* The edges of an argument that are noded: those that meet the envelope,
\* unless it covers the whole argument.
nodedEdges(i) ==
    LET es == edgesOf(i, args[i + 1])
    IN  IF env = NULL \/ (env # NullEnv /\ envContains(env, geomEnv(args[i + 1])))
        THEN DOMAIN es ELSE {k \in DOMAIN es : reaches(Envelope(es[k].pts))}

computeSelfNodes ==
    /\ pc = "computeSelfNodes"
    /\ LET i == Head(todo)
       IN  /\ ei' = [ei EXCEPT ![i] = Table(selfIntersections(args[i + 1], edgesOf(i, args[i + 1]), nodedEdges(i)))]
           /\ argNodes' = [argNodes EXCEPT ![i] =
                 addSelfIntersectionNodes(@, i, args[i + 1], edgesOf(i, args[i + 1]), ei'[i])]
    /\ todo' = Tail(todo)
    /\ pc' = IF todo' = <<>> THEN "computeEdgeIntersections" ELSE pc
    /\ UNCHANGED <<input, splits, graph, areas, results, error>>

computeEdgeIntersections ==
    /\ pc = "computeEdgeIntersections"
    /\ LET es == [i \in Arg |-> edgesOf(i, args[i + 1])]
           withOther(i, k) == UNION {intersectionsOn(es[i][k].pts, es[1 - i][m].pts, FALSE) :
                                        m \in nodedEdges(1 - i)}
       IN  ei' = [i \in Arg |-> Table([k \in DOMAIN ei[i] |->
                    ei[i][k] \cup IF k \in nodedEdges(i) THEN withOther(i, k) ELSE {}])]
    /\ pc' = "computeSplitEdges"
    /\ UNCHANGED <<input, argNodes, splits, graph, todo, areas, results, error>>

computeSplitEdges ==
    /\ pc = "computeSplitEdges"
    /\ LET of(i) == LET es == edgesOf(i, args[i + 1])
                    IN  FlattenSeq([k \in DOMAIN es |-> addSplitEdges(es[k], ei[i][k])])
       IN  splits' = of(0) \o of(1)
    /\ pc' = "insertUniqueEdges"
    /\ UNCHANGED <<input, argNodes, ei, graph, todo, areas, results, error>>

-----------------------------------------------------------------------------
(* Coincident edges are merged into one.                                   *)
equalEdges(p, q) == p = q \/ p = Reverse(q)

\* Mutant: the label of an edge that runs the other way is not flipped.
insertUniqueEdge_NoFlip(e) ==
    LET found == {k \in DOMAIN edgeList : equalEdges(edgeList[k].pts, e.pts)}
    IN  IF found = {}
        THEN Append(edgeList, [pts |-> e.pts, label |-> e.label, depth |-> NullDepth])
        ELSE LET k   == CHOOSE x \in found : TRUE
                 old == edgeList[k]
                 d   == IF isNullDepth(old.depth) THEN addDepth(old.depth, old.label)
                        ELSE old.depth
             IN  [edgeList EXCEPT ![k] =
                    [pts |-> old.pts, label |-> merge(old.label, e.label),
                     depth |-> addDepth(d, e.label)]]

insertUniqueEdge(e) ==
    LET found == {k \in DOMAIN edgeList : equalEdges(edgeList[k].pts, e.pts)}
    IN  IF found = {}
        THEN Append(edgeList, [pts |-> e.pts, label |-> e.label, depth |-> NullDepth])
        ELSE LET k   == CHOOSE x \in found : TRUE
                 old == edgeList[k]
                 lbl == IF old.pts = e.pts THEN e.label ELSE flip(e.label)
                 d   == IF isNullDepth(old.depth) THEN addDepth(old.depth, old.label)
                        ELSE old.depth
             IN  [edgeList EXCEPT ![k] =
                    [pts |-> old.pts, label |-> merge(old.label, lbl), depth |-> addDepth(d, lbl)]]

insertUniqueEdges ==
    /\ pc = "insertUniqueEdges" /\ splits # <<>>
    /\ edgeList' = IF reaches(Envelope(Head(splits).pts))
                   THEN insertUniqueEdge(Head(splits)) ELSE edgeList
    /\ splits' = Tail(splits)
    /\ UNCHANGED <<pc, input, argNodes, ei, nodes, star, deLabel, todo, areas, results, error>>

\* Mutant: labels are left as merging made them.
labelFromDepth_Skipped(e) == e

\* An edge whose depths are the same on both sides has collapsed to a line; the
\* others get the sides their depths tell.
labelFromDepth(e) ==
    LET d == normalize(e.depth)
    IN  IF isNullDepth(e.depth) THEN e
        ELSE [e EXCEPT !.depth = d, !.label = [i \in Arg |->
                IF isNull(e.label, i) \/ ~isArea(e.label) \/ isNullDepthAt(d, i) THEN e.label[i]
                ELSE IF getDelta(d, i) = 0 THEN toLine(e.label[i])
                ELSE <<e.label[i][ON], depthLocation(d, i, LEFT), depthLocation(d, i, RIGHT)>>]]

replaceCollapsedEdge(e) ==
    IF isArea(e.label) /\ Len(e.pts) = 3 /\ e.pts[1] = e.pts[3]
    THEN [pts |-> SubSeq(e.pts, 1, 2), label |-> toLineLabel(e.label), depth |-> NullDepth]
    ELSE e

computeLabelsFromDepths ==
    /\ pc = "insertUniqueEdges" /\ splits = <<>>
    /\ edgeList' = [k \in DOMAIN edgeList |-> replaceCollapsedEdge(labelFromDepth(edgeList[k]))]
    /\ pc' = "checkValid"
    /\ UNCHANGED <<input, noding, nodes, star, deLabel, todo, areas, results, error>>

\* EdgeNodingValidator: no two segments meet in the interior of one of them.
isNoded(es) ==
    \A k, m \in DOMAIN es : k <= m =>
        \A i \in 1..(Len(es[k].pts) - 1), j \in 1..(Len(es[m].pts) - 1) :
            (k # m \/ i < j) =>
                LET a == {es[k].pts[i], es[k].pts[i + 1]}
                    b == {es[m].pts[j], es[m].pts[j + 1]}
                IN  computeIntersection(es[k].pts[i], es[k].pts[i + 1],
                                        es[m].pts[j], es[m].pts[j + 1]) \subseteq a \cap b

checkValid ==
    /\ pc = "checkValid"
    /\ IF isNoded(edgeList) THEN pc' = "addEdges" /\ UNCHANGED error
                            ELSE throw("found non-noded intersection")
    /\ UNCHANGED <<input, noding, graph, todo, areas, results>>

-----------------------------------------------------------------------------
(* The directed edges of the result graph, in the order of getEdgeEnds(),  *)
(* and their stars.                                                        *)
dirEdges == FlattenSeq([k \in DOMAIN edgeList |-> <<<<k, TRUE>>, <<k, FALSE>>>>])

getSym(d) == <<d[1], ~d[2]>>

dirPts(d) == IF d[2] THEN edgeList[d[1]].pts ELSE Reverse(edgeList[d[1]].pts)

\* PlanarGraph::addEdges
addEdgesTo(step) ==
    /\ \E pts \in {Table([d \in ToSet(dirEdges) |-> dirPts(d)])} :
         LET ns == {pts[d][1] : d \in DOMAIN pts} \cup DOMAIN nodes
             at(n) == {d \in DOMAIN pts : pts[d][1] = n}
         IN  /\ nodes' = Table([n \in ns |-> newNode(n)])
             /\ star' = Table([n \in ns |->
                    SortSet(at(n), LAMBDA d, e : compareDirection(pts[d], pts[e]) < 0)])
             /\ todo' = sortNodes(ns)
    /\ deLabel' = Table([d \in ToSet(dirEdges) |->
          IF d[2] THEN edgeList[d[1]].label ELSE flip(edgeList[d[1]].label)])
    /\ pc' = step

addEdges ==
    /\ pc = "addEdges"
    /\ addEdgesTo("computeLabelling")
    /\ UNCHANGED <<input, noding, edgeList, areas, results, error>>

-----------------------------------------------------------------------------
computeLabelling ==
    /\ pc = "computeLabelling" /\ todo # <<>>
    /\ LET n == Head(todo)
           s == star[n]
           around == [i \in Arg |-> propagateSideLabels([k \in DOMAIN s |-> deLabel[s[k]][i]])]
           tls == [i \in Arg |-> completeLabels(around[i].out, n, args[i + 1])]
       IN  IF \A i \in Arg : around[i].ok
           THEN /\ deLabel' = Table([d \in DOMAIN deLabel |->
                      IF d \notin ToSet(s) THEN deLabel[d]
                      ELSE LET k == CHOOSE j \in DOMAIN s : s[j] = d
                           IN  [i \in Arg |-> tls[i][k]]])
                /\ todo' = Tail(todo)
                /\ UNCHANGED <<pc, error>>
           ELSE throw("side location conflict") /\ UNCHANGED <<deLabel, todo>>
    /\ UNCHANGED <<input, noding, edgeList, nodes, star, areas, results>>

\* The label of a star: an argument with an edge here has the node in it.
starLabel(n) ==
    [i \in Arg |-> <<IF \E k \in DOMAIN star[n] :
                          getLocation(edgeList[star[n][k][1]].label, i, ON) \in {INTERIOR, BOUNDARY}
                    THEN INTERIOR ELSE UNDEF>>]

mergeSymLabels ==
    /\ pc = "computeLabelling" /\ todo = <<>>
    /\ LET order == FlattenSeq([k \in DOMAIN sortNodes(DOMAIN nodes) |->
                                  star[sortNodes(DOMAIN nodes)[k]]])
       IN  deLabel' = FoldLeft(LAMBDA f, d : [f EXCEPT ![d] = merge(@, f[getSym(d)])],
                               deLabel, order)
    /\ nodes' = Table([n \in DOMAIN nodes |-> merge(nodes[n], starLabel(n))])
    /\ pc' = "labelIncompleteNodes"
    /\ UNCHANGED <<input, noding, edgeList, star, todo, areas, results, error>>

isIsolated(n) == getGeometryCount(nodes[n]) = 1

\* Mutant: only the first argument is looked at.
labelIncompleteNode_FirstOnly(n) ==
    IF isIsolated(n) /\ isNull(nodes[n], 0)
    THEN [nodes[n] EXCEPT ![0] = [@ EXCEPT ![ON] = locate(n, args[1])]]
    ELSE nodes[n]

labelIncompleteNode(n) ==
    LET target == IF isNull(nodes[n], 0) THEN 0 ELSE 1
    IN  IF isIsolated(n)
        THEN [nodes[n] EXCEPT ![target] = [@ EXCEPT ![ON] = locate(n, args[target + 1])]]
        ELSE nodes[n]

labelIncompleteNodes ==
    /\ pc = "labelIncompleteNodes"
    /\ nodes' = Table([n \in DOMAIN nodes |-> labelIncompleteNode(n)])
    /\ deLabel' = Table([d \in DOMAIN deLabel |->
          [i \in Arg |-> setAllIfNull(deLabel[d][i],
                                      getLocation(nodes'[Head(dirPts(d))], i, ON))]])
    /\ pc' = "findResultAreaEdges"
    /\ UNCHANGED <<input, noding, edgeList, star, todo, areas, results, error>>

-----------------------------------------------------------------------------
(* Which edges bound the result area.                                      *)
isResultOfOp(loc0, loc1, op) ==
    LET in0 == loc0 \in {INTERIOR, BOUNDARY}
        in1 == loc1 \in {INTERIOR, BOUNDARY}
    IN  CASE op = "INTERSECTION"  -> in0 /\ in1
          [] op = "UNION"         -> in0 \/ in1
          [] op = "DIFFERENCE"    -> in0 /\ ~in1
          [] op = "SYMDIFFERENCE" -> in0 # in1

isInteriorAreaEdge(lbl) == \A i \in Arg :
    isAreaAt(lbl, i) /\ lbl[i][LEFT] = INTERIOR /\ lbl[i][RIGHT] = INTERIOR

isLineEdge(lbl) ==
    /\ \E i \in Arg : isLineAt(lbl, i)
    /\ \A i \in Arg : isAreaAt(lbl, i) => allPositionsEqual(lbl, i, EXTERIOR)

findResultAreaEdges ==
    /\ pc = "findResultAreaEdges"
    /\ LET marked == {d \in DOMAIN deLabel :
                        /\ isArea(deLabel[d])
                        /\ ~isInteriorAreaEdge(deLabel[d])
                        /\ isResultOfOp(getLocation(deLabel[d], 0, RIGHT),
                                        getLocation(deLabel[d], 1, RIGHT), opCode)}
       IN  \* cancelDuplicateResultEdges
           inResult' = {d \in marked : getSym(d) \notin marked}
    /\ pc' = "linkResultDirectedEdges"
    /\ UNCHANGED <<input, noding, graph, todo, next, maxEdgeRings, shellList, freeHoleList,
                   edgeRings, results, error>>

-----------------------------------------------------------------------------
(* PolygonBuilder.  Around a node, in the order given, each incoming edge  *)
(* of the set Rs is linked to the next outgoing one; the last incoming one *)
(* to the first outgoing.  Gives the links made, and the incoming edge     *)
(* that found no partner (or NULL).                                        *)
linkAround(order, Rs) ==
    LET visit(acc, out) ==
            LET first == IF acc.firstOut = NULL /\ out \in Rs THEN out ELSE acc.firstOut
            IN  IF acc.incoming = NULL
                THEN [acc EXCEPT !.firstOut = first,
                                 !.incoming = IF getSym(out) \in Rs THEN getSym(out) ELSE NULL]
                ELSE IF out \in Rs
                THEN [firstOut |-> first, incoming |-> NULL,
                      links |-> acc.links \cup {<<acc.incoming, out>>}]
                ELSE [acc EXCEPT !.firstOut = first]
        end == FoldLeft(visit, [firstOut |-> NULL, incoming |-> NULL, links |-> {}], order)
    IN  IF end.incoming = NULL THEN [links |-> end.links, stray |-> FALSE]
        ELSE IF end.firstOut = NULL THEN [links |-> end.links, stray |-> TRUE]
        ELSE [links |-> end.links \cup {<<end.incoming, end.firstOut>>}, stray |-> FALSE]

resultAreaEdges(n) ==
    SelectSeq(star[n], LAMBDA d : d \in inResult \/ getSym(d) \in inResult)

asFunction(links, D) ==
    Table([d \in D |-> LET out == {l[2] : l \in {x \in links : x[1] = d}}
                       IN  IF out = {} THEN NULL ELSE CHOOSE o \in out : TRUE])

linkResultDirectedEdges ==
    /\ pc = "linkResultDirectedEdges"
    /\ \E linked \in {Table([n \in DOMAIN star |->
            linkAround(SelectSeq(resultAreaEdges(n), LAMBDA d : isArea(deLabel[d])), inResult)])} :
         IF \E n \in DOMAIN linked : linked[n].stray
         THEN throw("no outgoing dirEdge found") /\ UNCHANGED next
         ELSE /\ next' = asFunction(UNION {linked[n].links : n \in DOMAIN linked}, DOMAIN deLabel)
              /\ pc' = "buildMaximalEdgeRings"
              /\ UNCHANGED error
    /\ UNCHANGED <<input, noding, graph, todo, inResult, maxEdgeRings, shellList, freeHoleList,
                   edgeRings, results>>

\* computePoints: follow nxt from d until d is met again, or nothing follows,
\* or an edge of this ring is met for the second time.
walk(d, nxt) ==
    LET go(acc, i) ==
            IF acc.end # "open" THEN acc
            ELSE LET e == nxt[Last(acc.ring)]
                 IN  [ring |-> IF e = NULL \/ e \in ToSet(acc.ring) THEN acc.ring
                               ELSE Append(acc.ring, e),
                      end  |-> IF e = d THEN "closed" ELSE IF e = NULL THEN "null"
                               ELSE IF e \in ToSet(acc.ring) THEN "twice" ELSE "open"]
    IN  FoldLeft(go, [ring |-> <<d>>, end |-> "open"], [i \in 1..(Cardinality(DOMAIN nxt) + 1) |-> i])

ringPts(ring) ==
    FoldLeft(LAMBDA acc, d : IF acc = <<>> THEN dirPts(d) ELSE acc \o Tail(dirPts(d)), <<>>, ring)

isHole(ring) == isCCW(ringPts(ring))

\* The ring a directed edge was last put in.
edgeRing(d) == LET in == {k \in DOMAIN maxEdgeRings : d \in ToSet(maxEdgeRings[k])}
               IN  IF in = {} THEN 0 ELSE CHOOSE k \in in : \A j \in in : j <= k

unringed == SelectSeq(dirEdges, LAMBDA d :
    d \in inResult /\ isArea(deLabel[d]) /\ edgeRing(d) = 0)

buildMaximalEdgeRings ==
    /\ pc = "buildMaximalEdgeRings"
    /\ IF unringed = <<>>
       THEN /\ todo' = [k \in DOMAIN maxEdgeRings |-> k]
            /\ pc' = "buildMinimalEdgeRings"
            /\ UNCHANGED <<maxEdgeRings, edgeInResult, error>>
       ELSE LET w == walk(Head(unringed), next)
            IN  IF w.end = "closed" /\ Len(ringPts(w.ring)) > 3
                THEN /\ maxEdgeRings' = Append(maxEdgeRings, w.ring)
                     /\ edgeInResult' = edgeInResult \cup {d[1] : d \in ToSet(w.ring)}
                     /\ UNCHANGED <<pc, todo, error>>
                ELSE /\ throw(w.end)
                     /\ UNCHANGED <<maxEdgeRings, edgeInResult, todo>>
    /\ UNCHANGED <<input, noding, graph, inResult, next, shellList, freeHoleList, edgeRings,
                   covered, lines, points>>

\* linkDirectedEdgesForMinimalEdgeRings and buildMinimalRings
minimalRings(k) ==
    LET ring  == maxEdgeRings[k]
        er    == {d \in ToSet(ring) : edgeRing(d) = k}
        ns    == {Head(dirPts(d)) : d \in ToSet(ring)}
        links == UNION {linkAround(Reverse(resultAreaEdges(n)), er).links : n \in ns}
        nextMin == asFunction(links, DOMAIN deLabel)
        visit(acc, d) == IF \E i \in DOMAIN acc : d \in ToSet(acc[i].ring) THEN acc
                         ELSE Append(acc, walk(d, nextMin))
    IN  FoldLeft(visit, <<>>, ring)

\* Mutant: no ring is found to pass twice through a node.
getMaxNodeDegree_Two(k) == 2

getMaxNodeDegree(k) ==
    LET outDegree(n) == Cardinality({j \in DOMAIN star[n] : edgeRing(star[n][j]) = k})
        degrees == {outDegree(Head(dirPts(d))) : d \in ToSet(maxEdgeRings[k])}
    IN  2 * CHOOSE m \in degrees : \A x \in degrees : x <= m

buildMinimalEdgeRings ==
    /\ pc = "buildMinimalEdgeRings" /\ todo # <<>>
    /\ IF getMaxNodeDegree(Head(todo)) <= 2
       THEN /\ edgeRings' = Append(edgeRings, maxEdgeRings[Head(todo)])
            /\ UNCHANGED <<pc, shellList, freeHoleList, error>>
       ELSE \E walks \in {minimalRings(Head(todo))} :
            LET rings  == [i \in DOMAIN walks |-> walks[i].ring]
                shells == SelectSeq(rings, LAMBDA r : ~isHole(r))
                holes  == SelectSeq(rings, LAMBDA r : isHole(r))
                broken == \E i \in DOMAIN walks : walks[i].end # "closed"
            IN  /\ shellList' = IF Len(shells) = 1
                       THEN Append(shellList, [ring |-> Head(shells), holes |-> holes]) ELSE shellList
                /\ freeHoleList' = IF shells = <<>> THEN freeHoleList \o holes ELSE freeHoleList
                /\ pc' = IF broken \/ Len(shells) > 1 THEN "failed" ELSE pc
                /\ error' = IF broken THEN "found null Directed Edge"
                            ELSE IF Len(shells) > 1 THEN "found two shells in MinimalEdgeRing list"
                            ELSE error
                /\ UNCHANGED edgeRings
    /\ todo' = Tail(todo)
    /\ UNCHANGED <<input, noding, graph, inResult, next, maxEdgeRings, results>>

sortShellsAndHoles ==
    /\ pc = "buildMinimalEdgeRings" /\ todo = <<>>
    /\ LET shells == SelectSeq(edgeRings, LAMBDA r : ~isHole(r))
       IN  shellList' = shellList \o [i \in DOMAIN shells |-> [ring |-> shells[i], holes |-> <<>>]]
    /\ freeHoleList' = freeHoleList \o SelectSeq(edgeRings, isHole)
    /\ pc' = "placeFreeHoles"
    /\ UNCHANGED <<input, noding, graph, todo, inResult, next, maxEdgeRings, edgeRings, results,
                   error>>

\* Mutant: a hole goes to the first shell whose envelope covers it.
findEdgeRingContaining_Envelope(hole) ==
    LET fits == {k \in DOMAIN shellList :
                   envContains(Envelope(ringPts(shellList[k].ring)), Envelope(ringPts(hole)))}
    IN  IF fits = {} THEN 0 ELSE CHOOSE k \in fits : \A j \in fits : k <= j

\* The index of the smallest shell around the hole, 0 if there is none.
findEdgeRingContaining(hole) ==
    LET pts == ringPts(hole)
        envOf(k) == Envelope(ringPts(shellList[k].ring))
        try(min, k) ==
            IF /\ envContains(envOf(k), Envelope(pts))
               /\ isPointInRing(pts[1], ringPts(shellList[k].ring))
               /\ min = 0 \/ envContains(envOf(min), envOf(k))
            THEN k ELSE min
    IN  FoldLeft(try, 0, [k \in DOMAIN shellList |-> k])

placeFreeHoles ==
    /\ pc = "placeFreeHoles" /\ freeHoleList # <<>>
    /\ LET hole == Head(freeHoleList)
       IN  \E k \in {findEdgeRingContaining(hole)} :
             /\ shellList' = IF k = 0 THEN shellList
                             ELSE [shellList EXCEPT ![k].holes = Append(@, hole)]
             /\ pc' = IF k = 0 THEN "failed" ELSE pc
             /\ error' = IF k = 0 THEN "unable to assign hole to a shell" ELSE error
    /\ freeHoleList' = Tail(freeHoleList)
    /\ UNCHANGED <<input, noding, graph, todo, inResult, next, maxEdgeRings, edgeRings, results>>

\* EdgeRing::toPolygon
resultPolyList ==
    Table([k \in DOMAIN shellList |->
        [shell |-> ringPts(shellList[k].ring),
         holes |-> [i \in DOMAIN shellList[k].holes |-> ringPts(shellList[k].holes[i])]]])

computePolygons ==
    /\ pc = "placeFreeHoles" /\ freeHoleList = <<>>
    /\ covered' = Table([k \in DOMAIN edgeList |-> NULL])
    /\ todo' = sortNodes(DOMAIN nodes)
    /\ pc' = "findCoveredLineEdges"
    /\ UNCHANGED <<input, noding, graph, areas, edgeInResult, lines, points, error>>

-----------------------------------------------------------------------------
(* LineBuilder and PointBuilder.                                           *)

\* Line edges at a node with result area edges: the area on the way around the
\* node decides; the last node that decides about an edge wins.
findCoveredLineEdges ==
    /\ pc = "findCoveredLineEdges" /\ todo # <<>>
    /\ LET s == star[Head(todo)]
           bounds(d) == ~isLineEdge(deLabel[d]) /\ (d \in inResult \/ getSym(d) \in inResult)
           area == {k \in DOMAIN s : bounds(s[k])}
           first == CHOOSE k \in area : \A j \in area : k <= j
           visit(acc, d) ==
               IF isLineEdge(deLabel[d])
               THEN [acc EXCEPT !.cov = [@ EXCEPT ![d[1]] = acc.inside]]
               ELSE [acc EXCEPT !.inside = IF getSym(d) \in inResult THEN TRUE
                                           ELSE IF d \in inResult THEN FALSE ELSE @]
       IN  covered' = IF area = {} THEN covered
                      ELSE FoldLeft(visit, [inside |-> s[first] \in inResult, cov |-> covered], s).cov
    /\ todo' = Tail(todo)
    /\ UNCHANGED <<pc, input, noding, graph, areas, edgeInResult, lines, points, error>>

isCoveredBy(p, polys) == \E k \in DOMAIN polys : locateInPolygon(p, polys[k]) # EXTERIOR

labelUncoveredLineEdges ==
    /\ pc = "findCoveredLineEdges" /\ todo = <<>>
    /\ \E polys \in {resultPolyList} :
         covered' = FoldLeft(LAMBDA c, d :
                        IF isLineEdge(deLabel[d]) /\ c[d[1]] = NULL
                        THEN [c EXCEPT ![d[1]] = isCoveredBy(Head(dirPts(d)), polys)] ELSE c,
                        covered, dirEdges)
    /\ pc' = "collectLines"
    /\ UNCHANGED <<input, noding, graph, todo, areas, edgeInResult, lines, points, error>>

collectLineEdge(d) ==
    /\ isLineEdge(deLabel[d])
    /\ isResultOfOp(getLocation(deLabel[d], 0, ON), getLocation(deLabel[d], 1, ON), opCode)
    /\ covered[d[1]] # TRUE

\* Mutant: linework that is already in the result is not skipped.
collectBoundaryTouchEdge_Again(d) ==
    /\ ~isLineEdge(deLabel[d])
    /\ ~isInteriorAreaEdge(deLabel[d])
    /\ isResultOfOp(getLocation(deLabel[d], 0, ON), getLocation(deLabel[d], 1, ON), opCode)
    /\ opCode = "INTERSECTION"

collectBoundaryTouchEdge(d) ==
    /\ ~isLineEdge(deLabel[d])
    /\ ~isInteriorAreaEdge(deLabel[d])
    /\ d[1] \notin edgeInResult
    /\ isResultOfOp(getLocation(deLabel[d], 0, ON), getLocation(deLabel[d], 1, ON), opCode)
    /\ opCode = "INTERSECTION"

\* An edge is collected once, through whichever of its directions comes first.
collectLines ==
    /\ pc = "collectLines"
    /\ lines' = SelectSeq([k \in DOMAIN edgeList |-> k], LAMBDA k :
                   \E fwd \in BOOLEAN : collectLineEdge(<<k, fwd>>) \/ collectBoundaryTouchEdge(<<k, fwd>>))
    /\ edgeInResult' = edgeInResult \cup ToSet(lines')
    /\ pc' = "extractNonCoveredResultNodes"
    /\ UNCHANGED <<input, noding, graph, todo, areas, covered, points, error>>

isCoveredByLA(p, polys) ==
    \/ \E k \in ToSet(lines) : locateOnLine(p, edgeList[k].pts) # EXTERIOR
    \/ isCoveredBy(p, polys)

extractNonCoveredResultNodes ==
    /\ pc = "extractNonCoveredResultNodes"
    /\ \E polys \in {resultPolyList} :
         points' = SelectSeq(sortNodes(DOMAIN nodes), LAMBDA n :
             /\ \A k \in DOMAIN star[n] : star[n][k][1] \notin edgeInResult
             /\ star[n] = <<>> \/ opCode = "INTERSECTION"
             /\ isResultOfOp(getLocation(nodes[n], 0, ON), getLocation(nodes[n], 1, ON), opCode)
             /\ ~isCoveredByLA(n, polys))
    /\ pc' = "done"
    /\ UNCHANGED <<input, noding, graph, todo, areas, edgeInResult, covered, lines, error>>

-----------------------------------------------------------------------------
\* GEOS_CHECK_FOR_INTERRUPTS
interrupted ==
    /\ pc \in {"computeSelfNodes", "computeEdgeIntersections", "computeSplitEdges",
               "insertUniqueEdges", "checkValid", "addEdges", "computeLabelling",
               "findResultAreaEdges", "linkResultDirectedEdges"}
    /\ pc' = "interrupted"
    /\ UNCHANGED <<input, noding, graph, todo, areas, results, error>>

Step == \/ copyPoints \/ computeSelfNodes \/ computeEdgeIntersections \/ computeSplitEdges
        \/ insertUniqueEdges \/ computeLabelsFromDepths \/ checkValid \/ addEdges
        \/ computeLabelling \/ mergeSymLabels \/ labelIncompleteNodes
        \/ findResultAreaEdges \/ linkResultDirectedEdges \/ buildMaximalEdgeRings
        \/ buildMinimalEdgeRings \/ sortShellsAndHoles \/ placeFreeHoles \/ computePolygons
        \/ findCoveredLineEdges \/ labelUncoveredLineEdges \/ collectLines
        \/ extractNonCoveredResultNodes

Next == Step \/ interrupted

Spec == Init /\ [][Next]_vars
=============================================================================
