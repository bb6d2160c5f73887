------------------------------- MODULE Noders -------------------------------
(***************************************************************************)
(* The noders of noding/: IteratedNoder (driven by GeometryNoder::getNoded *)
(* or by its caller), MCIndexSnapRounder and SimpleSnapRounder.  A call    *)
(* takes the strings given to computeNodes, runs the steps of the noder    *)
(* one action each, and ends with the strings of getNodedSubstrings() or   *)
(* with an exception.                                                      *)
(***************************************************************************)
EXTENDS SegmentStrings

CONSTANTS
    Inputs,      \* the sets of lines that may be given to a noder
    MaxIters     \* the values IteratedNoder::maxIter may have

VARIABLES
    pc,          \* where the call is
    noder,       \* which noder runs it
    lines,       \* the coordinates of the strings given to the call
    strs,        \* the strings being noded, with their node lists
    iter,        \* nodingIterationCount, counted up to maxIter + 1
    maxIter, nodesCreated, lastNodesCreated,    \* IteratedNoder::computeNodes
    snapPts,     \* the interior intersections found
    edge,        \* the string whose vertices are snapped next
    checked,     \* the substrings the SimpleSnapRounder validated
    result       \* the substrings handed out

vars == <<pc, noder, lines, strs, iter, maxIter, nodesCreated, lastNodesCreated, snapPts, edge,
          checked, result>>

iteration == <<iter, maxIter, nodesCreated, lastNodesCreated>>
snapping  == <<snapPts, edge, checked>>

Idle == /\ pc = "idle" /\ noder = "none" /\ lines = <<>> /\ strs = <<>>
        /\ iter = 0 /\ maxIter = 0 /\ nodesCreated = 0 /\ lastNodesCreated = -1
        /\ snapPts = {} /\ edge = 0 /\ checked = <<>> /\ result = <<>>

Init == Idle

-----------------------------------------------------------------------------
(* IteratedNoder::computeNodes                                             *)

CallIterated(ls, n) ==
    /\ pc = "idle"
    /\ noder' = "iterated" /\ lines' = ls /\ strs' = Strings(ls)
    /\ iter' = 0 /\ maxIter' = n /\ nodesCreated' = 0 /\ lastNodesCreated' = -1
    /\ pc' = "node"
    /\ UNCHANGED <<snapping, result>>

\* node(): the intersections of all pairs of segments become nodes.
ComputeNodes ==
    /\ pc = "node"
    /\ nodesCreated' = Cardinality(interiorPairs(strs))
    /\ strs' = withIntersections(strs)
    /\ pc' = "split"
    /\ UNCHANGED <<noder, lines, iter, maxIter, lastNodesCreated, snapping, result>>

\* The split edges replace the strings before the test for convergence is
\* made on the number of intersections the strings had.
notConverging == /\ lastNodesCreated > 0
                 /\ nodesCreated >= lastNodesCreated
                 /\ iter + 1 > maxIter

\* MUTANT: the strings of the caller are noded again, and a count that does
\* not fall is taken for progress.
Split_NodesTheInput ==
    /\ pc = "split"
    /\ strs' = IF nodesCreated > 0 THEN Strings(lines)
                                   ELSE With(getNodedSubstrings(strs), Strings)
    /\ iter' = IF iter > maxIter THEN iter ELSE iter + 1
    /\ lastNodesCreated' = nodesCreated
    /\ pc' = IF nodesCreated > 0 THEN "node" ELSE "noded"
    /\ UNCHANGED <<noder, lines, maxIter, nodesCreated, snapping, result>>

Split ==
    /\ pc = "split"
    /\ strs' = With(getNodedSubstrings(strs), Strings)
    /\ iter' = IF iter > maxIter THEN iter ELSE iter + 1
    /\ IF notConverging
         THEN pc' = "thrown" /\ UNCHANGED lastNodesCreated
         ELSE /\ lastNodesCreated' = nodesCreated
              /\ pc' = IF nodesCreated > 0 THEN "node" ELSE "noded"
    /\ UNCHANGED <<noder, lines, maxIter, nodesCreated, snapping, result>>

\* IteratedNoder::getNodedSubstrings, and GeometryNoder::toGeometry with it:
\* of the edges equal up to direction (OrientedCoordinateArray) the first
\* one becomes a line.
ToGeometry ==
    /\ pc = "noded" /\ noder = "iterated"
    /\ result' = LET pts(k) == strs[k].pts
                     first == {k \in DOMAIN strs :
                                \A j \in 1..(k - 1) : pts(j) \notin {pts(k), Reverse(pts(k))}}
                 IN  [i \in 1..Cardinality(first) |->
                        pts(CHOOSE k \in first : Cardinality({j \in first : j < k}) = i - 1)]
    /\ pc' = "returned"
    /\ UNCHANGED <<noder, lines, strs, iteration, snapping>>

-----------------------------------------------------------------------------
(* MCIndexSnapRounder and SimpleSnapRounder                                *)

CallSnapRounder(ls, which) ==
    /\ pc = "idle"
    /\ noder' = which /\ lines' = ls /\ strs' = Strings(ls)
    /\ pc' = "find"
    /\ UNCHANGED <<iteration, snapping, result>>

FindInteriorIntersections ==
    /\ pc = "find"
    /\ snapPts' = interiorIntersections(strs)
    /\ strs' = withInteriorIntersections(strs)
    /\ pc' = "snap"
    /\ UNCHANGED <<noder, lines, iteration, edge, checked, result>>

\* computeIntersectionSnaps, computeSnaps
ComputeSnaps ==
    /\ pc = "snap"
    /\ strs' = [s \in DOMAIN strs |-> [strs[s] EXCEPT !.nodes = @ \cup
          UNION {snappedNodes(strs[s].pts, c, Segments(strs[s].pts)) : c \in snapPts}]]
    /\ edge' = 1
    /\ pc' = "vertices"
    /\ UNCHANGED <<noder, lines, iteration, snapPts, checked, result>>

\* The segments of string s that vertex i of the current edge is tried
\* against: not the vertex's own, and SimpleSnapRounder starts at the second.
vertexTests(i, s) == {j \in Segments(strs[s].pts) : /\ ~(s = edge /\ j = i)
                                                    /\ noder = "simple" => j > 1}

vertexNodes(i, s) == snappedNodes(strs[s].pts, strs[edge].pts[i], vertexTests(i, s))

\* "if a node is created for a vertex, that vertex must be noded too".
\* MCIndexPointSnapper::snap tells whether the LAST segment the index gave it
\* was hit; the order of the index is left open.
nodeMayBeAdded(i) == \E s \in DOMAIN strs : vertexNodes(i, s) # {}

nodeMayBeMissed(i) ==
    \/ ~nodeMayBeAdded(i)
    \/ /\ noder = "index"
       /\ \E s \in DOMAIN strs : \E j \in vertexTests(i, s) :
            ~intersectsPixel(strs[edge].pts[i], strs[s].pts[j], strs[s].pts[j + 1])

ComputeVertexSnaps ==
    /\ pc = "vertices"
    /\ LET pts   == strs[edge].pts
           may   == {i \in Segments(pts) : nodeMayBeAdded(i)}
           must  == {i \in Segments(pts) : ~nodeMayBeMissed(i)}
       IN  \E noded \in SUBSET may :
            /\ must \subseteq noded
            /\ strs' = [s \in DOMAIN strs |-> [strs[s] EXCEPT !.nodes = @
                  \cup UNION {vertexNodes(i, s) : i \in Segments(pts)}
                  \cup {intersectionNode(pts, pts[i], i) : i \in {i \in noded : s = edge}}]]
    /\ edge' = edge + 1
    /\ pc' = IF edge < Len(strs) THEN "vertices"
             ELSE IF noder = "simple" THEN "check" ELSE "noded"
    /\ UNCHANGED <<noder, lines, iteration, snapPts, checked, result>>

\* SimpleSnapRounder::checkCorrectness: the substrings are made, validated
\* and thrown away; the node lists keep what making them added.
CheckCorrectness ==
    /\ pc = "check"
    /\ checked' = getNodedSubstrings(strs)
    /\ strs' = [s \in DOMAIN strs |-> prepared(strs[s])]
    /\ pc' = IF checkValid(checked') THEN "noded" ELSE "thrown"
    /\ UNCHANGED <<noder, lines, iteration, snapPts, edge, result>>

GetNodedSubstrings ==
    /\ pc = "noded" /\ noder # "iterated"
    /\ result' = getNodedSubstrings(strs)
    /\ strs' = [s \in DOMAIN strs |-> prepared(strs[s])]
    /\ pc' = "returned"
    /\ UNCHANGED <<noder, lines, iteration, snapping>>

-----------------------------------------------------------------------------
\* The caller has the result, or the exception, and calls a new noder.
Return ==
    /\ pc \in {"returned", "thrown"}
    /\ pc' = "idle" /\ noder' = "none" /\ lines' = <<>> /\ strs' = <<>>
    /\ iter' = 0 /\ maxIter' = 0 /\ nodesCreated' = 0 /\ lastNodesCreated' = -1
    /\ snapPts' = {} /\ edge' = 0 /\ checked' = <<>> /\ result' = <<>>

Step == \/ ComputeNodes \/ Split \/ ToGeometry
        \/ FindInteriorIntersections \/ ComputeSnaps \/ ComputeVertexSnaps
        \/ CheckCorrectness \/ GetNodedSubstrings
        \/ Return

Next == \/ \E ls \in Inputs, n \in MaxIters : CallIterated(ls, n)
        \/ \E ls \in Inputs, which \in {"index", "simple"} : CallSnapRounder(ls, which)
        \/ Step

\* A call runs to its end: no step waits for anything.
Spec == Init /\ [][Next]_vars /\ WF_vars(Step)
=============================================================================
