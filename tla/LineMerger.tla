----------------------------- MODULE LineMerger -----------------------------
(***************************************************************************)
(* operation/linemerge/LineMerger: lines that meet at a node of degree 2   *)
(* are sewn together.  Lines may be added between two merges; each merge   *)
(* resets the marks and starts over.                                       *)
(***************************************************************************)
EXTENDS DirectedEdges

CONSTANT NULL

VARIABLES added,        \* the lines in the graph
          pc,           \* idle, or the pass of merge() that is running
          nodes,        \* the nodes this pass has still to look at
          markedNodes, markedEdges,
          edgeStrings,  \* the strings built so far: sequences of directed edges
          merged        \* what getMergedLineStrings returned last, NULL before

vars == <<added, pc, nodes, markedNodes, markedEdges, edgeStrings, merged>>

Init == /\ added = {} /\ pc = "idle" /\ nodes = {}
        /\ markedNodes = {} /\ markedEdges = {} /\ edgeStrings = <<>> /\ merged = NULL

graph == Dirs(added)
degree(n) == getDegree(n, graph)

\* LineMergeGraph::addEdge takes no line that is empty or collapses to a point.
add(l) ==
    /\ pc = "idle" /\ l \notin added
    /\ added' = IF IsUsable(l) THEN added \cup {l} ELSE added
    /\ UNCHANGED <<pc, nodes, markedNodes, markedEdges, edgeStrings, merged>>

\* Mutant: the marks of the last merge stay.
merge_Marked ==
    /\ pc = "idle"
    /\ pc' = "nonDegree2" /\ nodes' = Nodes(graph)
    /\ edgeStrings' = <<>>
    /\ UNCHANGED <<added, markedNodes, markedEdges, merged>>

\* getMergedLineStrings calls merge, which resets the marks.
merge ==
    /\ pc = "idle"
    /\ pc' = "nonDegree2" /\ nodes' = Nodes(graph)
    /\ markedNodes' = {} /\ markedEdges' = {} /\ edgeStrings' = <<>>
    /\ UNCHANGED <<added, merged>>

\* LineMergeDirectedEdge::getNext
getNext(d) ==
    LET out == outEdges(getToNode(d), graph)
    IN  IF Cardinality(out) # 2 THEN NULL
        ELSE CHOOSE e \in out : e # getSym(d)

\* The edges from start on, until there is no next one or start comes again.
buildEdgeStringStartingWith(start) ==
    LET at[k \in Nat] == IF k = 1 THEN start ELSE getNext(at[k - 1])
        n == CHOOSE k \in 1..Cardinality(graph) :
                /\ getNext(at[k]) \in {NULL, start}
                /\ \A j \in 1..(k - 1) : getNext(at[j]) \notin {NULL, start}
    IN  [k \in 1..n |-> at[k]]

buildEdgeStringsStartingAt(node) ==
    FoldLeft(LAMBDA a, d : IF d[1] \in a.marked THEN a
                           ELSE LET s == buildEdgeStringStartingWith(d)
                                IN  [marked  |-> a.marked \cup LinesOf(ToSet(s)),
                                     strings |-> Append(a.strings, s)],
             [marked |-> markedEdges, strings |-> edgeStrings],
             sortEdges(outEdges(node, graph)))

\* NodeMap is ordered by coordinate.
firstNode == CHOOSE n \in nodes : \A m \in nodes : n[1] < m[1] \/ (n[1] = m[1] /\ n[2] <= m[2])

\* Mutant: the ends of the lines only, not the nodes where three meet.
isStart_Ends(n) == IF pc = "nonDegree2" THEN degree(n) = 1 ELSE n \notin markedNodes

\* The first pass starts at the nodes whose degree is not 2, the second at the
\* nodes no pass has started from: those of loops are left with unmarked edges.
isStart(n) == IF pc = "nonDegree2" THEN degree(n) # 2 ELSE n \notin markedNodes

buildAtNode ==
    /\ pc \in {"nonDegree2", "unprocessed"} /\ nodes # {}
    /\ nodes' = nodes \ {firstNode}
    /\ IF isStart(firstNode)
       THEN LET built == buildEdgeStringsStartingAt(firstNode)
            IN  /\ markedEdges' = built.marked /\ edgeStrings' = built.strings
                /\ markedNodes' = markedNodes \cup {firstNode}
       ELSE UNCHANGED <<markedNodes, markedEdges, edgeStrings>>
    /\ UNCHANGED <<added, pc, merged>>

\* EdgeString::getCoordinates: the majority of the lines gives the direction.
toLineString(s) ==
    LET forward == {i \in DOMAIN s : s[i][2]}
    IN  IF 2 * Cardinality(forward) < Len(s)
        THEN Reverse([i \in DOMAIN s |-> getSym(s[i])])
        ELSE s

passDone ==
    /\ pc \in {"nonDegree2", "unprocessed"} /\ nodes = {}
    /\ IF pc = "nonDegree2"
       THEN pc' = "unprocessed" /\ nodes' = Nodes(graph) /\ UNCHANGED merged
       ELSE /\ pc' = "idle" /\ UNCHANGED nodes
            /\ merged' = [i \in DOMAIN edgeStrings |-> toLineString(edgeStrings[i])]
    /\ UNCHANGED <<added, markedNodes, markedEdges, edgeStrings>>

Next == (\E l \in Line : add(l)) \/ merge \/ buildAtNode \/ passDone

Spec == Init /\ [][Next]_vars
=============================================================================
