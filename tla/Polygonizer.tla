---------------------------- MODULE Polygonizer -----------------------------
(***************************************************************************)
(* operation/polygonize/Polygonizer: lines are added, then the first       *)
(* getter called runs polygonize() and keeps its results.  The run deletes *)
(* dangles, then cut edges, forms the minimal edge rings of what is left,  *)
(* sets invalid rings aside, tells shells from holes and gives each hole   *)
(* to a shell.  It is split where another order or an interruption could   *)
(* show: one step per popped node, per ring and per hole.                  *)
(*                                                                         *)
(* The traversals of PolygonizeGraph come first: the "next" pointers       *)
(* around a node, the labelling of the rings they form, the conversion of  *)
(* maximal rings into minimal ones.  Each operator maps the flags of the   *)
(* directed edges (marked, label, next, in a ring) to the flags the code   *)
(* leaves behind.                                                          *)
(*                                                                         *)
(* The stack of deleteDangles is a set: the order in which its nodes are   *)
(* popped is left open, and a node pushed twice is kept once.              *)
(***************************************************************************)
EXTENDS DirectedEdges

CONSTANTS NULL,       \* the null pointer
          NDEBUG,     \* TRUE when assert() is compiled out
          MaxCalls    \* bound on the calls of getters

ASSUME PolygonizerAssumption == NDEBUG \in BOOLEAN /\ MaxCalls \in Nat

-----------------------------------------------------------------------------
\* The first of the directed edges S in the order of the member dirEdges: two
\* per line, forward first, in the order in which the lines were added.
firstDirEdge(S) ==
    CHOOSE d \in S : \A e \in S : d[1] < e[1] \/ (d[1] = e[1] /\ (d[2] \/ d = e))

\* getDegreeNonDeleted
getDegreeNonDeleted(n, D, marked) == getDegree(n, D \ marked)

-----------------------------------------------------------------------------
(* computeNextCWEdges: an unmarked edge is followed by the unmarked edge   *)
(* that comes next, counter-clockwise, after its own reverse in the star   *)
(* of the node it reaches.                                                 *)
ccwSuccessor(S, d) ==
    LET later == {e \in S : pdeLessThan(d, e)}
    IN  front(IF later = {} THEN S ELSE later)

computeNextCWEdges(D, marked, next) ==
    [d \in DirEdge |->
        IF d \in D /\ getSym(d) \notin marked
        THEN ccwSuccessor(outEdges(getToNode(d), D \ marked), getSym(d))
        ELSE next[d]]

\* computeNextCCWEdges walks a star clockwise, from its last edge on.  The edge
\* in, labelled lab, that arrives there along d is linked to the next edge of the
\* label that leaves or, at the end of the walk, to the first one met, unless
\* another edge that arrives takes the place of in as prevIn before.  That an edge
\* leaves is asserted, and proved as CCWLink.
nextCCW(in, lab, D, label, next) ==
    LET d     == getSym(in)
        star  == outEdges(getToNode(in), D)
        outs  == {e \in star : label[e] = lab}
        ahead == {o \in outs : o = d \/ pdeLessThan(o, d)}
        overtaken == \E e \in star : /\ label[getSym(e)] = lab /\ pdeLessThan(e, d)
                                     /\ \A o \in ahead : ~pdeLessThan(e, o)
    IN  CASE overtaken                -> next[in]
          [] ~overtaken /\ outs = {}  -> NULL
          [] ~overtaken /\ outs # {}  -> back(IF ahead = {} THEN outs ELSE ahead)

\* computeNextCCWEdges at each of the nodes ns: a call sets the pointers of edges
\* that arrive at its node, so the order of the calls does not matter.
computeNextCCWEdges(ns, lab, D, label, next) ==
    [d \in DirEdge |->
        IF d \in D /\ label[d] = lab /\ getToNode(d) \in ns
        THEN nextCCW(d, lab, D, label, next) ELSE next[d]]

-----------------------------------------------------------------------------
(* The ring met by following next from start (findDirEdgesInRing,          *)
(* findIntersectionNodes and findEdgeRing are all this walk).              *)
ringFrom(start, next) ==
    LET at[k \in Nat] == IF k = 0 THEN start ELSE next[at[k - 1]]
        n == CHOOSE k \in 1..Cardinality(DirEdge) :
                /\ at[k] = start
                /\ \A j \in 1..(k - 1) : at[j] # start
    IN  [i \in 1..n |-> at[i - 1]]

\* Mutant: the sides of a line are said to differ when they are the same.
cutEdgesOf_Swapped(D, marked, label) ==
    LinesOf({d \in D \ marked : label[d] # label[getSym(d)]})

\* The lines deleteCutEdges removes: both their sides carry one label.
cutEdgesOf(D, marked, label) ==
    LinesOf({d \in D \ marked : label[d] = label[getSym(d)]})

\* findIntersectionNodes: the nodes of a ring that several edges of its label
\* leave.
findIntersectionNodes(ring, lab, D, label) ==
    {n \in {getFromNode(e) : e \in ring} :
        Cardinality({e \in outEdges(n, D) : label[e] = lab}) > 1}

\* Mutant: the maximal rings are left as they are.
convertMaximalToMinimal_None(ring, lab, D, label, next) == next

\* convertMaximalToMinimalEdgeRings, for one maximal ring.
convertMaximalToMinimal(ring, lab, D, label, next) ==
    computeNextCCWEdges(findIntersectionNodes(ring, lab, D, label), lab, D, label, next)

-----------------------------------------------------------------------------
(* polygonize::EdgeRing                                                    *)
getCoordinates(ring) ==
    removeRepeatedPoints(
        FlattenSeq([i \in DOMAIN ring |->
            IF ring[i][2] THEN Pts[ring[i][1]] ELSE Reverse(Pts[ring[i][1]])]))

isValid(ring) == isValidRing(getCoordinates(ring))

\* Mutant: the sense of the orientation test is inverted.
isHole_Inverted(ring) == ~isCCW(getCoordinates(ring))

isHole(ring) == isCCW(getCoordinates(ring))

\* findEdgeRingContaining: the shells whose envelope contains, and is not, the
\* hole's and that hold a vertex of the hole which is not one of their own;
\* the last of them whose envelope fits in that of the one found before.
contains(shell, hole) ==
    LET s == getCoordinates(shell)
        h == getCoordinates(hole)
        notInList == SelectSeq(h, LAMBDA p : p \notin ToSet(s))
    IN  /\ Envelope(s) # Envelope(h)
        /\ envContains(Envelope(s), Envelope(h))
        /\ notInList # <<>>
        /\ isPointInRing(Head(notInList), s)

\* Mutant: the first shell found is kept, not the smallest.
findEdgeRingContaining_First(hole, shells) ==
    FoldLeft(LAMBDA min, s : IF contains(s, hole) /\ min = NULL THEN s ELSE min,
             NULL, shells)

findEdgeRingContaining(hole, shells) ==
    FoldLeft(LAMBDA min, s :
                IF /\ contains(s, hole)
                   /\ \/ min = NULL
                      \/ envContains(Envelope(getCoordinates(min)),
                                     Envelope(getCoordinates(s)))
                THEN s ELSE min,
             NULL, shells)

-----------------------------------------------------------------------------
VARIABLES
    lines,                        \* the lines handed to add()
    marked, label, next, inRing,  \* the flags of the directed edges
    dangles, cutEdges,            \* how often each line was reported
    invalidRingLines, holeList, shellList,
    polyList,                     \* NULL, or the polygons computed
    pc,                           \* the loop polygonize() is in, or "idle"
    call,                         \* the getter that is running
    nodeStack, uniqueDangles,     \* locals of deleteDangles
    currLabel, maximalRings,      \* locals of the labelling and of getEdgeRings
    edgeRingList, validEdgeRingList,
    done,                         \* iterations of the current loop done
    holesOf,                      \* <<shell, hole>> pairs made by addHole
    runs, calls,                  \* runs of polygonize() begun, getters called
    ranOn,                        \* history: the lines of the last run
    outcome,                      \* how the last run of polygonize() ended
    ret                           \* what getPolygons() last returned

graphVars  == <<lines, marked, label, next, inRing>>
memberVars == <<dangles, cutEdges, invalidRingLines, holeList, shellList, polyList>>
ringVars   == <<currLabel, maximalRings, edgeRingList, validEdgeRingList, done, holesOf>>
localVars  == <<nodeStack, uniqueDangles, ringVars>>
callVars   == <<call, runs, calls, ranOn, outcome, ret>>
vars == <<graphVars, memberVars, localVars, callVars, pc>>

\* getLines stands for getDangles, getCutEdges and getInvalidRingLines: each
\* runs polygonize() and returns a reference to a member vector.
Getters == {"getPolygons", "getLines"}

edges == {l \in lines : IsUsable(l)}
D     == Dirs(edges)

Init ==
    /\ lines = {} /\ marked = {} /\ inRing = {}
    /\ label = [d \in DirEdge |-> -1]
    /\ next = [d \in DirEdge |-> NULL]
    /\ dangles = [l \in Line |-> 0] /\ cutEdges = [l \in Line |-> 0]
    /\ invalidRingLines = <<>> /\ holeList = <<>> /\ shellList = <<>>
    /\ polyList = NULL
    /\ pc = "idle" /\ call = "none"
    /\ nodeStack = {} /\ uniqueDangles = {}
    /\ currLabel = 1 /\ maximalRings = <<>>
    /\ edgeRingList = <<>> /\ validEdgeRingList = <<>>
    /\ done = 0 /\ holesOf = {}
    /\ runs = 0 /\ calls = 0 /\ ranOn = {}
    /\ outcome = "none" /\ ret = NULL

-----------------------------------------------------------------------------
(* add, for one LineString: lines are numbered in the order of the calls. *)
add(l) ==
    /\ pc = "idle"
    /\ \A k \in lines : k < l
    /\ lines' = lines \cup {l}
    /\ UNCHANGED <<marked, label, next, inRing, memberVars, localVars, callVars, pc>>

\* What a getter does when polygonize() returns with polygons ps.
Return(c, ps) ==
    /\ pc' = "idle"
    /\ IF c = "getPolygons" THEN ret' = ps /\ polyList' = NULL
                            ELSE polyList' = ps /\ UNCHANGED ret

\* Mutant: the vector is allocated before the test for a previous run.
getCached_Reset(c) ==
    /\ pc = "idle" /\ calls < MaxCalls
    /\ polyList # NULL \/ lines = {}
    /\ call' = c /\ calls' = calls + 1
    /\ Return(c, <<>>)
    /\ UNCHANGED <<graphVars, dangles, cutEdges, invalidRingLines, holeList,
                   shellList, localVars, runs, ranOn, outcome>>

\* A getter whose polygonize() has nothing to do: already computed, or no graph.
getCached(c) ==
    /\ pc = "idle" /\ calls < MaxCalls
    /\ polyList # NULL \/ lines = {}
    /\ call' = c /\ calls' = calls + 1
    /\ Return(c, IF polyList # NULL THEN polyList ELSE <<>>)
    /\ UNCHANGED <<graphVars, dangles, cutEdges, invalidRingLines, holeList,
                   shellList, localVars, runs, ranOn, outcome>>

\* A getter that starts polygonize(): the stack gets the nodes of degree 1.
polygonize(c) ==
    /\ pc = "idle" /\ calls < MaxCalls
    /\ polyList = NULL /\ lines # {}
    /\ call' = c /\ calls' = calls + 1
    /\ polyList' = <<>>
    /\ nodeStack' = {n \in Nodes(D) : getDegree(n, D) = 1}
    /\ uniqueDangles' = {}
    /\ runs' = runs + 1 /\ ranOn' = lines
    /\ pc' = "deleteDangles"
    /\ UNCHANGED <<graphVars, dangles, cutEdges, invalidRingLines, holeList, shellList,
                   ringVars, outcome, ret>>

-----------------------------------------------------------------------------
(* PolygonizeGraph::deleteDangles, one popped node: all its edges are      *)
(* deleted, and a neighbour left with one edge is pushed.                  *)
\* Mutant: the reverse of a deleted edge stays.
markedAfter_OneWay(n) == marked \cup outEdges(n, D)

markedAfter(n) ==
    marked \cup outEdges(n, D) \cup {getSym(d) : d \in outEdges(n, D)}

neighbours(n) == {getToNode(d) : d \in outEdges(n, D)}

\* Mutant: the degree test counts deleted edges too.
newDangles_RawDegree(n) == {m \in neighbours(n) : getDegree(m, D) = 1}

\* Mutant: a neighbour with no edge left is pushed as well.
newDangles_OrIsolated(n) ==
    {m \in neighbours(n) : getDegreeNonDeleted(m, D, markedAfter(n)) <= 1}

newDangles(n) ==
    {m \in neighbours(n) : getDegreeNonDeleted(m, D, markedAfter(n)) = 1}

\* Mutant: lines reported before are not remembered.
newLines_NotUnique(n) == LinesOf(outEdges(n, D))

newLines(n) == LinesOf(outEdges(n, D)) \ uniqueDangles

deleteDangle(n) ==
    /\ pc = "deleteDangles"
    /\ n \in nodeStack
    /\ marked' = markedAfter(n)
    /\ nodeStack' = (nodeStack \ {n}) \cup newDangles(n)
    /\ uniqueDangles' = uniqueDangles \cup newLines(n)
    /\ dangles' = [l \in Line |-> IF l \in newLines(n) THEN dangles[l] + 1
                                                       ELSE dangles[l]]
    /\ UNCHANGED <<lines, label, next, inRing, cutEdges, invalidRingLines, holeList,
                   shellList, polyList, ringVars, callVars, pc>>

\* The end of deleteDangles and the start of deleteCutEdges.
danglesDone ==
    /\ pc = "deleteDangles"
    /\ nodeStack = {}
    /\ next' = computeNextCWEdges(D, marked, next)
    /\ currLabel' = 1 /\ maximalRings' = <<>>
    /\ pc' = "deleteCutEdges"
    /\ UNCHANGED <<lines, marked, label, inRing, memberVars, nodeStack, uniqueDangles,
                   edgeRingList, validEdgeRingList, done, holesOf, callVars>>

-----------------------------------------------------------------------------
(* findLabeledEdgeRings, one ring: the first edge that is neither deleted  *)
(* nor labelled starts a ring that takes the next label.  The walk asserts *)
(* that only its start may be in an EdgeRing already.                      *)
unlabelled == {d \in D \ marked : label[d] < 0}

assertFails(ring) == ~NDEBUG /\ \E i \in 2..Len(ring) : ring[i] \in inRing

Abort ==
    /\ pc' = "aborted"
    /\ UNCHANGED <<graphVars, memberVars, localVars, callVars>>

labelRing(ring) ==
    /\ label' = [d \in DirEdge |-> IF d \in ToSet(ring) THEN currLabel ELSE label[d]]
    /\ maximalRings' = Append(maximalRings, ring)
    /\ currLabel' = currLabel + 1
    /\ UNCHANGED <<lines, marked, next, inRing, memberVars, nodeStack, uniqueDangles,
                   edgeRingList, validEdgeRingList, done, holesOf, callVars, pc>>

findLabeledEdgeRing ==
    /\ pc \in {"deleteCutEdges", "getEdgeRings"}
    /\ unlabelled # {}
    /\ \E ring \in {ringFrom(firstDirEdge(unlabelled), next)} :
          IF assertFails(ring) THEN Abort ELSE labelRing(ring)

\* The last loop of deleteCutEdges, and the start of getEdgeRings: pointers
\* computed afresh, labels cleared.
deleteCutEdges ==
    /\ pc = "deleteCutEdges"
    /\ unlabelled = {}
    /\ \E cut \in {cutEdgesOf(D, marked, label)} :
          /\ marked' = marked \cup Dirs(cut)
          /\ cutEdges' = [l \in Line |-> IF l \in cut THEN cutEdges[l] + 1
                                                      ELSE cutEdges[l]]
          /\ next' = computeNextCWEdges(D, marked \cup Dirs(cut), next)
    /\ label' = [d \in DirEdge |-> IF d \in D THEN -1 ELSE label[d]]
    /\ currLabel' = 1 /\ maximalRings' = <<>> /\ done' = 0
    /\ pc' = "getEdgeRings"
    /\ UNCHANGED <<lines, inRing, dangles, invalidRingLines, holeList, shellList,
                   polyList, nodeStack, uniqueDangles, edgeRingList,
                   validEdgeRingList, holesOf, callVars>>

\* convertMaximalToMinimalEdgeRings, one ring.
convertRing ==
    /\ pc = "getEdgeRings"
    /\ unlabelled = {} /\ done < Len(maximalRings)
    /\ \E ring \in {maximalRings[done + 1]} :
          next' = convertMaximalToMinimal(ToSet(ring), label[ring[1]], D, label, next)
    /\ done' = done + 1
    /\ UNCHANGED <<lines, marked, label, inRing, memberVars, nodeStack, uniqueDangles,
                   currLabel, maximalRings, edgeRingList, validEdgeRingList, holesOf,
                   callVars, pc>>

conversionDone ==
    /\ pc = "getEdgeRings"
    /\ unlabelled = {} /\ done = Len(maximalRings)
    /\ edgeRingList' = <<>>
    /\ pc' = "findEdgeRings"
    /\ UNCHANGED <<graphVars, memberVars, nodeStack, uniqueDangles, currLabel,
                   maximalRings, validEdgeRingList, done, holesOf, callVars>>

\* The last loop of getEdgeRings: an EdgeRing for the first edge that is neither
\* deleted nor in a ring.
unringed == (D \ marked) \ inRing

findEdgeRing ==
    /\ pc = "findEdgeRings"
    /\ unringed # {}
    /\ \E ring \in {ringFrom(firstDirEdge(unringed), next)} :
          IF assertFails(ring) THEN Abort
          ELSE /\ edgeRingList' = Append(edgeRingList, ring)
               /\ inRing' = inRing \cup ToSet(ring)
               /\ UNCHANGED <<lines, marked, label, next, memberVars, nodeStack,
                              uniqueDangles, currLabel, maximalRings,
                              validEdgeRingList, done, holesOf, callVars, pc>>

\* The end of getEdgeRings, and invalidRingLines.clear().
edgeRingsDone ==
    /\ pc = "findEdgeRings"
    /\ unringed = {}
    /\ validEdgeRingList' = <<>> /\ invalidRingLines' = <<>> /\ done' = 0
    /\ pc' = "findValidRings"
    /\ UNCHANGED <<graphVars, dangles, cutEdges, holeList, shellList, polyList,
                   nodeStack, uniqueDangles, currLabel, maximalRings, edgeRingList,
                   holesOf, callVars>>

-----------------------------------------------------------------------------
findValidRing ==
    /\ pc = "findValidRings" /\ done < Len(edgeRingList)
    /\ LET er == edgeRingList[done + 1]
       IN  IF isValid(er)
           THEN /\ validEdgeRingList' = Append(validEdgeRingList, er)
                /\ UNCHANGED invalidRingLines
           ELSE /\ invalidRingLines' = Append(invalidRingLines, er)
                /\ UNCHANGED validEdgeRingList
    /\ done' = done + 1
    /\ UNCHANGED <<graphVars, dangles, cutEdges, holeList, shellList, polyList,
                   nodeStack, uniqueDangles, currLabel, maximalRings, edgeRingList,
                   holesOf, callVars, pc>>

\* The end of findValidRings and the clear() calls of findShellsAndHoles.
validRingsDone ==
    /\ pc = "findValidRings" /\ done = Len(edgeRingList)
    /\ holeList' = <<>> /\ shellList' = <<>>
    /\ done' = 0
    /\ pc' = "findShellsAndHoles"
    /\ UNCHANGED <<graphVars, dangles, cutEdges, invalidRingLines, polyList, nodeStack,
                   uniqueDangles, currLabel, maximalRings, edgeRingList,
                   validEdgeRingList, holesOf, callVars>>

findShellOrHole ==
    /\ pc = "findShellsAndHoles" /\ done < Len(validEdgeRingList)
    /\ LET er == validEdgeRingList[done + 1]
       IN  IF isHole(er)
           THEN holeList' = Append(holeList, er) /\ UNCHANGED shellList
           ELSE shellList' = Append(shellList, er) /\ UNCHANGED holeList
    /\ done' = done + 1
    /\ UNCHANGED <<graphVars, dangles, cutEdges, invalidRingLines, polyList, nodeStack,
                   uniqueDangles, currLabel, maximalRings, edgeRingList,
                   validEdgeRingList, holesOf, callVars, pc>>

shellsAndHolesDone ==
    /\ pc = "findShellsAndHoles" /\ done = Len(validEdgeRingList)
    /\ done' = 0 /\ holesOf' = {}
    /\ pc' = "assignHolesToShells"
    /\ UNCHANGED <<graphVars, memberVars, nodeStack, uniqueDangles, currLabel,
                   maximalRings, edgeRingList, validEdgeRingList, callVars>>

assignHoleToShell ==
    /\ pc = "assignHolesToShells" /\ done < Len(holeList)
    /\ LET shell == findEdgeRingContaining(holeList[done + 1], shellList)
       IN  holesOf' = IF shell = NULL THEN holesOf
                      ELSE holesOf \cup {<<shell, holeList[done + 1]>>}
    /\ done' = done + 1
    /\ UNCHANGED <<graphVars, memberVars, nodeStack, uniqueDangles, currLabel,
                   maximalRings, edgeRingList, validEdgeRingList, callVars, pc>>

\* EdgeRing::getPolygon for every shell, and the return from the getter.
getPolygon(er) == [shell |-> er, holes |-> {h \in ToSet(holeList) : <<er, h>> \in holesOf}]

polygonsDone ==
    /\ pc = "assignHolesToShells" /\ done = Len(holeList)
    /\ outcome' = "ok"
    /\ Return(call, [i \in DOMAIN shellList |-> getPolygon(shellList[i])])
    /\ UNCHANGED <<graphVars, dangles, cutEdges, invalidRingLines, holeList, shellList,
                   localVars, call, runs, calls, ranOn>>

\* GEOS_CHECK_FOR_INTERRUPTS at the end of an iteration throws: the getter
\* ends without a value, and polyList keeps the empty vector.
interrupted ==
    /\ pc \in {"findValidRings", "findShellsAndHoles", "assignHolesToShells"}
    /\ done > 0
    /\ pc' = "idle"
    /\ outcome' = "interrupted"
    /\ edgeRingList' = <<>> /\ validEdgeRingList' = <<>> /\ maximalRings' = <<>>
    /\ done' = 0
    /\ UNCHANGED <<graphVars, memberVars, nodeStack, uniqueDangles, currLabel, holesOf,
                   call, runs, calls, ranOn, ret>>

-----------------------------------------------------------------------------
deleteDangles == (\E n \in nodeStack : deleteDangle(n)) \/ danglesDone

Step ==
    \/ deleteDangles
    \/ findLabeledEdgeRing \/ deleteCutEdges
    \/ convertRing \/ conversionDone \/ findEdgeRing \/ edgeRingsDone
    \/ findValidRing \/ validRingsDone
    \/ findShellOrHole \/ shellsAndHolesDone
    \/ assignHoleToShell \/ polygonsDone

Next ==
    \/ \E l \in Line : add(l)
    \/ \E c \in Getters : getCached(c) \/ polygonize(c)
    \/ Step
    \/ interrupted

\* The thread that runs polygonize() keeps running.  Only the loop of
\* deleteDangles can fail to end (every other loop visits a fixed vector
\* once), so only its steps need to be fair.
Spec == Init /\ [][Next]_vars /\ WF_vars(deleteDangles)

-----------------------------------------------------------------------------
(* Properties                                                              *)

Rings == ToSet(edgeRingList)

\* The flags of the graph belong to its edges, and the deletion flags of the
\* two directions of a line agree (setMarked is always called on both).
FlagsOK ==
    /\ lines \subseteq Line
    /\ marked \subseteq D
    /\ \A d \in marked : getSym(d) \in marked
    /\ uniqueDangles \subseteq edges
    /\ dangles \in [Line -> Nat]
    /\ cutEdges \in [Line -> Nat]
    /\ runs \in Nat

\* The shape of every variable.
TypeOK ==
    /\ FlagsOK
    /\ ranOn \subseteq lines /\ inRing \subseteq D /\ nodeStack \subseteq Nodes(D)
    /\ label \in [DirEdge -> Int] /\ next \in [DirEdge -> DirEdge \cup {NULL}]
    /\ pc \in {"idle", "aborted", "deleteDangles", "deleteCutEdges", "getEdgeRings",
               "findEdgeRings", "findValidRings", "findShellsAndHoles", "assignHolesToShells"}
    /\ call \in Getters \cup {"none"}
    /\ calls \in 0..MaxCalls /\ done \in Nat
    /\ outcome \in {"none", "ok", "interrupted"}

\* A set of lines none of whose end nodes has a single line end of the set on
\* it: what deleting degree-1 nodes for ever would leave alone.
IsCore(S) == \A d \in Dirs(S) : \E e \in Dirs(S) :
                 e # d /\ getFromNode(e) = getFromNode(d)

\* deleteDangles, on a fresh graph, deletes and reports exactly the lines that
\* belong to no core, whatever the order in which nodes are popped: nothing
\* with a free end is left, and no line of a cycle or between cycles is lost.
DanglesAreTheNonCore ==
    (pc = "deleteCutEdges" /\ runs = 1) =>
        /\ marked = Dirs(uniqueDangles)
        /\ IsCore(edges \ uniqueDangles)
        /\ \A S \in SUBSET edges : IsCore(S) => S \cap uniqueDangles = {}

\* One run reports a dangling line once, though deleteDangles meets it from
\* both of its ends and at every later visit of a node it touches.
DangleReportedOnce ==
    runs = 1 => \A l \in Line : dangles[l] = IF l \in uniqueDangles THEN 1 ELSE 0

\* Every directed edge that is not deleted is in one ring and at one place of it,
\* and each ring is a closed walk along edges that are not deleted.
EdgesInOneRing ==
    (pc = "findValidRings" /\ runs = 1) =>
        /\ \A d \in D \ marked : Cardinality({r \in Rings : d \in ToSet(r)}) = 1
        /\ \A r \in Rings :
              /\ ToSet(r) \subseteq D \ marked
              /\ \A i \in DOMAIN r : getToNode(r[i]) = getFromNode(r[(i % Len(r)) + 1])
              /\ \A i, j \in DOMAIN r : r[i] = r[j] => i = j

\* When the rings are handed on they partition the edges that were not deleted, and
\* no ring passes twice through a node: the rings are minimal.
RingsPartitionTheEdges ==
    /\ EdgesInOneRing
    /\ (pc = "findValidRings" /\ runs = 1) =>
          \A r \in Rings : \A i, j \in DOMAIN r :
              getFromNode(r[i]) = getFromNode(r[j]) => i = j

\* The loop of deleteDangles ends, whatever the order of the pops: a node that
\* is pushed again and again would keep it going.
DeleteDanglesEnds == pc = "deleteDangles" ~> pc = "deleteCutEdges"
=============================================================================
