----------------------------- MODULE MCLinework -----------------------------
(***************************************************************************)
(* Linework for LineMerger and LineSequencer, what their results mean in   *)
(* terms of the graph, the lines that linear references are checked on,    *)
(* the lines that are noded and the sites that are triangulated.  A        *)
(* behaviour uses one of the five.                                         *)
(***************************************************************************)
EXTENDS LineMerger, FiniteSetsExt

CONSTANTS NDEBUG, Picture,
          Tools,  \* the classes to check
          Order,  \* TRUE: lines are handed over by increasing number only
          Linears, Asked, SiteSets, Tolerances, Inputs, MaxIters

VARIABLES tool,   \* the class in use: merger, sequencer, referencer, triangulator or noder
          linear, call,
          siteCoords, tolerance, mesh, quadEdges, dPc, toInsert, at,
          sLines, lineCount, isRun, isSequenceableVar, sequenced, sPc, scanned,
          subgraph, visited, seq, lit, walk, sequences,
          nPc, noder, lines, strs, iter, maxIter, nodesCreated, lastNodesCreated,
          snapPts, edge, checked, result

S == INSTANCE LineSequencer
R == INSTANCE LinearReferencing
D == INSTANCE Delaunay
N == INSTANCE MCNoders WITH pc <- nPc

sVars == <<sLines, lineCount, isRun, isSequenceableVar, sequenced, sPc, scanned,
           subgraph, visited, seq, lit, walk, sequences>>
rVars == <<linear, call>>
dVars == <<siteCoords, tolerance, mesh, quadEdges, dPc, toInsert, at>>
nVars == <<nPc, noder, lines, strs, iter, maxIter, nodesCreated, lastNodesCreated,
           snapPts, edge, checked, result>>
allVars == <<tool, vars, sVars, rVars, dVars, nVars>>

MCLine == DOMAIN Picture
MCPts  == Picture

\* Three paths between two crossings, two of them of two lines that follow each other
\* or run against each other, a dangling line, a loop at a crossing, a ring of two
\* lines that stands apart, and a line that collapses to a point.
Web == << << <<0,0>>, <<2,0>> >>, << <<4,0>>, <<2,0>> >>,
          << <<4,0>>, <<2,2>> >>, << <<2,2>>, <<0,0>> >>,
          << <<4,0>>, <<2,-2>>, <<0,0>> >>,
          << <<-2,0>>, <<0,0>> >>,
          << <<4,0>>, <<6,2>>, <<6,-2>>, <<4,0>> >>,
          << <<8,0>>, <<10,0>> >>, << <<8,0>>, <<8,2>>, <<10,0>> >>,
          << <<2,2>>, <<2,2>> >> >>

\* A bent line, three components of which two meet nobody, a line that crosses
\* itself, a component of no length, a ring, and a line that comes back on itself.
MCLinears ==
    << << << <<0,0>>, <<4,0>>, <<4,3>> >> >>,
       << << <<0,0>>, <<3,0>> >>, << <<5,0>>, <<5,2>>, <<3,2>> >>, << <<3,4>>, <<5,4>> >> >>,
       << << <<0,0>>, <<4,0>>, <<4,2>>, <<2,2>>, <<2,-2>> >> >>,
       << << <<0,0>>, <<2,0>> >>, << <<3,1>>, <<3,1>> >>, << <<4,0>>, <<6,0>> >> >>,
       << << <<0,0>>, <<2,0>>, <<2,2>>, <<0,2>>, <<0,0>> >> >>,
       << << <<0,0>>, <<2,0>> >>, << <<2,0>>, <<0,0>> >> >> >>
MCLinearSet == Range(MCLinears)
MCAsked == (-1..6) \X (-2..5)

\* A grid of sites with circles through four of them and three in line, and one with
\* columns further apart.
MCSiteSets == (SUBSET ({0, 2, 4} \X {0, 2, 4}) \cup SUBSET ({0, 2, 6} \X {0, 2, 4})) \ {{}}

\* Up to three lines out of a pool on a 4 x 4 grid: lines that cross between grid
\* points, touch, overlap, double back, close, and share vertices.  The crossings are
\* rounded to the grid, so a pass creates intersections that were not there before.
Pool == << <<<<0,0>>, <<3,1>>>>,          <<<<0,1>>, <<3,0>>>>,
           <<<<0,2>>, <<3,2>>>>,          <<<<1,0>>, <<2,3>>>>,
           <<<<0,3>>, <<2,0>>>>,          <<<<3,3>>, <<0,1>>>>,
           <<<<0,0>>, <<1,2>>, <<2,0>>>>, <<<<0,0>>, <<2,1>>, <<0,0>>>>,
           <<<<1,1>>, <<3,1>>, <<3,3>>, <<1,3>>, <<1,1>>>>,
           <<<<0,2>>, <<2,3>>, <<3,1>>, <<1,0>>>> >>

SomeLines(pool, most) ==
    {[k \in DOMAIN f |-> pool[f[k]]] :
        f \in UNION {{f \in [1..n -> DOMAIN pool] : \A i, j \in 1..n : i < j => f[i] < f[j]}
                        : n \in 1..most}}

MCInputs == SomeLines(Pool, 3)

MCInit == /\ tool \in Tools /\ Init /\ S!Init /\ R!RefInit /\ D!DelInit /\ N!Init
          /\ tool # "referencer" => linear = MCLinears[1]
          /\ tool # "triangulator" => siteCoords = << <<0, 0>> >> /\ tolerance = 0
\* Bounds: the collapsed line comes once, and no line after the sequence, which is
\* computed once.
Fresh(l, ls) == Order => \A k \in ls : k < l
Merger    == /\ tool = "merger" /\ Next /\ UNCHANGED <<tool, sVars, rVars, dVars, nVars>>
             /\ \A l \in added' \ added : Fresh(l, added)
Sequencer == /\ tool = "sequencer" /\ S!Next /\ UNCHANGED <<tool, vars, rVars, dVars, nVars>>
             /\ \A l \in ToSet(sLines') \ ToSet(sLines) : Fresh(l, ToSet(sLines))
             /\ lineCount' <= Len(sLines') + 1
             /\ isRun => lineCount' = lineCount
Referencer == tool = "referencer" /\ R!RefNext /\ UNCHANGED <<tool, vars, sVars, dVars, nVars>>
Triangulator == tool = "triangulator" /\ D!DelNext /\ UNCHANGED <<tool, vars, sVars, rVars, nVars>>
Apart  == UNCHANGED <<tool, vars, sVars, rVars, dVars>>
Noder  == tool = "noder" /\ N!Next /\ Apart
MCNext == Merger \/ Sequencer \/ Referencer \/ Triangulator \/ Noder

\* A call on a noder runs to its end: no step waits for anything.
MCSpec == MCInit /\ [][MCNext]_allVars /\ WF_nVars(tool = "noder" /\ N!Step /\ Apart)

-----------------------------------------------------------------------------
Contiguous(s) == \A i \in 1..(Len(s) - 1) : getToNode(s[i]) = getFromNode(s[i + 1])

\* Every line once, in one of the sequences.
EachOnce(ss, ls) ==
    LET all == FlattenSeq(ss)
    IN  LinesOf(ToSet(all)) = ls /\ Len(all) = Cardinality(ls)

\* LineMerger.h: "Sewing stops at nodes of degree 1 or 3 or more.  The exception is
\* an isolated loop [...] The direction of each merged LineString will be that of the
\* majority of the LineStrings from which it was derived."  After lines were added to
\* a merger that had merged before, and whichever way the lines run: a finished merge
\* has every line once, in chains that are as long as they can be.
MergedLinesAreTheChains ==
    (pc = "idle" /\ merged # NULL /\ LinesOf(ToSet(FlattenSeq(merged))) = added) =>
        /\ EachOnce(merged, added)
        /\ \A i \in DOMAIN merged :
              LET s == merged[i]
                  ends == {getFromNode(s[1]), getToNode(Last(s))}
              IN  /\ Contiguous(s)
                  /\ \A k \in 1..(Len(s) - 1) : degree(getToNode(s[k])) = 2
                  /\ (\E n \in ends : degree(n) = 2) => (Cardinality(ends) = 1)
                  /\ 2 * Cardinality({k \in DOMAIN s : s[k][2]}) >= Len(s)

\* "this allows incremental processing" (LineMerger::merge): the result of a merge
\* has all lines that were in the graph when it began.
MergeIsIncremental ==
    [][(pc # "idle" /\ pc' = "idle") => EachOnce(merged', added)]_allVars

Components == {S!findSubgraph(n).lines : n \in Nodes(S!graph)}
Eulerian == \A c \in Components : Cardinality({n \in Nodes(Dirs(c)) : S!degree(n) % 2 = 1}) <= 2

\* LineSequencer.h: "A sequence is a complete non-repeating list of the linear
\* components of the input.  Each linestring is oriented so that identical endpoints
\* are adjacent in the list [...] If it is not possible to find a sequence, the
\* isSequenceable method will return false": it does so only then.  Each connected
\* part comes as one path, a node of degree 1 that starts a line and is an end of its
\* path is the start of it, and the class's own test, isSequenced, accepts the whole.
Paths(ss) ==
    \A i \in DOMAIN ss :
       LET s == ss[i]
       IN  /\ Contiguous(s)
           /\ LinesOf(ToSet(s)) \in Components /\ EachOnce(<<s>>, LinesOf(ToSet(s)))
           /\ \A j \in 1..(i - 1) : LinesOf(ToSet(ss[j])) # LinesOf(ToSet(s))
           /\ (S!degree(getToNode(Last(s))) = 1 /\ ~Last(s)[2])
                 => (S!degree(getFromNode(s[1])) = 1 /\ s[1][2])

SequenceIsAPath ==
    [][(sPc # "idle" /\ sPc' = "idle") =>
         IF isSequenceableVar'
         THEN EachOnce(<<sequenced'>>, ToSet(sLines)) /\ S!isSequenced(sequenced') /\ Paths(sequences')
         ELSE ~Eulerian]_allVars

\* LineSequencer.h: "there is a sequence containing each edge once if and only if
\* there are no more than 2 nodes of odd degree".  Only lines of which some connected
\* part has more make the search end in an exception or a failing assertion.
EulerianIsSequenced == sPc \in {"thrown", "aborted"} => ~Eulerian

-----------------------------------------------------------------------------
(* Linear references, counted in steps of one unit                         *)
StepsOf(line) ==
    FlattenSeq([i \in 1..(Len(line) - 1) |->
        LET p == line[i]
            q == line[i + 1]
            step(k) == <<p[1] + k * Sign(q[1] - p[1]), p[2] + k * Sign(q[2] - p[2])>>
        IN  [k \in 1..R!size(p, q) |-> <<step(k - 1), step(k)>>]])
Steps == [g \in Linears |-> Table([c \in DOMAIN g |-> StepsOf(g[c])])]
AllSteps == [g \in Linears |-> FlattenSeq(Steps[g])]

\* The steps from length a to length b, component by component
Between(g, a, b) ==
    LET before(c) == Len(FlattenSeq(SubSeq(Steps[g], 1, c - 1)))
        lo(c) == IF a > before(c) THEN a - before(c) ELSE 0
        hi(c) == R!Min({b - before(c), Len(Steps[g][c])})
    IN  SelectSeq([c \in DOMAIN g |-> SubSeq(Steps[g][c], lo(c) + 1, hi(c))], LAMBDA s : s # <<>>)

\* The points at length i: one, or the end of a component and the next ones up to the
\* start of one that goes on.
PointsAt ==
    [g \in Linears |-> Table([i \in 0..Len(AllSteps[g]) |->
        {AllSteps[g][k][2] : k \in {i} \cap DOMAIN AllSteps[g]} \cup
        {AllSteps[g][k][1] : k \in {i + 1} \cap DOMAIN AllSteps[g]} \cup
        {g[c][1] : c \in {d \in DOMAIN g : Steps[g][d] = <<>> /\ i = Len(FlattenSeq(SubSeq(Steps[g], 1, d)))}}])]
Away == [g \in Linears |-> Table([p \in Asked |-> Table([i \in DOMAIN PointsAt[g] |->
            R!Min({R!square(p, q) : q \in PointsAt[g][i]})])])]
Simple == [g \in Linears |-> \A i, j \in DOMAIN PointsAt[g] : i # j => PointsAt[g][i] \cap PointsAt[g][j] = {}]
ComponentEnds == [g \in Linears |-> {i \in DOMAIN PointsAt[g] : Cardinality(PointsAt[g][i]) > 1}]

\* LengthIndexedLine.h: lengths before the start, and behind the end, are brought to
\* the line, and negative ones count from the end.  A point, and what lies between two
\* lengths, is what a walk of unit steps finds there, over component ends and back; a
\* point is projected to the first of the nearest lengths; the first occurrence after
\* a length is found; locations and lengths agree; and a line extracted from a simple
\* line is found again where it was, unless it ends where a component other than the
\* last one does (LengthLocationMap::getLength, which does not look there).
LinearReferencesAgree ==
    call # NULL =>
        LET g == linear
            op == call.op
            a == call.args
            r == call.answer
            s == R!clampIndex(a[1])
            e == R!clampIndex(a[2])
            lengths == DOMAIN PointsAt[g]
        IN  CASE op = "extractPoint" -> r \in PointsAt[g][s]
              [] op = "extractLine" ->
                   LET forth == IF e < s THEN R!reverseLines(r) ELSE r
                       parts == SelectSeq([c \in DOMAIN forth |-> StepsOf(forth[c])], LAMBDA x : x # <<>>)
                   IN  IF s = e THEN parts = <<>> /\ Len(r) = 1 /\ Head(Head(r)) \in PointsAt[g][s]
                       ELSE parts = IF e < s THEN Between(g, e, s) ELSE Between(g, s, e)
              [] op = "indexOf" ->
                   /\ \A i \in lengths : Away[g][a[1]][r] <= Away[g][a[1]][i]
                   /\ \A i \in 0..(r - 1) : Away[g][a[1]][r] < Away[g][a[1]][i]
              [] op = "indexOfAfter" ->
                   \A i \in lengths : (i > a[2] /\ a[1] \in PointsAt[g][i]) => (r # NULL /\ a[2] < r /\ r <= i /\ a[1] \in PointsAt[g][r])
              [] op = "locationOf" -> R!getCoordinate(r) \in PointsAt[g][R!indexOf(a[1])]
              [] op = "indicesOf" -> (Simple[g] /\ s < e /\ e \notin ComponentEnds[g]) => r = <<s, e>>

-----------------------------------------------------------------------------
(* Triangulations                                                          *)
Area2(p, q, r) == (q[1] - p[1]) * (r[2] - p[2]) - (q[2] - p[2]) * (r[1] - p[1])

HullArea2(V) ==
    LET hull == {pq \in V \X V : /\ pq[1] # pq[2]
                                 /\ \A r \in V : \/ orientationIndex(pq[1], pq[2], r) > 0
                                                \/ D!isBetween(r, pq[1], pq[2])}
    IN  MapThenSumSet(LAMBDA pq : pq[1][1] * pq[2][2] - pq[2][1] * pq[1][2], hull)

\* The corners of a triangle, counter-clockwise
CCW(t) == LET s == SetToSeq(t)
          IN  IF orientationIndex(s[1], s[2], s[3]) < 0 THEN <<s[1], s[3], s[2]>> ELSE s

\* The vertices that k edges at most lead to from a vertex of V
Joined(V, E, k) ==
    LET touch(p) == {p} \cup UNION {ends \in E : p \in ends}
        wave[n \in Nat] == IF n = 0 THEN {CHOOSE v \in V : TRUE} ELSE UNION {touch(p) : p \in wave[n - 1]}
    IN  wave[k]

\* DelaunayTriangulationBuilder.h, VoronoiDiagramBuilder.h: every site is a vertex, or
\* closer to one than the tolerance; every face of the subdivision is a triangle, which
\* getTriangles' array of three edges relies on; no site is in the circle of a triangle;
\* the triangles tile the convex hull, and the edges join all sites, those in one line
\* too; and the cell of a site has the circles of all triangles round it, each once,
\* those that share a side next to each other.  No site is impossible to locate.
TriangulationIsDelaunay ==
    /\ dPc # "thrown"
    /\ (dPc = "built" /\ Len(siteCoords) > 1) =>
        \A qs \in {D!visited(mesh)} :
        \A inserted \in {{D!orig(mesh, q) : q \in qs} \ ToSet(D!createFrame)} :
        \A all \in {{D!corners(mesh, q) : q \in qs}} :
        \A triangles \in {D!getTriangles(mesh, qs)} :
            /\ \A q \in qs : D!isTriangle(mesh, q)
            /\ inserted \subseteq ToSet(siteCoords)
            /\ \A s \in ToSet(siteCoords) \ inserted : \E v \in inserted : D!equals(s, v)
            /\ \A t \in triangles, v \in inserted :
                  ~D!isInCircle(v, CCW(t)[1], CCW(t)[2], CCW(t)[3])
            /\ MapThenSumSet(LAMBDA t : Area2(CCW(t)[1], CCW(t)[2], CCW(t)[3]), triangles)
                  = HullArea2(inserted)
            /\ Joined(inserted, D!getPrimaryEdges(mesh, qs), Cardinality(inserted)) = inserted
            /\ \A q \in qs : D!orig(mesh, q) \in inserted =>
                  LET cell == D!getVoronoiCell(mesh, q)
                  IN  /\ ToSet(cell) = {t \in all : D!orig(mesh, q) \in t}
                      /\ Len(cell) = Cardinality(ToSet(cell))
                      /\ \A i \in DOMAIN cell :
                            Cardinality(cell[i] \cap cell[1 + (i % Len(cell))]) = 2

-----------------------------------------------------------------------------
(* Noding: the properties of MCNoders                                      *)

\* What IteratedNoder returns is fully noded and covers no segment twice.
IteratedIsFullyNoded == N!IteratedIsFullyNoded

\* Noding only cuts: every vertex and end of the input is one of the result.
InputSurvives == N!InputSurvives

\* Every call on a noder ends, also when its passes create no fewer nodes.
CallEnds == N!CallEnds
=============================================================================
