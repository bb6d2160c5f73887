---------------------------- MODULE LineSequencer ---------------------------
(***************************************************************************)
(* operation/linemerge/LineSequencer: the lines of each connected part of  *)
(* the graph are put into one path, if Euler's theorem allows it.  A path  *)
(* is walked from a node of lowest degree until it is stuck; then, from    *)
(* its end backwards, walks over unvisited lines are spliced in, which     *)
(* must come back to where they left.                                      *)
(***************************************************************************)
EXTENDS DirectedEdges

CONSTANTS NULL, NDEBUG

VARIABLES sLines,        \* the lines in the graph, in the order they came
          lineCount, isRun, isSequenceableVar,
          sequenced,     \* sequencedGeometry: a sequence of directed edges, or NULL
          sPc,           \* idle, the step of computeSequence, thrown or aborted
          scanned,       \* nodes visited by the ConnectedSubgraphFinder
          subgraph,      \* lines of the subgraph in work
          visited,       \* lines visited by findSequence
          seq, lit,      \* the list under construction, the place of insertion
          walk,          \* the subpath being walked, NULL between two
          sequences      \* the paths found so far

sVars == <<sLines, lineCount, isRun, isSequenceableVar, sequenced, sPc, scanned,
           subgraph, visited, seq, lit, walk, sequences>>

Init == /\ sLines = <<>> /\ lineCount = 0 /\ isRun = FALSE /\ isSequenceableVar = FALSE
        /\ sequenced = NULL /\ sPc = "idle" /\ scanned = {} /\ subgraph = {}
        /\ visited = {} /\ seq = <<>> /\ lit = 0 /\ walk = NULL /\ sequences = <<>>

graph == Dirs(ToSet(sLines))
degree(n) == getDegree(n, graph)

\* addLine counts every line, also those the graph does not take.
addLine(l) ==
    /\ sPc = "idle" /\ l \notin ToSet(sLines)
    /\ sLines' = IF IsUsable(l) THEN Append(sLines, l) ELSE sLines
    /\ lineCount' = lineCount + 1
    /\ UNCHANGED <<isRun, isSequenceableVar, sequenced, sPc, scanned, subgraph, visited,
                   seq, lit, walk, sequences>>

\* isSequenceable and getSequencedLineStrings compute once.
computeSequence ==
    /\ sPc = "idle" /\ ~isRun
    /\ isRun' = TRUE /\ sPc' = "findSequences"
    /\ UNCHANGED <<sLines, lineCount, isSequenceableVar, sequenced, scanned, subgraph,
                   visited, seq, lit, walk, sequences>>

-----------------------------------------------------------------------------
(* ConnectedSubgraphFinder                                                 *)

\* The lines that hang together with node n, and their nodes.
findSubgraph(n) ==
    LET reach[k \in Nat] ==
            IF k = 0 THEN {n}
            ELSE LET near == reach[k - 1]
                 IN  near \cup {getToNode(d) : d \in {e \in graph : getFromNode(e) \in near}}
        found == reach[Len(sLines)]
    IN  [nodes |-> found, lines |-> LinesOf({d \in graph : getFromNode(d) \in found})]

\* The first line whose start has not been visited.
unscanned == {i \in DOMAIN sLines : getFromNode(<<sLines[i], TRUE>>) \notin scanned}

oddNodes(ls) == {n \in Nodes(Dirs(ls)) : degree(n) % 2 = 1}

\* Mutant: only closed paths.
hasSequence_Closed(ls) == oddNodes(ls) = {}

hasSequence(ls) == Cardinality(oddNodes(ls)) <= 2

\* NodeMap is ordered by coordinate; the first node of the lowest degree.
findLowestDegreeNode(ls) ==
    LET ns == Nodes(Dirs(ls))
        lowest == {n \in ns : \A m \in ns : degree(n) <= degree(m)}
    IN  CHOOSE n \in lowest : \A m \in lowest : n[1] < m[1] \/ (n[1] = m[1] /\ n[2] <= m[2])

\* The next subgraph: the search for its sequence starts with the first edge of
\* the star of a node of lowest degree; a subgraph without one ends it all.
nextSubgraph ==
    /\ sPc = "findSequences" /\ unscanned # {}
    /\ LET first == CHOOSE i \in unscanned : \A j \in unscanned : i <= j
           found == findSubgraph(getFromNode(<<sLines[first], TRUE>>))
           start == sortEdges(outEdges(findLowestDegreeNode(found.lines), graph))[1]
       IN  /\ scanned' = scanned \cup found.nodes
           /\ subgraph' = found.lines
           /\ IF hasSequence(found.lines)
              THEN /\ visited' = visited \ found.lines
                   /\ seq' = <<>> /\ lit' = 1
                   /\ walk' = [de |-> start, home |-> getFromNode(start), expectedClosed |-> FALSE]
                   /\ sPc' = "findSequence"
                   /\ UNCHANGED sequences
              ELSE /\ sPc' = "idle" /\ sequences' = <<>>
                   /\ UNCHANGED <<visited, seq, lit, walk>>
    /\ UNCHANGED <<sLines, lineCount, isRun, isSequenceableVar, sequenced>>

-----------------------------------------------------------------------------
(* findSequence                                                            *)

\* The last unvisited edge of the star, if possible the last that follows its line.
findUnvisitedBestOrientedDE(n, seen) ==
    LET unvisited == SelectSeq(sortEdges(outEdges(n, graph)), LAMBDA d : d[1] \notin seen)
        oriented == SelectSeq(unvisited, LAMBDA d : d[2])
    IN  CASE oriented # <<>>  -> Last(oriented)
          [] unvisited # <<>> -> Last(unvisited)
          [] OTHER            -> NULL

\* One turn of the loop of addReverseSubpath: the edge goes in at lit, and the walk
\* goes on from its end as long as there is an unvisited line.
addReverseSubpath ==
    /\ sPc = "findSequence" /\ walk # NULL
    /\ walk.de # NULL
    /\ visited' = visited \cup {walk.de[1]}
    /\ seq' = InsertAt(seq, lit, walk.de) /\ lit' = lit + 1
    /\ walk' = [walk EXCEPT !.de = findUnvisitedBestOrientedDE(getToNode(walk.de), visited')]
    /\ UNCHANGED <<sLines, lineCount, isRun, isSequenceableVar, sequenced, sPc, scanned,
                   subgraph, sequences>>

\* Mutant: any end will do.
subpathDone_Open ==
    /\ sPc = "findSequence" /\ walk # NULL /\ walk.de = NULL
    /\ walk' = NULL
    /\ UNCHANGED <<sLines, lineCount, isRun, isSequenceableVar, sequenced, sPc, scanned,
                   subgraph, visited, seq, lit, sequences>>

\* The walk is stuck: "path not contiguos" if it should have come back.  The first
\* walk is followed by the way back from the end of the list.
subpathDone ==
    /\ sPc = "findSequence" /\ walk # NULL /\ walk.de = NULL
    /\ walk' = NULL
    /\ IF walk.expectedClosed /\ getToNode(seq[lit - 1]) # walk.home
       THEN sPc' = "thrown" ELSE UNCHANGED sPc
    /\ UNCHANGED <<sLines, lineCount, isRun, isSequenceableVar, sequenced, scanned,
                   subgraph, visited, seq, lit, sequences>>

\* One step back; an unvisited line at the start of this edge begins a subpath.
stepBack ==
    /\ sPc = "findSequence" /\ walk = NULL /\ lit > 1
    /\ lit' = lit - 1
    /\ LET from == getFromNode(seq[lit - 1])
           de == findUnvisitedBestOrientedDE(from, visited)
       IN  walk' = IF de = NULL THEN NULL ELSE [de |-> de, home |-> from, expectedClosed |-> TRUE]
    /\ UNCHANGED <<sLines, lineCount, isRun, isSequenceableVar, sequenced, sPc, scanned,
                   subgraph, visited, seq, sequences>>

reverse(s) == Reverse([i \in DOMAIN s |-> getSym(s[i])])

\* orient: a node of degree 1 that starts its line becomes the start, one that
\* ends its line the end.
orient(s) ==
    LET atStart == degree(getFromNode(s[1])) = 1
        atEnd   == degree(getToNode(Last(s))) = 1
        flip    == IF atStart /\ s[1][2] THEN FALSE
                   ELSE IF atEnd /\ ~Last(s)[2] THEN TRUE
                   ELSE atStart
    IN  IF flip THEN reverse(s) ELSE s

sequenceDone ==
    /\ sPc = "findSequence" /\ walk = NULL /\ lit = 1
    /\ sequences' = Append(sequences, orient(seq))
    /\ sPc' = "findSequences"
    /\ UNCHANGED <<sLines, lineCount, isRun, isSequenceableVar, sequenced, scanned, subgraph,
                   visited, seq, lit, walk>>

\* buildSequencedGeometry and the assertions: no line at all leaves no geometry to
\* ask for its number of lines.
finish ==
    /\ sPc = "findSequences" /\ unscanned = {}
    /\ sequenced' = IF sequences = <<>> THEN NULL ELSE FlattenSeq(sequences)
    /\ isSequenceableVar' = TRUE
    /\ sPc' = IF ~NDEBUG /\ (sequences = <<>> \/ lineCount # Len(FlattenSeq(sequences)))
              THEN "aborted" ELSE "idle"
    /\ UNCHANGED <<sLines, lineCount, isRun, scanned, subgraph, visited, seq, lit, walk, sequences>>

\* isSequenced of a list of lines: no line touches a run of connected lines that had
\* ended before the line ahead of it.
isSequenced(s) ==
    \A j, k \in DOMAIN s :
        (\E i \in (j + 1)..(k - 1) : getToNode(s[i - 1]) # getFromNode(s[i])) =>
            {getFromNode(s[j]), getToNode(s[j])} \cap {getFromNode(s[k]), getToNode(s[k])} = {}

Step == \/ nextSubgraph \/ addReverseSubpath \/ subpathDone \/ stepBack
        \/ sequenceDone \/ finish

Next == (\E l \in Line : addLine(l)) \/ computeSequence \/ Step

Spec == Init /\ [][Next]_sVars
=============================================================================
