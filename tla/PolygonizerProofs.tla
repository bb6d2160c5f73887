------------------------- MODULE PolygonizerProofs --------------------------
(***************************************************************************)
(* deleteDangles is correct for every set of lines: whatever the order in  *)
(* which nodes are popped, it deletes and reports exactly the lines that   *)
(* lie in no core of the graph, each of them once.  And getEdgeRings is:   *)
(* its rings are closed walks that partition the edges that are left.      *)
(*                                                                         *)
(* The second result rests on the geometry of a star (turns compose within *)
(* a quadrant, so compareDirection is an order), on pointers that lead no  *)
(* two edges to the same one, before and after the conversion of a ring,   *)
(* and on walks along such pointers coming back to their start.            *)
(***************************************************************************)
EXTENDS Polygonizer, Listings

-----------------------------------------------------------------------------
(* Facts about directed edges.                                             *)

\* The two directions of a line: getSym is an involution that swaps the ends.
LEMMA SymFacts ==
    ASSUME NEW L \in SUBSET Line, NEW d \in Dirs(L)
    PROVE  /\ d[1] \in L /\ d[2] \in BOOLEAN
           /\ getSym(d) \in Dirs(L)
           /\ getSym(getSym(d)) = d
           /\ getSym(d)[1] = d[1]
           /\ d = <<d[1], d[2]>>
  <1>1. PICK l \in L, b \in BOOLEAN : d = <<l, b>>
    BY DEF Dirs
  <1>2. d[1] = l /\ d[2] = b
    BY <1>1
  <1>3. getSym(d) = <<l, ~b>> /\ (~b) \in BOOLEAN
    BY <1>2 DEF getSym
  <1>4. getSym(d)[1] = l /\ getSym(d)[2] = ~b
    BY <1>3
  <1>5. getSym(getSym(d)) = <<l, ~~b>>
    BY <1>4 DEF getSym
  <1>6. (~~b) = b
    BY b \in BOOLEAN
  <1>7. getSym(d) \in Dirs(L)
    <2>1. PICK c \in BOOLEAN : getSym(d) = <<l, c>>
      BY <1>3
    <2> QED
      BY <2>1 DEF Dirs
  <1> QED
    BY <1>1, <1>2, <1>4, <1>5, <1>6, <1>7

\* Every set of directed edges of the graph is finite.
LEMMA DirsFinite ==
    ASSUME NEW L \in SUBSET Line, NEW S \in SUBSET Dirs(L)
    PROVE  IsFiniteSet(S)
  <1>1. IsFiniteSet(L)
    BY FS_Subset, LineAssumption
  <1>2. IsFiniteSet(BOOLEAN)
    <2>1. BOOLEAN = {TRUE} \cup {FALSE}
      OBVIOUS
    <2>2. IsFiniteSet({TRUE}) /\ IsFiniteSet({FALSE})
      BY FS_Singleton, Zenon
    <2>3. IsFiniteSet({TRUE} \cup {FALSE})
      BY <2>2, FS_Union, Zenon
    <2> QED
      BY <2>1, <2>3, Zenon
  <1>3. IsFiniteSet(L \X BOOLEAN)
    BY <1>1, <1>2, FS_Product
  <1> QED
    BY <1>3, FS_Subset DEF Dirs

\* A node has degree 1 exactly when one edge leaves it.
LEMMA DegreeOne ==
    ASSUME NEW L \in SUBSET Line, NEW S \in SUBSET Dirs(L), NEW n
    PROVE  getDegree(n, S) = 1 <=>
             \E d \in S : /\ getFromNode(d) = n
                          /\ \A e \in S : getFromNode(e) = n => e = d
  <1> DEFINE O == outEdges(n, S)
  <1>1. O \subseteq S /\ \A e : e \in O <=> (e \in S /\ getFromNode(e) = n)
    BY DEF outEdges
  <1>2. IsFiniteSet(O)
    BY <1>1, DirsFinite
  <1>3. Cardinality(O) = 1 <=> \E d : O = {d}
    BY <1>2, FS_Singleton
  <1>4. ASSUME NEW d, O = {d}
        PROVE  /\ d \in S /\ getFromNode(d) = n
               /\ \A e \in S : getFromNode(e) = n => e = d
    BY <1>1, <1>4
  <1>5. ASSUME NEW d \in S, getFromNode(d) = n,
               \A e \in S : getFromNode(e) = n => e = d
        PROVE  O = {d}
    BY <1>1, <1>5
  <1> QED
    BY <1>3, <1>4, <1>5 DEF getDegree

-----------------------------------------------------------------------------
(* The inductive invariant.  While the loop runs on a fresh graph: exactly *)
(* the two directions of the reported lines are deleted; a node that is    *)
(* left with a single edge waits on the stack; a node on the stack has at  *)
(* most one edge left; and no core has lost a line.                        *)
DangleLoop ==
    /\ marked = Dirs(uniqueDangles)
    /\ \A d \in D \ marked :
          (\A e \in D \ marked : getFromNode(e) = getFromNode(d) => e = d)
             => getFromNode(d) \in nodeStack
    /\ \A n \in nodeStack : \A d, e \in D \ marked :
          (getFromNode(d) = n /\ getFromNode(e) = n) => d = e
    /\ \A S \in SUBSET edges : IsCore(S) => S \cap uniqueDangles = {}

Fresh == /\ pc = "idle" /\ marked = {} /\ uniqueDangles = {}
         /\ \A l \in Line : dangles[l] = 0

DangleInv ==
    /\ FlagsOK
    /\ runs = 0 => Fresh
    /\ DangleReportedOnce
    /\ (pc = "deleteDangles" /\ runs = 1) => DangleLoop
    /\ DanglesAreTheNonCore

\* The initial state, with an empty graph, satisfies the invariant.
LEMMA InitDangleInv == Init => DangleInv
  <1> SUFFICES ASSUME Init PROVE DangleInv
    OBVIOUS
  <1>1. FlagsOK
    BY DEF Init, FlagsOK, D, edges, Dirs
  <1>2. Fresh
    BY DEF Init, Fresh
  <1> QED
    BY <1>1, <1>2 DEF Init, DangleInv, DangleReportedOnce, DanglesAreTheNonCore

-----------------------------------------------------------------------------
(* What one popped node does to the loop invariant.                        *)

\* The directions of the lines deleted with node n.
LEMMA MarkedAfterPop ==
    ASSUME FlagsOK, NEW n, marked = Dirs(uniqueDangles)
    PROVE  /\ markedAfter(n) = Dirs(uniqueDangles \cup LinesOf(outEdges(n, D)))
           /\ LinesOf(outEdges(n, D)) \subseteq edges
  <1> DEFINE O == outEdges(n, D)
             F == LinesOf(O)
  <1>1. edges \in SUBSET Line /\ D = Dirs(edges)
    BY DEF FlagsOK, edges, D
  <1>2. O \subseteq D
    BY DEF outEdges
  <1>3. F \subseteq edges
    BY <1>1, <1>2, SymFacts DEF LinesOf
  <1>4. Dirs(uniqueDangles \cup F) = Dirs(uniqueDangles) \cup Dirs(F)
    BY DEF Dirs
  <1>5. Dirs(F) = O \cup {getSym(d) : d \in O}
    <2>1. ASSUME NEW d \in O PROVE d \in Dirs(F) /\ getSym(d) \in Dirs(F)
      <3>1. d[1] \in F /\ d[2] \in BOOLEAN /\ d = <<d[1], d[2]>>
        BY <1>1, <1>2, SymFacts DEF LinesOf
      <3>2. d \in Dirs(F)
        BY <3>1 DEF Dirs
      <3>3. F \in SUBSET Line
        BY <1>1, <1>3
      <3> QED
        BY <3>2, <3>3, SymFacts
    <2>2. ASSUME NEW e \in Dirs(F) PROVE e \in O \cup {getSym(d) : d \in O}
      <3>1. PICK l \in F, b \in BOOLEAN : e = <<l, b>>
        BY DEF Dirs
      <3>2. PICK d \in O : d[1] = l
        BY DEF LinesOf
      <3>3. d = <<l, d[2]>> /\ d[2] \in BOOLEAN
        BY <1>1, <1>2, <3>2, SymFacts
      <3>4. CASE b = d[2]
        BY <3>1, <3>3, <3>4
      <3>5. CASE b # d[2]
        <4>1. b = ~d[2]
          BY <3>3, <3>5
        <4> QED
          BY <3>1, <3>2, <4>1 DEF getSym
      <3> QED
        BY <3>4, <3>5
    <2> QED
      BY <2>1, <2>2
  <1> QED
    BY <1>3, <1>4, <1>5 DEF markedAfter

\* No core contains a line that leaves a node of the stack.
LEMMA CoreSurvivesPop ==
    ASSUME FlagsOK, DangleLoop, NEW n \in nodeStack,
           NEW S \in SUBSET edges, IsCore(S)
    PROVE  S \cap LinesOf(outEdges(n, D)) = {}
  <1> SUFFICES ASSUME NEW d \in outEdges(n, D), d[1] \in S PROVE FALSE
    BY DEF LinesOf
  <1>1. edges \in SUBSET Line /\ D = Dirs(edges)
    BY DEF FlagsOK, edges, D
  <1>2. d \in D /\ getFromNode(d) = n
    BY DEF outEdges
  <1>3. d \in Dirs(S)
    BY <1>1, <1>2, SymFacts DEF Dirs
  <1>4. PICK e \in Dirs(S) : e # d /\ getFromNode(e) = n
    BY <1>2, <1>3 DEF IsCore
  <1>5. S \cap uniqueDangles = {}
    BY DEF DangleLoop
  <1>6. Dirs(S) \subseteq D \ marked
    BY <1>1, <1>5 DEF DangleLoop, Dirs
  <1> QED
    BY <1>2, <1>3, <1>4, <1>6 DEF DangleLoop

\* A popped node keeps the loop invariant.
LEMMA PopKeepsLoop ==
    ASSUME FlagsOK, DangleLoop, NEW n \in nodeStack, deleteDangle(n)
    PROVE  DangleLoop'
  <1> DEFINE O == outEdges(n, D)
             F == LinesOf(O)
  <1>1. edges \in SUBSET Line /\ D = Dirs(edges)
    BY DEF FlagsOK, edges, D
  <1>2. D' = D /\ edges' = edges
    BY DEF deleteDangle, D, edges
  <1>3. /\ marked' = markedAfter(n)
        /\ uniqueDangles' = uniqueDangles \cup F
        /\ nodeStack' = (nodeStack \ {n}) \cup
              {m \in {getToNode(d) : d \in O} :
                  getDegreeNonDeleted(m, D, markedAfter(n)) = 1}
    BY DEF deleteDangle, newDangles, newLines, neighbours
  <1>4. marked' = Dirs(uniqueDangles')
    BY <1>3, MarkedAfterPop DEF DangleLoop
  <1>5. marked \subseteq marked' /\ O \subseteq marked'
    BY <1>3 DEF markedAfter
  <1>6. ASSUME NEW d \in D \ marked',
               \A e \in D \ marked' : getFromNode(e) = getFromNode(d) => e = d
        PROVE  getFromNode(d) \in nodeStack'
    <2> DEFINE m == getFromNode(d)
    <2>1. m # n
      BY <1>5, <1>6 DEF outEdges
    <2>2. CASE \A e \in D \ marked : getFromNode(e) = m => e = d
      BY <1>3, <1>5, <2>1, <2>2 DEF DangleLoop
    <2>3. CASE \E e \in D \ marked : getFromNode(e) = m /\ e # d
      <3>1. PICK e \in D \ marked : getFromNode(e) = m /\ e # d
        BY <2>3
      <3>2. e \in marked' /\ e \notin marked
        BY <1>6, <3>1
      <3>3. e \notin O
        BY <2>1, <3>1 DEF outEdges
      <3>4. PICK g \in O : e = getSym(g)
        BY <1>3, <3>2, <3>3 DEF markedAfter
      <3>5. getToNode(g) = m
        BY <3>1, <3>4 DEF getToNode
      <3>6. getDegree(m, D \ marked') = 1
        BY <1>1, <1>6, DegreeOne
      <3> QED
        BY <1>3, <3>4, <3>5, <3>6 DEF getDegreeNonDeleted
    <2> QED
      BY <2>2, <2>3
  <1>7. ASSUME NEW m \in nodeStack', NEW d \in D \ marked', NEW e \in D \ marked',
               getFromNode(d) = m, getFromNode(e) = m
        PROVE  d = e
    <2>1. CASE m \in nodeStack
      BY <1>5, <1>7, <2>1 DEF DangleLoop
    <2>2. CASE getDegreeNonDeleted(m, D, markedAfter(n)) = 1
      <3>1. getDegree(m, D \ marked') = 1
        BY <1>3, <2>2 DEF getDegreeNonDeleted
      <3> QED
        BY <1>1, <1>7, <3>1, DegreeOne
    <2> QED
      BY <1>3, <1>7, <2>1, <2>2
  <1>8. ASSUME NEW S \in SUBSET edges, IsCore(S)
        PROVE  S \cap uniqueDangles' = {}
    BY <1>3, <1>8, CoreSurvivesPop DEF DangleLoop
  <1> QED
    BY <1>2, <1>4, <1>6, <1>7, <1>8 DEF DangleLoop

\* The nodes of degree 1 of a fresh graph start the loop.
LEMMA StartOfLoop ==
    ASSUME FlagsOK, Fresh, NEW c, polygonize(c)
    PROVE  DangleLoop'
  <1>1. edges \in SUBSET Line /\ D = Dirs(edges)
    BY DEF FlagsOK, edges, D
  <1>2. D' = D /\ edges' = edges /\ marked' = {} /\ uniqueDangles' = {}
    BY DEF polygonize, graphVars, D, edges, Fresh
  <1>3. nodeStack' = {n \in Nodes(D) : getDegree(n, D) = 1}
    BY DEF polygonize
  <1>4. D \ marked' = D /\ marked' = Dirs(uniqueDangles')
    BY <1>2 DEF Dirs
  <1>5. ASSUME NEW d \in D, \A e \in D : getFromNode(e) = getFromNode(d) => e = d
        PROVE  getFromNode(d) \in nodeStack'
    <2>1. getDegree(getFromNode(d), D) = 1
      BY <1>1, <1>5, DegreeOne
    <2> QED
      BY <1>3, <2>1 DEF Nodes
  <1>6. ASSUME NEW n \in nodeStack', NEW d \in D, NEW e \in D,
               getFromNode(d) = n, getFromNode(e) = n
        PROVE  d = e
    BY <1>1, <1>3, <1>6, DegreeOne
  <1> QED
    BY <1>2, <1>4, <1>5, <1>6 DEF DangleLoop

\* An empty stack means that what is left is a core.
LEMMA EndOfLoop ==
    ASSUME FlagsOK, DangleLoop, nodeStack = {}
    PROVE  IsCore(edges \ uniqueDangles)
  <1>1. edges \in SUBSET Line /\ D = Dirs(edges)
    BY DEF FlagsOK, edges, D
  <1>2. Dirs(edges \ uniqueDangles) = D \ marked
    BY <1>1 DEF DangleLoop, Dirs
  <1> QED
    BY <1>2 DEF DangleLoop, IsCore

-----------------------------------------------------------------------------
(* A step that leaves the graph, the deletion flags and the reports alone  *)
(* and does not enter the loop, nor leave it, keeps the invariant.         *)
LEMMA QuietStep ==
    ASSUME DangleInv,
           lines' = lines, marked' = marked, uniqueDangles' = uniqueDangles,
           dangles' = dangles, cutEdges' = cutEdges, runs' = runs,
           runs # 0 \/ pc' = "idle",
           pc' # "deleteDangles", pc' = "deleteCutEdges" => pc = "deleteCutEdges"
    PROVE  DangleInv'
  <1>1. D' = D /\ edges' = edges
    BY DEF D, edges
  <1>2. FlagsOK'
    BY <1>1 DEF DangleInv, FlagsOK
  <1>3. runs' = 0 => Fresh'
    BY DEF DangleInv, Fresh
  <1>4. DangleReportedOnce' /\ DanglesAreTheNonCore'
    BY <1>1 DEF DangleInv, DangleReportedOnce, DanglesAreTheNonCore
  <1> QED
    BY <1>2, <1>3, <1>4 DEF DangleInv

\* Every step keeps the invariant.
LEMMA NextDangleInv == DangleInv /\ [Next]_vars => DangleInv'
  <1> SUFFICES ASSUME DangleInv, [Next]_vars PROVE DangleInv'
    OBVIOUS
  <1>1. ASSUME NEW l \in Line, add(l) PROVE DangleInv'
    <2>1. FlagsOK'
      <3>1. lines' \subseteq Line /\ edges \subseteq edges' /\ D \subseteq D'
        BY <1>1 DEF add, DangleInv, FlagsOK, edges, D, Dirs
      <3> QED
        BY <1>1, <3>1 DEF add, DangleInv, FlagsOK, memberVars, localVars, callVars
    <2>2. runs' = 0 => Fresh'
      BY <1>1 DEF add, DangleInv, Fresh, memberVars, localVars, callVars
    <2>3. DangleReportedOnce' /\ DanglesAreTheNonCore'
      BY <1>1 DEF add, DangleInv, DangleReportedOnce, DanglesAreTheNonCore,
                  memberVars, localVars, callVars
    <2> QED
      BY <1>1, <2>1, <2>2, <2>3 DEF add, DangleInv
  <1>2. ASSUME NEW c \in Getters, getCached(c) PROVE DangleInv'
    BY <1>2, QuietStep DEF getCached, Return, graphVars, localVars
  <1>3. ASSUME NEW c \in Getters, polygonize(c) PROVE DangleInv'
    <2>1. D' = D /\ edges' = edges /\ marked' = marked /\ dangles' = dangles
          /\ cutEdges' = cutEdges /\ lines' = lines /\ uniqueDangles' = {}
          /\ runs' = runs + 1 /\ pc' = "deleteDangles"
      BY <1>3 DEF polygonize, graphVars, D, edges
    <2>2. FlagsOK'
      BY <2>1 DEF DangleInv, FlagsOK
    <2>3. runs' = 1 => runs = 0
      BY <2>1 DEF DangleInv, FlagsOK
    <2>4. runs' = 1 => DangleLoop' /\ DangleReportedOnce'
      BY <1>3, <2>1, <2>3, StartOfLoop DEF DangleInv, Fresh, DangleReportedOnce
    <2>5. runs' # 0 /\ (runs' # 1 => DangleReportedOnce')
      BY <2>1 DEF DangleInv, FlagsOK, DangleReportedOnce
    <2> QED
      BY <2>1, <2>2, <2>4, <2>5 DEF DangleInv, DanglesAreTheNonCore
  <1>4. ASSUME NEW n \in nodeStack, deleteDangle(n) PROVE DangleInv'
    <2> DEFINE found == LinesOf(outEdges(n, D)) \ uniqueDangles
    <2>1. D' = D /\ edges' = edges /\ lines' = lines /\ cutEdges' = cutEdges
          /\ runs' = runs /\ pc = "deleteDangles" /\ pc' = "deleteDangles"
          /\ marked' = markedAfter(n)
          /\ uniqueDangles' = uniqueDangles \cup found
          /\ dangles' = [l \in Line |-> IF l \in found THEN dangles[l] + 1
                                                       ELSE dangles[l]]
      BY <1>4 DEF deleteDangle, newLines, callVars, D, edges
    <2>2. edges \in SUBSET Line /\ D = Dirs(edges)
      BY DEF DangleInv, FlagsOK, edges, D
    <2>3. FlagsOK'
      <3>1. found \subseteq edges
        BY <2>2, SymFacts DEF LinesOf, outEdges
      <3>2. marked' \subseteq D
        BY <2>1, <2>2, SymFacts DEF markedAfter, outEdges, DangleInv, FlagsOK
      <3>3. \A d \in marked' : getSym(d) \in marked'
        <4> SUFFICES ASSUME NEW d \in marked' PROVE getSym(d) \in marked'
          OBVIOUS
        <4>1. CASE d \in marked
          BY <2>1, <4>1 DEF markedAfter, DangleInv, FlagsOK
        <4>2. CASE d \in outEdges(n, D)
          BY <2>1, <4>2 DEF markedAfter
        <4>3. CASE \E g \in outEdges(n, D) : d = getSym(g)
          BY <2>1, <2>2, <4>3, SymFacts DEF markedAfter, outEdges
        <4> QED
          BY <2>1, <4>1, <4>2, <4>3 DEF markedAfter
      <3>4. dangles' \in [Line -> Nat]
        BY <2>1 DEF DangleInv, FlagsOK
      <3> QED
        BY <2>1, <3>1, <3>2, <3>3, <3>4 DEF DangleInv, FlagsOK
    <2>4. DangleReportedOnce'
      BY <2>1 DEF DangleInv, DangleReportedOnce
    <2>5. runs' = 1 => DangleLoop'
      BY <1>4, <2>1, PopKeepsLoop DEF DangleInv
    <2>6. runs' # 0
      BY <2>1 DEF DangleInv, Fresh
    <2> QED
      BY <2>1, <2>3, <2>4, <2>5, <2>6 DEF DangleInv, DanglesAreTheNonCore
  <1>5. CASE danglesDone
    <2>1. D' = D /\ edges' = edges /\ lines' = lines /\ marked' = marked
          /\ uniqueDangles' = uniqueDangles /\ dangles' = dangles
          /\ cutEdges' = cutEdges /\ runs' = runs /\ nodeStack = {}
          /\ pc = "deleteDangles" /\ pc' = "deleteCutEdges"
      BY <1>5 DEF danglesDone, graphVars, memberVars, localVars, callVars, D, edges
    <2>2. runs' # 0 /\ FlagsOK' /\ DangleReportedOnce'
      BY <2>1 DEF DangleInv, Fresh, FlagsOK, DangleReportedOnce
    <2>3. DanglesAreTheNonCore'
      BY <2>1, EndOfLoop DEF DangleInv, DanglesAreTheNonCore, DangleLoop
    <2> QED
      BY <2>1, <2>2, <2>3 DEF DangleInv
  <1>6. CASE deleteCutEdges
    <2>1. PICK cut \in {cutEdgesOf(D, marked, label)} :
              /\ marked' = marked \cup Dirs(cut)
              /\ cutEdges' = [l \in Line |-> IF l \in cut THEN cutEdges[l] + 1
                                                       ELSE cutEdges[l]]
      BY <1>6 DEF deleteCutEdges
    <2>2. D' = D /\ edges' = edges /\ lines' = lines /\ pc = "deleteCutEdges"
          /\ uniqueDangles' = uniqueDangles /\ dangles' = dangles /\ runs' = runs
          /\ pc' = "getEdgeRings"
      BY <1>6 DEF deleteCutEdges, callVars, D, edges
    <2>3. edges \in SUBSET Line /\ D = Dirs(edges)
      BY DEF DangleInv, FlagsOK, edges, D
    <2>4. cut \subseteq edges
      BY <2>3, SymFacts DEF cutEdgesOf, LinesOf
    <2>5. Dirs(cut) \subseteq D
      BY <2>3, <2>4 DEF Dirs
    <2>6. \A d \in marked' : getSym(d) \in marked'
      BY <2>1, <2>3, <2>4, SymFacts DEF DangleInv, FlagsOK
    <2>7. cutEdges' \in [Line -> Nat]
      BY <2>1 DEF DangleInv, FlagsOK
    <2>8. FlagsOK'
      BY <2>1, <2>2, <2>3, <2>5, <2>6, <2>7 DEF DangleInv, FlagsOK
    <2> QED
      BY <2>2, <2>8 DEF DangleInv, Fresh, DangleReportedOnce, DanglesAreTheNonCore
  <1>7. CASE findLabeledEdgeRing
    <2>1. CASE Abort
      BY <1>7, <2>1, QuietStep DEF findLabeledEdgeRing, Abort, graphVars, memberVars,
                                   localVars, callVars, DangleInv, Fresh
    <2>2. CASE \E ring : labelRing(ring)
      BY <1>7, <2>2, QuietStep DEF findLabeledEdgeRing, labelRing, memberVars,
                                   callVars, DangleInv, Fresh
    <2> QED
      BY <1>7, <2>1, <2>2 DEF findLabeledEdgeRing
  <1>8. CASE convertRing
    BY <1>8, QuietStep DEF convertRing, memberVars, callVars, DangleInv, Fresh
  <1>9. CASE conversionDone
    BY <1>9, QuietStep DEF conversionDone, graphVars, memberVars, callVars,
                            DangleInv, Fresh
  <1>10. CASE findEdgeRing
    <2>1. CASE Abort
      BY <1>10, <2>1, QuietStep DEF findEdgeRing, Abort, graphVars, memberVars,
                                    localVars, callVars, DangleInv, Fresh
    <2>2. CASE UNCHANGED <<lines, marked, memberVars, uniqueDangles, callVars, pc>>
      BY <1>10, <2>2, QuietStep DEF findEdgeRing, memberVars, callVars, DangleInv, Fresh
    <2> QED
      BY <1>10, <2>1, <2>2 DEF findEdgeRing
  <1>11. CASE edgeRingsDone
    BY <1>11, QuietStep DEF edgeRingsDone, graphVars, callVars, DangleInv, Fresh
  <1>12. CASE findValidRing
    BY <1>12, QuietStep DEF findValidRing, graphVars, callVars, DangleInv, Fresh
  <1>13. CASE validRingsDone
    BY <1>13, QuietStep DEF validRingsDone, graphVars, callVars, DangleInv, Fresh
  <1>14. CASE findShellOrHole
    BY <1>14, QuietStep DEF findShellOrHole, graphVars, callVars, DangleInv, Fresh
  <1>15. CASE shellsAndHolesDone
    BY <1>15, QuietStep DEF shellsAndHolesDone, graphVars, memberVars, callVars,
                            DangleInv, Fresh
  <1>16. CASE assignHoleToShell
    BY <1>16, QuietStep DEF assignHoleToShell, graphVars, memberVars, callVars,
                            DangleInv, Fresh
  <1>17. CASE polygonsDone
    BY <1>17, QuietStep DEF polygonsDone, Return, graphVars, localVars
  <1>18. CASE interrupted
    BY <1>18, QuietStep DEF interrupted, graphVars, memberVars
  <1>19. CASE UNCHANGED vars
    <2>1. UNCHANGED <<lines, marked, dangles, cutEdges, pc, nodeStack,
                      uniqueDangles, runs>>
      BY <1>19 DEF vars, graphVars, memberVars, localVars, callVars
    <2>2. D' = D /\ edges' = edges
      BY <2>1 DEF D, edges
    <2> QED
      BY <2>1, <2>2 DEF DangleInv, FlagsOK, Fresh, DangleReportedOnce,
                        DanglesAreTheNonCore, DangleLoop
  <1> QED
    BY <1>1, <1>2, <1>3, <1>4, <1>5, <1>6, <1>7, <1>8, <1>9, <1>10, <1>11, <1>12,
       <1>13, <1>14, <1>15, <1>16, <1>17, <1>18, <1>19 DEF Next, Step, deleteDangles

-----------------------------------------------------------------------------
\* deleteDangles deletes exactly the lines that lie in no core, for every set
\* of lines and every order of the pops.
THEOREM DanglesCorrect == Spec => []DanglesAreTheNonCore
  <1>1. DangleInv => DanglesAreTheNonCore
    BY DEF DangleInv
  <1> QED
    BY <1>1, InitDangleInv, NextDangleInv, PTL DEF Spec

\* A run reports no dangling line twice.
THEOREM DanglesReported == Spec => []DangleReportedOnce
  <1>1. DangleInv => DangleReportedOnce
    BY DEF DangleInv
  <1> QED
    BY <1>1, InitDangleInv, NextDangleInv, PTL DEF Spec

\* The deletion flags of the two directions of a line agree at every moment.
THEOREM FlagsCorrect == Spec => []FlagsOK
  <1>1. DangleInv => FlagsOK
    BY DEF DangleInv
  <1> QED
    BY <1>1, InitDangleInv, NextDangleInv, PTL DEF Spec

-----------------------------------------------------------------------------
(* Points of a line.                                                        *)

\* A list of points in which no point equals the one before.
NoRepeats(s) == \A k \in 1..(Len(s) - 1) : s[k] # s[k + 1]

LEMMA RepeatsGo ==
    ASSUME NEW P, NEW s \in Seq(P)
    PROVE  removeRepeatedPoints(s) \in Seq(P) /\ NoRepeats(removeRepeatedPoints(s))
  <1> DEFINE n    == Len(s)
             seqs == [i \in DOMAIN s |-> IF i > 1 /\ s[i] = s[i - 1] THEN <<>> ELSE <<s[i]>>]
  <1>1. n \in Nat /\ DOMAIN s = 1..n /\ \A i \in 1..n : s[i] \in P
    OBVIOUS
  <1>2. removeRepeatedPoints(s) = FlattenSeq(seqs)
    BY DEF removeRepeatedPoints
  <1>3. ASSUME NEW i \in 1..n
        PROVE  /\ i = 1 => seqs[i] = <<s[i]>>
               /\ i > 1 /\ s[i] = s[i - 1] => seqs[i] = <<>>
               /\ i > 1 /\ s[i] # s[i - 1] => seqs[i] = <<s[i]>>
    <2>1. seqs[i] = IF i > 1 /\ s[i] = s[i - 1] THEN <<>> ELSE <<s[i]>>
      BY <1>1
    <2> HIDE DEF seqs
    <2> QED
      BY <2>1
  <1>4. seqs \in [1..n -> Seq(P)]
    <2>1. \A i \in 1..n : (IF i > 1 /\ s[i] = s[i - 1] THEN <<>> ELSE <<s[i]>>) \in Seq(P)
      BY <1>1
    <2> QED
      BY <1>1, <2>1
  <1> HIDE DEF seqs
  <1>5. seqs \in Seq(Seq(P)) /\ Len(seqs) = n
    BY <1>1, <1>4
  <1>6. CASE n = 0
    <2>1. FlattenSeq(seqs) = seqs /\ seqs = <<>>
      BY <1>5, <1>6 DEF FlattenSeq
    <2> QED
      BY <1>2, <2>1 DEF NoRepeats
  <1>7. CASE n # 0
    <2> DEFINE f == CHOOSE g : Flattens(g, seqs)
    <2>1. Flattens(f, seqs)
      BY <1>1, <1>5, <1>7, FlatteningExists
    <2>2. FlattenSeq(seqs) = f[n]
      BY <1>5, <1>7 DEF FlattenSeq, Flattens
    <2> HIDE DEF f
    <2>3. \A i \in 1..n : f[i] = IF i = 1 THEN seqs[i] ELSE f[i - 1] \o seqs[i]
      BY <1>5, <2>1 DEF Flattens
    <2> HIDE DEF n
    <2> DEFINE Good(r, p) == r \in Seq(P) /\ Len(r) > 0 /\ r[Len(r)] = p /\ NoRepeats(r)
               T == {i \in Nat : i + 1 <= n => Good(f[i + 1], s[i + 1])}
    <2>4. 0 \in T
      <3>1. 1 \in 1..n /\ s[1] \in P
        BY <1>1, <1>7
      <3>2. f[1] = <<s[1]>>
        BY <1>3, <2>3, <3>1
      <3> DEFINE r == <<s[1]>>
      <3>3. r \in Seq(P) /\ Len(r) = 1 /\ r[1] = s[1]
        BY <3>1
      <3> HIDE DEF r
      <3>4. NoRepeats(r)
        BY <3>3 DEF NoRepeats
      <3>5. Good(r, s[1])
        BY <3>3, <3>4
      <3>6. f[0 + 1] = r /\ 0 + 1 = 1
        BY <3>2 DEF r
      <3> HIDE DEF Good
      <3> QED
        BY <3>5, <3>6
    <2>5. ASSUME NEW i \in Nat, i \in T PROVE i + 1 \in T
      <3> DEFINE k == i + 1
      <3> SUFFICES ASSUME k + 1 <= n PROVE Good(f[k + 1], s[k + 1])
        OBVIOUS
      <3>1. k \in Nat \ {0} /\ k \in 1..n /\ k + 1 \in 1..n /\ k + 1 # 1 /\ (k + 1) - 1 = k /\ k <= n
        BY <1>1
      <3>2. Good(f[k], s[k])
        <4> HIDE DEF Good
        <4> QED
          BY <2>5, <3>1
      <3> HIDE DEF k
      <3>3. f[k + 1] = f[k] \o seqs[k + 1]
        BY <2>3, <3>1
      <3>4. CASE s[k + 1] = s[k]
        <4>1. seqs[k + 1] = <<>>
          <5>1. k + 1 > 1 /\ s[(k + 1) - 1] = s[k]
            BY <3>1
          <5> QED
            BY <1>3, <3>1, <3>4, <5>1
        <4>2. f[k + 1] = f[k]
          BY <3>2, <3>3, <4>1
        <4> QED
          BY <3>2, <3>4, <4>2
      <3>5. CASE s[k + 1] # s[k]
        <4> DEFINE r == f[k]
                   p == s[k + 1]
                   q == r \o <<p>>
        <4>1. seqs[k + 1] = <<p>> /\ p \in P
          BY <1>1, <1>3, <3>1, <3>5
        <4>2. r \in Seq(P) /\ Len(r) > 0 /\ r[Len(r)] # p /\ NoRepeats(r)
          BY <3>2, <3>5
        <4>3. f[k + 1] = q
          BY <3>3, <4>1
        <4> HIDE DEF r, p
        <4>4. q \in Seq(P) /\ Len(q) = Len(r) + 1 /\ q[Len(r) + 1] = p
              /\ \A j \in 1..Len(r) : q[j] = r[j]
          BY <4>1, <4>2
        <4> HIDE DEF q
        <4>5. NoRepeats(q)
          <5> SUFFICES ASSUME NEW j \in 1..(Len(q) - 1) PROVE q[j] # q[j + 1]
            BY DEF NoRepeats
          <5>1. Len(r) \in Nat
            BY <4>2
          <5>2. CASE j = Len(r)
            BY <4>2, <4>4, <5>1, <5>2
          <5>3. CASE j # Len(r)
            <6>1. j \in 1..(Len(r) - 1) /\ j \in 1..Len(r) /\ j + 1 \in 1..Len(r)
              BY <4>4, <5>1, <5>3
            <6> QED
              BY <4>2, <4>4, <6>1 DEF NoRepeats
          <5> QED
            BY <5>2, <5>3
        <4>6. Len(q) > 0 /\ q[Len(q)] = p
          BY <4>2, <4>4
        <4> QED
          BY <4>3, <4>4, <4>5, <4>6 DEF p
      <3> QED
        BY <3>4, <3>5
    <2>6. \A i \in Nat : i \in T
      <3> HIDE DEF T
      <3> QED
        BY <2>4, <2>5, InductionOnSets
    <2>7. n - 1 \in Nat /\ (n - 1) + 1 = n
      BY <1>1, <1>7
    <2>8. Good(f[n], s[n])
      BY <2>6, <2>7
    <2> QED
      BY <1>2, <2>2, <2>8
  <1> QED
    BY <1>6, <1>7

-----------------------------------------------------------------------------
(* The order of a star.                                                    *)

\* A directed edge of a usable line goes off from its node to another point.
dirX(d) == getDirectionPt(d)[1] - getFromNode(d)[1]
dirY(d) == getDirectionPt(d)[2] - getFromNode(d)[2]

Usable(L) == L \in SUBSET Line /\ \A l \in L : IsUsable(l)

LEMMA EdgesGoSomewhere ==
    ASSUME NEW L, Usable(L), NEW d \in Dirs(L)
    PROVE  /\ getFromNode(d) \in Int \X Int /\ getDirectionPt(d) \in Int \X Int
           /\ getFromNode(d) # getDirectionPt(d)
  <1> DEFINE s == LinePts[d[1]]
             n == Len(s)
  <1>1. PICK l \in L, b \in BOOLEAN : d = <<l, b>>
    BY DEF Dirs
  <1>2. d[1] = l /\ d[2] = b /\ l \in Line
    BY <1>1 DEF Usable
  <1>3. s = removeRepeatedPoints(Pts[l]) /\ Pts[l] \in Seq(Int \X Int)
    BY <1>2, PtsAssumption DEF LinePts
  <1>4. s \in Seq(Int \X Int) /\ NoRepeats(s)
    BY <1>3, RepeatsGo
  <1>5. n >= 2 /\ n \in Nat
    BY <1>1, <1>2, <1>4 DEF Usable, IsUsable
  <1> HIDE DEF s
  <1>6. /\ 1 \in 1..(n - 1) /\ n - 1 \in 1..(n - 1) /\ n \in 1..n /\ n - 1 \in 1..n /\ (n - 1) + 1 = n
        /\ 1 + 1 = 2 /\ 2 \in 1..n /\ 1 \in 1..n
    BY <1>5
  <1>7. s[1] # s[2] /\ s[n - 1] # s[n]
    BY <1>6, <1>4 DEF NoRepeats
  <1>8. s[1] \in Int \X Int /\ s[2] \in Int \X Int /\ s[n - 1] \in Int \X Int /\ s[n] \in Int \X Int
    BY <1>4, <1>6
  <1>9. Head(s) = s[1] /\ Last(s) = s[n]
    BY <1>4, <1>5 DEF Last
  <1>10. getFromNode(d) = IF b THEN s[1] ELSE s[n]
    BY <1>2, <1>9 DEF getFromNode, s
  <1>11. getDirectionPt(d) = IF b THEN s[2] ELSE s[n - 1]
    BY <1>2 DEF getDirectionPt, s
  <1> QED
    BY <1>7, <1>8, <1>10, <1>11

LEMMA DirectionsAreNot0 ==
    ASSUME NEW L, Usable(L), NEW d \in Dirs(L)
    PROVE  dirX(d) \in Int /\ dirY(d) \in Int /\ (dirX(d) # 0 \/ dirY(d) # 0)
  <1> DEFINE p == getFromNode(d)
             q == getDirectionPt(d)
  <1>1. p \in Int \X Int /\ q \in Int \X Int /\ p # q
    BY EdgesGoSomewhere
  <1> HIDE DEF p, q
  <1>2. /\ p = <<p[1], p[2]>> /\ p[1] \in Int /\ p[2] \in Int
        /\ q = <<q[1], q[2]>> /\ q[1] \in Int /\ q[2] \in Int
    BY <1>1
  <1>3. p[1] # q[1] \/ p[2] # q[2]
    BY <1>1, <1>2
  <1>4. dirX(d) = q[1] - p[1] /\ dirY(d) = q[2] - p[2]
    BY DEF dirX, dirY, p, q
  <1> QED
    BY <1>2, <1>3, <1>4

\* The turn from direction (ax, ay) to (bx, by), positive to the left.
Turn(ax, ay, bx, by) == ax * by - bx * ay

LEMMA CompareTurns ==
    ASSUME NEW L, Usable(L), NEW n, NEW d \in outEdges(n, Dirs(L)), NEW e \in outEdges(n, Dirs(L))
    PROVE  LET p == quadrant(dirX(d), dirY(d))
               q == quadrant(dirX(e), dirY(e))
               t == Turn(dirX(d), dirY(d), dirX(e), dirY(e))
           IN  /\ compareDirection(d, e) < 0 <=> (p < q \/ (p = q /\ t > 0))
               /\ compareDirection(d, e) = 0 <=> (p = q /\ t = 0)
  <1>1. d \in Dirs(L) /\ e \in Dirs(L) /\ getFromNode(d) = n /\ getFromNode(e) = n
    BY DEF outEdges
  <1> DEFINE a == getDirectionPt(d)
             b == getDirectionPt(e)
  <1>2. n \in Int \X Int /\ a \in Int \X Int /\ b \in Int \X Int
    BY <1>1, EdgesGoSomewhere
  <1>3. n[1] \in Int /\ n[2] \in Int /\ a[1] \in Int /\ a[2] \in Int /\ b[1] \in Int /\ b[2] \in Int
    BY <1>2
  <1> DEFINE ax == dirX(d)
             ay == dirY(d)
             bx == dirX(e)
             by == dirY(e)
             p  == quadrant(ax, ay)
             q  == quadrant(bx, by)
  <1>4. ax = a[1] - n[1] /\ ay = a[2] - n[2] /\ bx = b[1] - n[1] /\ by = b[2] - n[2]
    BY <1>1 DEF dirX, dirY
  <1>5. getQuadrant(d) = p /\ getQuadrant(e) = q
    BY <1>1 DEF getQuadrant, dirX, dirY
  <1>6. p \in 0..3 /\ q \in 0..3
    BY DEF quadrant
  <1>7. orientationIndex(getFromNode(e), b, a)
           = Sign((b[1] - n[1]) * (a[2] - b[2]) - (a[1] - b[1]) * (b[2] - n[2]))
    BY <1>1 DEF orientationIndex
  <1>8. compareDirection(d, e) = IF p # q THEN Sign(p - q) ELSE orientationIndex(getFromNode(e), b, a)
    BY <1>5 DEF compareDirection
  <1> HIDE DEF a, b, p, q
  <1>9. ax \in Int /\ ay \in Int /\ bx \in Int /\ by \in Int
    BY <1>3, <1>4
  <1>10. (b[1] - n[1]) * (a[2] - b[2]) - (a[1] - b[1]) * (b[2] - n[2]) = bx * (ay - by) - (ax - bx) * by
    <2>1. a[2] - b[2] = ay - by /\ a[1] - b[1] = ax - bx
      BY <1>3, <1>4
    <2> QED
      BY <1>4, <2>1
  <1> HIDE DEF ax, ay, bx, by
  <1>11. bx * (ay - by) - (ax - bx) * by = bx * ay - ax * by
    BY <1>9
  <1>12. Turn(ax, ay, bx, by) = ax * by - bx * ay
    BY DEF Turn
  <1>13. ax * by \in Int /\ bx * ay \in Int
    BY <1>9
  <1>14. compareDirection(d, e) = IF p # q THEN Sign(p - q) ELSE Sign(bx * ay - ax * by)
    BY <1>7, <1>8, <1>10, <1>11
  <1>15. p - q \in Int
    BY <1>6
  <1>16. /\ compareDirection(d, e) < 0 <=> (p < q \/ (p = q /\ Turn(ax, ay, bx, by) > 0))
         /\ compareDirection(d, e) = 0 <=> (p = q /\ Turn(ax, ay, bx, by) = 0)
    <2> DEFINE u == ax * by
               v == bx * ay
    <2> HIDE DEF u, v
    <2>1. compareDirection(d, e) = IF p # q THEN Sign(p - q) ELSE Sign(v - u)
      BY <1>14 DEF u, v
    <2>2. Turn(ax, ay, bx, by) = u - v /\ u \in Int /\ v \in Int
      BY <1>12, <1>13 DEF u, v
    <2> QED
      BY <1>6, <2>1, <2>2 DEF Sign
  <1> QED
    BY <1>16 DEF p, q, ax, ay, bx, by

LEMMA ProductsOfNaturals ==
    ASSUME NEW x \in Nat, NEW y \in Nat
    PROVE  x * y \in Nat /\ (x * y = 0 => x = 0 \/ y = 0)
  OBVIOUS

LEMMA TurnsCompose ==
    ASSUME NEW ax \in Nat, NEW ay \in Nat, ax # 0 \/ ay # 0,
           NEW bx \in Nat, NEW by \in Nat, bx # 0 \/ by # 0,
           NEW cx \in Nat, NEW cy \in Nat, cx # 0 \/ cy # 0,
           Turn(ax, ay, bx, by) >= 0, Turn(bx, by, cx, cy) >= 0
    PROVE  /\ Turn(ax, ay, cx, cy) >= 0
           /\ Turn(ax, ay, cx, cy) = 0 => Turn(ax, ay, bx, by) = 0 /\ Turn(bx, by, cx, cy) = 0
  <1> DEFINE ab == Turn(ax, ay, bx, by)
             bc == Turn(bx, by, cx, cy)
             ac == Turn(ax, ay, cx, cy)
  <1>1. ab = ax * by - bx * ay /\ bc = bx * cy - cx * by /\ ac = ax * cy - cx * ay
    BY DEF Turn
  <1>2. ab \in Nat /\ bc \in Nat /\ ac \in Int
    BY <1>1
  <1>3. bx * ac = ax * bc + cx * ab
    BY <1>1, Z3
  <1>4. by * ac = ay * bc + cy * ab
    BY <1>1, Z3
  <1> HIDE DEF ab, bc, ac
  <1>5. ax * bc \in Nat /\ cx * ab \in Nat /\ ay * bc \in Nat /\ cy * ab \in Nat
    BY <1>2, ProductsOfNaturals
  <1>6. bx * ac >= 0 /\ by * ac >= 0
    <2> DEFINE p == ax * bc
               q == cx * ab
               r == ay * bc
               s == cy * ab
    <2>1. p \in Nat /\ q \in Nat /\ r \in Nat /\ s \in Nat
      BY <1>5
    <2>2. bx * ac = p + q /\ by * ac = r + s
      BY <1>3, <1>4
    <2> HIDE DEF p, q, r, s
    <2> QED
      BY <2>1, <2>2
  <1>7. ac >= 0
    <2> SUFFICES ASSUME ac < 0 PROVE FALSE
      BY <1>2
    <2> DEFINE m == -ac
    <2>1. m \in Nat /\ m # 0
      BY <1>2
    <2>2. bx * ac = -(bx * m) /\ by * ac = -(by * m)
      BY <1>2, Z3
    <2> HIDE DEF m
    <2>3. bx * m \in Nat /\ by * m \in Nat
      BY <2>1, ProductsOfNaturals
    <2>4. bx * m = 0 /\ by * m = 0
      BY <1>6, <2>2, <2>3
    <2> QED
      BY <2>1, <2>4, ProductsOfNaturals
  <1>8. ASSUME ac = 0 PROVE ab = 0 /\ bc = 0
    <2>1. bx * ac = 0 /\ by * ac = 0
      BY <1>8
    <2>2. ax * bc = 0 /\ cx * ab = 0 /\ ay * bc = 0 /\ cy * ab = 0
      <3> DEFINE p == ax * bc
                 q == cx * ab
                 r == ay * bc
                 s == cy * ab
      <3>1. p \in Nat /\ q \in Nat /\ r \in Nat /\ s \in Nat
        BY <1>5
      <3>2. 0 = p + q /\ 0 = r + s
        BY <1>3, <1>4, <2>1
      <3> HIDE DEF p, q, r, s
      <3>3. p = 0 /\ q = 0 /\ r = 0 /\ s = 0
        BY <3>1, <3>2
      <3> QED
        BY <3>3 DEF p, q, r, s
    <2> QED
      BY <1>2, <2>2, ProductsOfNaturals
  <1> QED
    BY <1>7, <1>8 DEF ab, bc, ac

\* Turning all directions by a right angle changes no turn.
LEMMA RightAngles ==
    ASSUME NEW ax \in Int, NEW ay \in Int, NEW bx \in Int, NEW by \in Int
    PROVE  /\ Turn(ay, -ax, by, -bx) = Turn(ax, ay, bx, by)
           /\ Turn(-ax, -ay, -bx, -by) = Turn(ax, ay, bx, by)
           /\ Turn(-ay, ax, -by, bx) = Turn(ax, ay, bx, by)
           /\ Turn(bx, by, ax, ay) = -Turn(ax, ay, bx, by)
           /\ Turn(ax, ay, bx, by) \in Int
  <1>1. ay * (-bx) - by * (-ax) = ax * by - bx * ay
    BY Z3
  <1>2. (-ax) * (-by) - (-bx) * (-ay) = ax * by - bx * ay
    BY Z3
  <1>3. (-ay) * bx - (-by) * ax = ax * by - bx * ay
    BY Z3
  <1>4. bx * ay - ax * by = -(ax * by - bx * ay)
    BY Z3
  <1> QED
    BY <1>1, <1>2, <1>3, <1>4 DEF Turn

\* Among directions of one quadrant, left-of is transitive.
LEMMA TurnsComposeInAQuadrant ==
    ASSUME NEW ax \in Int, NEW ay \in Int, ax # 0 \/ ay # 0,
           NEW bx \in Int, NEW by \in Int, bx # 0 \/ by # 0,
           NEW cx \in Int, NEW cy \in Int, cx # 0 \/ cy # 0,
           quadrant(ax, ay) = quadrant(bx, by), quadrant(bx, by) = quadrant(cx, cy),
           Turn(ax, ay, bx, by) >= 0, Turn(bx, by, cx, cy) >= 0
    PROVE  /\ Turn(ax, ay, cx, cy) >= 0
           /\ Turn(ax, ay, cx, cy) = 0 => Turn(ax, ay, bx, by) = 0 /\ Turn(bx, by, cx, cy) = 0
  <1>1. CASE ax >= 0 /\ ay >= 0
    <2>1. bx >= 0 /\ by >= 0 /\ cx >= 0 /\ cy >= 0
      BY <1>1 DEF quadrant
    <2>2. ax \in Nat /\ ay \in Nat /\ bx \in Nat /\ by \in Nat /\ cx \in Nat /\ cy \in Nat
      BY <1>1, <2>1
    <2> QED
      BY <2>2, TurnsCompose
  <1>2. CASE ax < 0 /\ ay >= 0
    <2>1. bx < 0 /\ by >= 0 /\ cx < 0 /\ cy >= 0
      BY <1>2 DEF quadrant
    <2>2. ay \in Nat /\ -ax \in Nat /\ by \in Nat /\ -bx \in Nat /\ cy \in Nat /\ -cx \in Nat
          /\ -ax # 0 /\ -bx # 0 /\ -cx # 0
      BY <1>2, <2>1
    <2>3. /\ Turn(ay, -ax, by, -bx) = Turn(ax, ay, bx, by)
          /\ Turn(by, -bx, cy, -cx) = Turn(bx, by, cx, cy)
          /\ Turn(ay, -ax, cy, -cx) = Turn(ax, ay, cx, cy)
      BY RightAngles
    <2>4. Turn(ay, -ax, by, -bx) >= 0 /\ Turn(by, -bx, cy, -cx) >= 0
      BY <2>3
    <2>5. /\ Turn(ay, -ax, cy, -cx) >= 0
          /\ Turn(ay, -ax, cy, -cx) = 0 => Turn(ay, -ax, by, -bx) = 0 /\ Turn(by, -bx, cy, -cx) = 0
      BY <2>2, <2>4, TurnsCompose
    <2> QED
      BY <2>3, <2>5
  <1>3. CASE ax < 0 /\ ay < 0
    <2>1. bx < 0 /\ by < 0 /\ cx < 0 /\ cy < 0
      BY <1>3 DEF quadrant
    <2>2. -ay \in Nat /\ -ax \in Nat /\ -by \in Nat /\ -bx \in Nat /\ -cy \in Nat /\ -cx \in Nat
          /\ -ax # 0 /\ -bx # 0 /\ -cx # 0
      BY <1>3, <2>1
    <2>3. /\ Turn(-ax, -ay, -bx, -by) = Turn(ax, ay, bx, by)
          /\ Turn(-bx, -by, -cx, -cy) = Turn(bx, by, cx, cy)
          /\ Turn(-ax, -ay, -cx, -cy) = Turn(ax, ay, cx, cy)
      BY RightAngles
    <2>4. Turn(-ax, -ay, -bx, -by) >= 0 /\ Turn(-bx, -by, -cx, -cy) >= 0
      BY <2>3
    <2>5. /\ Turn(-ax, -ay, -cx, -cy) >= 0
          /\ Turn(-ax, -ay, -cx, -cy) = 0
                => Turn(-ax, -ay, -bx, -by) = 0 /\ Turn(-bx, -by, -cx, -cy) = 0
      BY <2>2, <2>4, TurnsCompose
    <2> QED
      BY <2>3, <2>5
  <1>4. CASE ax >= 0 /\ ay < 0
    <2>1. bx >= 0 /\ by < 0 /\ cx >= 0 /\ cy < 0
      BY <1>4 DEF quadrant
    <2>2. -ay \in Nat /\ ax \in Nat /\ -by \in Nat /\ bx \in Nat /\ -cy \in Nat /\ cx \in Nat
          /\ -ay # 0 /\ -by # 0 /\ -cy # 0
      BY <1>4, <2>1
    <2>3. /\ Turn(-ay, ax, -by, bx) = Turn(ax, ay, bx, by)
          /\ Turn(-by, bx, -cy, cx) = Turn(bx, by, cx, cy)
          /\ Turn(-ay, ax, -cy, cx) = Turn(ax, ay, cx, cy)
      BY RightAngles
    <2>4. Turn(-ay, ax, -by, bx) >= 0 /\ Turn(-by, bx, -cy, cx) >= 0
      BY <2>3
    <2>5. /\ Turn(-ay, ax, -cy, cx) >= 0
          /\ Turn(-ay, ax, -cy, cx) = 0 => Turn(-ay, ax, -by, bx) = 0 /\ Turn(-by, bx, -cy, cx) = 0
      BY <2>2, <2>4, TurnsCompose
    <2> QED
      BY <2>3, <2>5
  <1> QED
    BY <1>1, <1>2, <1>3, <1>4

\* pdeLessThan is a strict total order on S.
InOrder(S) ==
    /\ \A d \in S : ~pdeLessThan(d, d)
    /\ \A d, e \in S : d = e \/ pdeLessThan(d, e) \/ pdeLessThan(e, d)
    /\ \A d, e, f \in S : pdeLessThan(d, e) /\ pdeLessThan(e, f) => pdeLessThan(d, f)

LEMMA StarsAreInOrder ==
    ASSUME NEW L, Usable(L), NEW n
    PROVE  InOrder(outEdges(n, Dirs(L)))
  <1> DEFINE S == outEdges(n, Dirs(L))
             q(d) == quadrant(dirX(d), dirY(d))
             t(d, e) == Turn(dirX(d), dirY(d), dirX(e), dirY(e))
             tie(d, e) == d[1] < e[1] \/ (d[1] = e[1] /\ d[2] /\ ~e[2])
  <1>1. ASSUME NEW d \in S
        PROVE  /\ dirX(d) \in Int /\ dirY(d) \in Int /\ (dirX(d) # 0 \/ dirY(d) # 0)
               /\ q(d) \in Int
               /\ d[1] \in Nat /\ d[2] \in BOOLEAN /\ d = <<d[1], d[2]>>
    <2>1. d \in Dirs(L) /\ L \in SUBSET Line
      BY DEF outEdges, Usable
    <2>2. dirX(d) \in Int /\ dirY(d) \in Int /\ (dirX(d) # 0 \/ dirY(d) # 0)
      BY <2>1, DirectionsAreNot0
    <2>3. q(d) \in Int
      BY DEF quadrant
    <2>4. PICK l \in L, b \in BOOLEAN : d = <<l, b>>
      BY <2>1 DEF Dirs
    <2>5. l \in Nat
      BY <2>1, LineAssumption
    <2> QED
      BY <2>2, <2>3, <2>4, <2>5
  <1>2. ASSUME NEW d \in S, NEW e \in S
        PROVE  /\ pdeLessThan(d, e) <=> \/ q(d) < q(e)
                                        \/ q(d) = q(e) /\ t(d, e) > 0
                                        \/ q(d) = q(e) /\ t(d, e) = 0 /\ tie(d, e)
               /\ t(d, e) \in Int /\ t(e, d) = -t(d, e)
    <2>1. t(d, e) \in Int /\ t(e, d) = -t(d, e)
      BY <1>1, RightAngles
    <2>2. /\ compareDirection(d, e) < 0 <=> (q(d) < q(e) \/ (q(d) = q(e) /\ t(d, e) > 0))
          /\ compareDirection(d, e) = 0 <=> (q(d) = q(e) /\ t(d, e) = 0)
      BY CompareTurns
    <2> HIDE DEF q, t
    <2> QED
      BY <2>1, <2>2 DEF pdeLessThan
  <1>3. ASSUME NEW d \in S, NEW e \in S, NEW f \in S, q(d) = q(e), q(e) = q(f),
               t(d, e) >= 0, t(e, f) >= 0
        PROVE  t(d, f) >= 0 /\ (t(d, f) = 0 => t(d, e) = 0 /\ t(e, f) = 0)
    <2>1. /\ dirX(d) \in Int /\ dirY(d) \in Int /\ (dirX(d) # 0 \/ dirY(d) # 0)
          /\ dirX(e) \in Int /\ dirY(e) \in Int /\ (dirX(e) # 0 \/ dirY(e) # 0)
          /\ dirX(f) \in Int /\ dirY(f) \in Int /\ (dirX(f) # 0 \/ dirY(f) # 0)
      BY <1>1
    <2>2. /\ quadrant(dirX(d), dirY(d)) = quadrant(dirX(e), dirY(e))
          /\ quadrant(dirX(e), dirY(e)) = quadrant(dirX(f), dirY(f))
          /\ Turn(dirX(d), dirY(d), dirX(e), dirY(e)) >= 0
          /\ Turn(dirX(e), dirY(e), dirX(f), dirY(f)) >= 0
      BY <1>3
    <2> HIDE DEF S
    <2> QED
      BY <2>1, <2>2, TurnsComposeInAQuadrant
  <1>4. ASSUME NEW d \in S, NEW e \in S
        PROVE  /\ ~tie(d, d)
               /\ d # e => tie(d, e) \/ tie(e, d)
    BY <1>1
  <1>5. ASSUME NEW d \in S, NEW e \in S, NEW f \in S, tie(d, e), tie(e, f)
        PROVE  tie(d, f)
    BY <1>1, <1>5
  <1> HIDE DEF S, q, t, tie
  <1>6. \A d \in S : ~pdeLessThan(d, d)
    <2> TAKE d \in S
    <2>1. q(d) \in Int /\ t(d, d) \in Int /\ t(d, d) = -t(d, d)
      BY <1>1, <1>2
    <2>2. ~(q(d) < q(d)) /\ t(d, d) = 0
      BY <2>1
    <2> QED
      BY <1>2, <1>4, <2>2
  <1>7. \A d, e \in S : d = e \/ pdeLessThan(d, e) \/ pdeLessThan(e, d)
    BY <1>1, <1>2, <1>4
  <1>8. \A d, e, f \in S : pdeLessThan(d, e) /\ pdeLessThan(e, f) => pdeLessThan(d, f)
    <2> SUFFICES ASSUME NEW d \in S, NEW e \in S, NEW f \in S, pdeLessThan(d, e), pdeLessThan(e, f)
                 PROVE  pdeLessThan(d, f)
      OBVIOUS
    <2>1. q(d) \in Int /\ q(e) \in Int /\ q(f) \in Int
          /\ t(d, e) \in Int /\ t(e, f) \in Int /\ t(d, f) \in Int
      BY <1>1, <1>2
    <2>2. /\ q(d) < q(e) \/ (q(d) = q(e) /\ (t(d, e) > 0 \/ (t(d, e) = 0 /\ tie(d, e))))
          /\ q(e) < q(f) \/ (q(e) = q(f) /\ (t(e, f) > 0 \/ (t(e, f) = 0 /\ tie(e, f))))
      BY <1>2
    <2>3. CASE q(d) < q(f)
      BY <1>2, <2>3
    <2>4. CASE ~(q(d) < q(f))
      <3>1. q(d) = q(e) /\ q(e) = q(f)
        BY <2>1, <2>2, <2>4
      <3>2. t(d, e) >= 0 /\ t(e, f) >= 0
        BY <2>1, <2>2, <3>1
      <3>3. t(d, f) >= 0 /\ (t(d, f) = 0 => t(d, e) = 0 /\ t(e, f) = 0)
        BY <1>3, <3>1, <3>2
      <3>4. t(d, f) = 0 => tie(d, f)
        BY <1>5, <2>1, <2>2, <3>1, <3>3
      <3>5. t(d, f) > 0 \/ t(d, f) = 0
        BY <2>1, <3>3
      <3> QED
        BY <1>2, <3>1, <3>4, <3>5
    <2> QED
      BY <2>3, <2>4
  <1> QED
    BY <1>6, <1>7, <1>8 DEF InOrder, S

LEMMA PartsAreInOrder ==
    ASSUME NEW S, InOrder(S), NEW T \in SUBSET S
    PROVE  InOrder(T)
  BY DEF InOrder

\* A star has a first and a last edge.
LEMMA FrontHolds ==
    ASSUME NEW S, IsFiniteSet(S), S # {}, InOrder(S)
    PROVE  front(S) \in S /\ \A e \in S \ {front(S)} : pdeLessThan(front(S), e)
  <1> DEFINE earlier(d) == {e \in S : pdeLessThan(e, d)}
             T == {Cardinality(earlier(d)) : d \in S}
  <1>1. ASSUME NEW d \in S PROVE IsFiniteSet(earlier(d)) /\ Cardinality(earlier(d)) \in Nat
    BY FS_Subset, FS_CardinalityType
  <1>2. T \in SUBSET Nat /\ T # {}
    BY <1>1
  <1>3. PICK c \in T : \A b \in T : c <= b
    BY <1>2, LeastOfNaturals
  <1>4. PICK d \in S : c = Cardinality(earlier(d))
    OBVIOUS
  <1>5. earlier(d) = {}
    <2> SUFFICES ASSUME NEW e \in earlier(d) PROVE FALSE
      OBVIOUS
    <2>1. e \in S /\ pdeLessThan(e, d)
      OBVIOUS
    <2>2. earlier(e) \subseteq earlier(d)
      BY <2>1 DEF InOrder
    <2>3. e \notin earlier(e)
      BY DEF InOrder
    <2>4. Cardinality(earlier(e)) < Cardinality(earlier(d))
      <3> DEFINE A == earlier(e)
                 B == earlier(d)
      <3>1. /\ A \in SUBSET B /\ A # B /\ IsFiniteSet(B)
            /\ Cardinality(A) \in Nat /\ Cardinality(B) \in Nat
        BY <1>1, <2>1, <2>2, <2>3
      <3> HIDE DEF A, B
      <3>2. Cardinality(A) <= Cardinality(B) /\ Cardinality(A) # Cardinality(B)
        BY <3>1, FS_Subset
      <3>3. Cardinality(A) < Cardinality(B)
        BY <3>1, <3>2
      <3> QED
        BY <3>3 DEF A, B
    <2>5. c <= Cardinality(earlier(e))
      BY <1>3, <2>1
    <2> QED
      BY <1>1, <1>4, <2>1, <2>4, <2>5
  <1>6. \A e \in S \ {d} : pdeLessThan(d, e)
    BY <1>5 DEF InOrder
  <1> QED
    BY <1>6 DEF front

LEMMA BackHolds ==
    ASSUME NEW S, IsFiniteSet(S), S # {}, InOrder(S)
    PROVE  back(S) \in S /\ \A e \in S \ {back(S)} : pdeLessThan(e, back(S))
  <1> DEFINE later(d) == {e \in S : pdeLessThan(d, e)}
             T == {Cardinality(later(d)) : d \in S}
  <1>1. ASSUME NEW d \in S PROVE IsFiniteSet(later(d)) /\ Cardinality(later(d)) \in Nat
    BY FS_Subset, FS_CardinalityType
  <1>2. T \in SUBSET Nat /\ T # {}
    BY <1>1
  <1>3. PICK c \in T : \A b \in T : c <= b
    BY <1>2, LeastOfNaturals
  <1>4. PICK d \in S : c = Cardinality(later(d))
    OBVIOUS
  <1>5. later(d) = {}
    <2> SUFFICES ASSUME NEW e \in later(d) PROVE FALSE
      OBVIOUS
    <2>1. e \in S /\ pdeLessThan(d, e)
      OBVIOUS
    <2>2. later(e) \subseteq later(d)
      BY <2>1 DEF InOrder
    <2>3. e \notin later(e)
      BY DEF InOrder
    <2>4. Cardinality(later(e)) < Cardinality(later(d))
      <3> DEFINE A == later(e)
                 B == later(d)
      <3>1. /\ A \in SUBSET B /\ A # B /\ IsFiniteSet(B)
            /\ Cardinality(A) \in Nat /\ Cardinality(B) \in Nat
        BY <1>1, <2>1, <2>2, <2>3
      <3> HIDE DEF A, B
      <3>2. Cardinality(A) <= Cardinality(B) /\ Cardinality(A) # Cardinality(B)
        BY <3>1, FS_Subset
      <3>3. Cardinality(A) < Cardinality(B)
        BY <3>1, <3>2
      <3> QED
        BY <3>3 DEF A, B
    <2>5. c <= Cardinality(later(e))
      BY <1>3, <2>1
    <2> QED
      BY <1>1, <1>4, <2>1, <2>4, <2>5
  <1>6. \A e \in S \ {d} : pdeLessThan(e, d)
    BY <1>5 DEF InOrder
  <1> QED
    BY <1>6 DEF back

\* The edge after d: nothing lies between, and each edge comes after one edge only.
LEMMA SuccessorHolds ==
    ASSUME NEW S, IsFiniteSet(S), InOrder(S), NEW d \in S
    PROVE  /\ ccwSuccessor(S, d) \in S
           /\ \A e \in S : pdeLessThan(d, e) =>
                 /\ pdeLessThan(d, ccwSuccessor(S, d))
                 /\ ccwSuccessor(S, d) = e \/ pdeLessThan(ccwSuccessor(S, d), e)
           /\ (\A e \in S : ~pdeLessThan(d, e)) =>
                 \A e \in S : ccwSuccessor(S, d) = e \/ pdeLessThan(ccwSuccessor(S, d), e)
  <1> DEFINE later == {e \in S : pdeLessThan(d, e)}
             s == ccwSuccessor(S, d)
  <1>1. s = front(IF later = {} THEN S ELSE later)
    BY DEF ccwSuccessor
  <1>2. IsFiniteSet(later) /\ InOrder(later) /\ later \subseteq S
    BY FS_Subset, PartsAreInOrder
  <1> HIDE DEF s
  <1>3. CASE later = {}
    <2>1. s = front(S)
      BY <1>1, <1>3
    <2>2. s \in S /\ \A e \in S \ {s} : pdeLessThan(s, e)
      BY <2>1, FrontHolds
    <2> QED
      BY <1>3, <2>2 DEF s
  <1>4. CASE later # {}
    <2>1. s = front(later)
      BY <1>1, <1>4
    <2> HIDE DEF later
    <2>2. s \in later /\ \A e \in later \ {s} : pdeLessThan(s, e)
      BY <1>2, <1>4, <2>1, FrontHolds
    <2> USE DEF later
    <2> QED
      BY <1>4, <2>2 DEF s
  <1> QED
    BY <1>3, <1>4

LEMMA SuccessorsDiffer ==
    ASSUME NEW S, IsFiniteSet(S), InOrder(S), NEW d \in S, NEW e \in S,
           ccwSuccessor(S, d) = ccwSuccessor(S, e)
    PROVE  d = e
  <1> DEFINE s == ccwSuccessor(S, d)
  <1>1. ASSUME NEW a \in S, NEW b \in S, ccwSuccessor(S, a) = s, ccwSuccessor(S, b) = s,
               pdeLessThan(a, b)
        PROVE  FALSE
    <2>1. s \in S /\ pdeLessThan(a, s) /\ (s = b \/ pdeLessThan(s, b))
      BY <1>1, SuccessorHolds
    <2>2. CASE \E c \in S : pdeLessThan(b, c)
      <3>1. pdeLessThan(b, s)
        BY <1>1, <2>2, SuccessorHolds
      <3> QED
        BY <2>1, <3>1 DEF InOrder
    <2>3. CASE ~ \E c \in S : pdeLessThan(b, c)
      <3>1. s = a \/ pdeLessThan(s, a)
        BY <1>1, <2>3, SuccessorHolds
      <3> QED
        BY <2>1, <3>1 DEF InOrder
    <2> QED
      BY <2>2, <2>3
  <1> HIDE DEF s
  <1>2. ccwSuccessor(S, d) = s /\ ccwSuccessor(S, e) = s
    BY DEF s
  <1>3. d = e \/ pdeLessThan(d, e) \/ pdeLessThan(e, d)
    BY DEF InOrder
  <1> QED
    BY <1>1, <1>2, <1>3

-----------------------------------------------------------------------------
(* The pointers.                                                           *)

\* The edges U that are not deleted of the lines L.
Left(U, L) == /\ Usable(L) /\ U \subseteq Dirs(L)
              /\ \A d \in U : getSym(d) \in U

\* Every edge leads to one that leaves where it arrives, no two to the same.
Links(nx, U) ==
    /\ \A d \in U : nx[d] \in U /\ getFromNode(nx[d]) = getToNode(d)
    /\ \A d, e \in U : nx[d] = nx[e] => d = e

\* The star of U where d arrives.
starAfter(d, U) == outEdges(getToNode(d), U)

LEMMA StarsHold ==
    ASSUME NEW L, NEW U, Left(U, L), NEW d \in U
    PROVE  /\ IsFiniteSet(starAfter(d, U)) /\ InOrder(starAfter(d, U))
           /\ starAfter(d, U) \subseteq U
           /\ getSym(d) \in starAfter(d, U) /\ getSym(getSym(d)) = d
           /\ \A e \in starAfter(d, U) : getFromNode(e) = getToNode(d) /\ getToNode(getSym(e)) = getToNode(d)
                                         /\ getSym(e) \in U /\ getSym(getSym(e)) = e
  <1> DEFINE n == getToNode(d)
             S == outEdges(n, U)
  <1>1. L \in SUBSET Line /\ U \in SUBSET Dirs(L) /\ Usable(L)
    BY DEF Left, Usable
  <1>2. S \in SUBSET Dirs(L) /\ S \in SUBSET outEdges(n, Dirs(L)) /\ S \subseteq U
    BY <1>1 DEF outEdges
  <1>3. IsFiniteSet(S) /\ InOrder(S)
    BY <1>1, <1>2, DirsFinite, StarsAreInOrder, PartsAreInOrder
  <1>4. \A e \in U : getSym(e) \in U /\ getSym(getSym(e)) = e
    BY <1>1, SymFacts DEF Left
  <1>5. \A e \in S : getFromNode(e) = n
    BY DEF outEdges
  <1>6. getSym(d) \in S
    BY <1>4 DEF outEdges, getToNode
  <1> QED
    BY <1>2, <1>3, <1>4, <1>5, <1>6 DEF starAfter, getToNode

\* computeNextCWEdges
LEMMA CWLinks ==
    ASSUME NEW L, NEW E, E = Dirs(L), NEW mk, NEW U, U = E \ mk, Left(U, L),
           \A d \in mk : getSym(d) \in mk,
           NEW nx \in [DirEdge -> DirEdge \cup {NULL}],
           NEW cw, cw = computeNextCWEdges(E, mk, nx)
    PROVE  /\ \A d \in U : cw[d] = ccwSuccessor(starAfter(d, U), getSym(d))
           /\ Links(cw, U)
           /\ cw \in [DirEdge -> DirEdge \cup {NULL}]
  <1> DEFINE f  == [d \in DirEdge |-> IF d \in E /\ getSym(d) \notin mk
                                      THEN ccwSuccessor(outEdges(getToNode(d), U), getSym(d))
                                      ELSE nx[d]]
  <1>1. L \in SUBSET Line /\ E \subseteq DirEdge
    BY DEF Left, Usable, Dirs, DirEdge
  <1>2. cw = f
    BY DEF computeNextCWEdges
  <1>3. \A d \in E : getSym(d) \notin mk <=> d \in U
    BY <1>1, SymFacts DEF Left
  <1>4. ASSUME NEW d \in U
        PROVE  cw[d] = ccwSuccessor(starAfter(d, U), getSym(d))
    BY <1>1, <1>2, <1>3 DEF starAfter
  <1>5. ASSUME NEW d \in DirEdge \ U PROVE cw[d] = nx[d]
    BY <1>2, <1>3
  <1>6. cw = [d \in DirEdge |-> cw[d]]
    BY <1>2
  <1> HIDE DEF f
  <1>7. U \subseteq DirEdge
    BY <1>1
  <1>8. ASSUME NEW d \in U
        PROVE  cw[d] \in starAfter(d, U) /\ cw[d] \in U /\ getFromNode(cw[d]) = getToNode(d)
    <2> DEFINE S == starAfter(d, U)
    <2>1. IsFiniteSet(S) /\ InOrder(S) /\ getSym(d) \in S
          /\ \A e \in S : e \in U /\ getFromNode(e) = getToNode(d)
      BY StarsHold
    <2>2. cw[d] = ccwSuccessor(S, getSym(d))
      BY <1>4
    <2> HIDE DEF S
    <2>3. cw[d] \in S
      BY <2>1, <2>2, SuccessorHolds
    <2> QED
      BY <2>1, <2>3 DEF S
  <1>9. ASSUME NEW d \in U, NEW e \in U, cw[d] = cw[e] PROVE d = e
    <2>1. getToNode(d) = getToNode(e)
      BY <1>8, <1>9
    <2> DEFINE S == starAfter(d, U)
    <2>2. starAfter(e, U) = S
      BY <2>1 DEF starAfter
    <2>3. IsFiniteSet(S) /\ InOrder(S) /\ getSym(d) \in S /\ getSym(e) \in S
      BY <2>2, StarsHold
    <2>4. ccwSuccessor(S, getSym(d)) = ccwSuccessor(S, getSym(e))
      BY <1>4, <1>9, <2>2
    <2> HIDE DEF S
    <2>5. getSym(d) = getSym(e)
      BY <2>3, <2>4, SuccessorsDiffer
    <2> QED
      BY <2>5, StarsHold
  <1>11. cw \in [DirEdge -> DirEdge \cup {NULL}]
    <2>1. \A d \in DirEdge : cw[d] \in DirEdge \cup {NULL}
      BY <1>5, <1>7, <1>8
    <2> QED
      BY <1>6, <2>1
  <1>12. Links(cw, U)
    BY <1>8, <1>9 DEF Links
  <1> QED
    BY <1>4, <1>11, <1>12

\* Labels that go on from edge to edge, clockwise around the nodes.
LabelsTurn(lb, U) ==
    \A d \in U : lb[ccwSuccessor(starAfter(d, U), getSym(d))] = lb[d]

\* The edges labelled lab that leave where a arrives.
labelledOuts(a, lab, U, lb) == {o \in starAfter(a, U) : lb[o] = lab}

upTo(d, S) == {o \in S : o = d \/ pdeLessThan(o, d)}

\* computeNextCCWEdges finds an edge for every edge that arrives with the label.
LEMMA CCWLink ==
    ASSUME NEW L, NEW U, Left(U, L), NEW lb, LabelsTurn(lb, U),
           NEW lab, \A d \in Dirs(L) : lb[d] = lab => d \in U,
           NEW nx, NEW a \in U, lb[a] = lab
    PROVE  LET r     == nextCCW(a, lab, Dirs(L), lb, nx)
               outs  == labelledOuts(a, lab, U, lb)
               ahead == upTo(getSym(a), outs)
           IN  /\ r \in outs
               /\ ahead # {} => r \in ahead /\ \A o \in ahead : o = r \/ pdeLessThan(o, r)
               /\ ahead = {} => \A o \in outs : o = r \/ pdeLessThan(o, r)
  <1> DEFINE r     == nextCCW(a, lab, Dirs(L), lb, nx)
             S     == starAfter(a, U)
             outs  == labelledOuts(a, lab, U, lb)
             d     == getSym(a)
             ahead == upTo(d, outs)
             star  == outEdges(getToNode(a), Dirs(L))
             overtaken == \E e \in star : /\ lb[getSym(e)] = lab /\ pdeLessThan(e, d)
                                          /\ \A o \in ahead : ~pdeLessThan(e, o)
  <1>1. U \subseteq Dirs(L) /\ L \in SUBSET Line
    BY DEF Left, Usable
  <1>2. \A e \in Dirs(L) : getSym(e) \in Dirs(L) /\ getSym(getSym(e)) = e
    BY <1>1, SymFacts
  <1>3. outs = {e \in star : lb[e] = lab}
    BY <1>1 DEF labelledOuts, starAfter, outEdges
  <1>4. r = CASE overtaken                -> nx[a]
              [] ~overtaken /\ outs = {}  -> NULL
              [] ~overtaken /\ outs # {}  -> back(IF ahead = {} THEN outs ELSE ahead)
    BY <1>3 DEF nextCCW, upTo
  <1>5. IsFiniteSet(S) /\ InOrder(S) /\ S \subseteq U /\ d \in S /\ getSym(d) = a
        /\ \A e \in S : getSym(e) \in U /\ getSym(getSym(e)) = e /\ starAfter(getSym(e), U) = S
    <2>1. \A e \in S : getToNode(getSym(e)) = getToNode(a)
      BY StarsHold
    <2> QED
      BY <2>1, StarsHold DEF starAfter
  <1>6. outs \subseteq S /\ ahead \subseteq outs
    BY DEF labelledOuts, upTo
  <1>7. ASSUME NEW e \in S, lb[getSym(e)] = lab PROVE ccwSuccessor(S, e) \in outs
    <2>1. ccwSuccessor(S, e) \in S
      BY <1>5, SuccessorHolds
    <2>2. lb[ccwSuccessor(S, e)] = lab
      BY <1>5, <1>7 DEF LabelsTurn
    <2> QED
      BY <2>1, <2>2 DEF labelledOuts
  <1>8. outs # {}
    BY <1>5, <1>7
  <1>9. ~overtaken
    <2> SUFFICES ASSUME NEW e \in star, lb[getSym(e)] = lab, pdeLessThan(e, d),
                        \A o \in ahead : ~pdeLessThan(e, o)
                 PROVE  FALSE
      OBVIOUS
    <2>1. e \in S
      <3>1. e \in Dirs(L) /\ getFromNode(e) = getToNode(a)
        BY DEF outEdges
      <3>2. getSym(e) \in U
        BY <1>2, <3>1
      <3>3. e \in U
        BY <1>2, <3>1, <3>2 DEF Left
      <3> QED
        BY <3>1, <3>3 DEF starAfter, outEdges
    <2> DEFINE s == ccwSuccessor(S, e)
    <2>2. s \in outs
      BY <1>7, <2>1
    <2>3. pdeLessThan(e, s) /\ (s = d \/ pdeLessThan(s, d))
      BY <1>5, <2>1, SuccessorHolds
    <2>4. s \in ahead
      BY <2>2, <2>3 DEF upTo
    <2> QED
      BY <2>3, <2>4
  <1> HIDE DEF overtaken, star, outs, ahead, r, S, d
  <1>10. r = back(IF ahead = {} THEN outs ELSE ahead)
    BY <1>4, <1>8, <1>9
  <1>11. IsFiniteSet(outs) /\ InOrder(outs) /\ IsFiniteSet(ahead) /\ InOrder(ahead)
    BY <1>5, <1>6, FS_Subset, PartsAreInOrder
  <1>12. CASE ahead = {}
    <2>1. r \in outs /\ \A o \in outs \ {r} : pdeLessThan(o, r)
      BY <1>8, <1>10, <1>11, <1>12, BackHolds
    <2> QED
      BY <1>12, <2>1 DEF r, outs, ahead, d
  <1>13. CASE ahead # {}
    <2>1. r \in ahead /\ \A o \in ahead \ {r} : pdeLessThan(o, r)
      BY <1>10, <1>11, <1>13, BackHolds
    <2> QED
      BY <1>6, <1>13, <2>1 DEF r, outs, ahead, d
  <1> QED
    BY <1>12, <1>13

\* It finds different edges for different ones.
LEMMA CCWLinksDiffer ==
    ASSUME NEW L, NEW U, Left(U, L), NEW lb, LabelsTurn(lb, U),
           NEW lab, \A d \in Dirs(L) : lb[d] = lab => d \in U,
           NEW nx, NEW a \in U, lb[a] = lab, NEW b \in U, lb[b] = lab,
           getToNode(a) = getToNode(b),
           nextCCW(a, lab, Dirs(L), lb, nx) = nextCCW(b, lab, Dirs(L), lb, nx)
    PROVE  ~pdeLessThan(getSym(a), getSym(b))
  <1> DEFINE r    == nextCCW(a, lab, Dirs(L), lb, nx)
             S    == starAfter(a, U)
             outs == labelledOuts(a, lab, U, lb)
             c    == getSym(a)
             d    == getSym(b)
             s    == ccwSuccessor(S, c)
             t    == ccwSuccessor(S, d)
  <1> SUFFICES ASSUME pdeLessThan(c, d) PROVE FALSE
    OBVIOUS
  <1>1. starAfter(b, U) = S /\ labelledOuts(b, lab, U, lb) = outs
    BY DEF starAfter, labelledOuts
  <1>2. /\ IsFiniteSet(S) /\ InOrder(S) /\ c \in S /\ d \in S
        /\ outs = {o \in S : lb[o] = lab}
    BY <1>1, StarsHold DEF labelledOuts
  <1>3. /\ r \in outs
        /\ upTo(c, outs) # {} => r \in upTo(c, outs)
        /\ upTo(c, outs) = {} => \A o \in outs : o = r \/ pdeLessThan(o, r)
    BY CCWLink
  <1>4. upTo(d, outs) # {} => r \in upTo(d, outs) /\ \A o \in upTo(d, outs) : o = r \/ pdeLessThan(o, r)
    BY <1>1, CCWLink
  <1>5. lb[s] = lab /\ lb[t] = lab
    BY <1>1 DEF LabelsTurn
  <1>6. s \in S /\ t \in S /\ pdeLessThan(c, s) /\ (s = d \/ pdeLessThan(s, d))
    BY <1>2, SuccessorHolds
  <1>7. \/ pdeLessThan(d, t) /\ \A e \in S : pdeLessThan(d, e) => (t = e \/ pdeLessThan(t, e))
        \/ \A e \in S : ~pdeLessThan(d, e) /\ (t = e \/ pdeLessThan(t, e))
    BY <1>2, SuccessorHolds
  <1> HIDE DEF r, S, outs, c, d, s, t
  <1>8. s \in upTo(d, outs) /\ s \in outs /\ t \in outs
    BY <1>2, <1>5, <1>6 DEF upTo
  <1>9. r \in S /\ (r = d \/ pdeLessThan(r, d)) /\ (s = r \/ pdeLessThan(s, r)) /\ pdeLessThan(c, r)
    <2>1. r \in upTo(d, outs) /\ (s = r \/ pdeLessThan(s, r))
      BY <1>4, <1>8
    <2>2. r \in S /\ (r = d \/ pdeLessThan(r, d))
      BY <1>2, <2>1 DEF upTo
    <2> QED
      BY <1>2, <1>6, <2>1, <2>2 DEF InOrder
  <1>10. upTo(c, outs) = {}
    <2> SUFFICES ASSUME upTo(c, outs) # {} PROVE FALSE
      OBVIOUS
    <2>1. r = c \/ pdeLessThan(r, c)
      BY <1>3 DEF upTo
    <2> QED
      BY <1>2, <1>9, <2>1 DEF InOrder
  <1>11. t = r \/ pdeLessThan(t, r)
    BY <1>3, <1>8, <1>10
  <1>12. CASE pdeLessThan(d, t)
    <2>1. pdeLessThan(d, r)
      BY <1>2, <1>6, <1>9, <1>11, <1>12 DEF InOrder
    <2> QED
      BY <1>2, <1>9, <2>1 DEF InOrder
  <1>13. CASE ~pdeLessThan(d, t)
    <2>1. t = c \/ pdeLessThan(t, c)
      BY <1>2, <1>7, <1>13
    <2>2. t \in upTo(c, outs)
      BY <1>8, <2>1 DEF upTo
    <2> QED
      BY <1>10, <2>2
  <1> QED
    BY <1>12, <1>13

\* Labels that go on from edge to edge along the pointers.
LabelsFollow(lb, nx, U) == \A d \in U : lb[nx[d]] = lb[d]

\* convertMaximalToMinimalEdgeRings links the edges anew.
LEMMA ConversionLinks ==
    ASSUME NEW L, NEW U, Left(U, L), NEW lb, LabelsTurn(lb, U),
           NEW lab, \A d \in Dirs(L) : lb[d] = lab => d \in U,
           NEW nx \in [DirEdge -> DirEdge \cup {NULL}], Links(nx, U), LabelsFollow(lb, nx, U),
           NEW ring
    PROVE  LET cv == convertMaximalToMinimal(ring, lab, Dirs(L), lb, nx)
           IN  /\ cv \in [DirEdge -> DirEdge \cup {NULL}]
               /\ Links(cv, U) /\ LabelsFollow(lb, cv, U)
  <1> DEFINE cv == convertMaximalToMinimal(ring, lab, Dirs(L), lb, nx)
             ns == findIntersectionNodes(ring, lab, Dirs(L), lb)
             ccw(d) == nextCCW(d, lab, Dirs(L), lb, nx)
             turned(d) == d \in Dirs(L) /\ lb[d] = lab /\ getToNode(d) \in ns
  <1>1. U \subseteq Dirs(L) /\ U \subseteq DirEdge /\ Dirs(L) \subseteq DirEdge
    BY DEF Left, Usable, Dirs, DirEdge
  <1>2. cv = [d \in DirEdge |-> IF turned(d) THEN ccw(d) ELSE nx[d]]
    BY DEF convertMaximalToMinimal, computeNextCCWEdges
  <1> HIDE DEF cv, ns
  <1>3. ASSUME NEW d \in U, lb[d] = lab
        PROVE  ccw(d) \in U /\ getFromNode(ccw(d)) = getToNode(d) /\ lb[ccw(d)] = lab
    <2>1. ccw(d) \in labelledOuts(d, lab, U, lb)
      BY <1>3, CCWLink
    <2> QED
      BY <2>1 DEF labelledOuts, starAfter, outEdges
  <1>4. ASSUME NEW d \in DirEdge PROVE cv[d] = IF turned(d) THEN ccw(d) ELSE nx[d]
    BY <1>2
  <1>5. ASSUME NEW d \in DirEdge, turned(d) PROVE d \in U /\ lb[d] = lab
    BY <1>5
  <1>6. ASSUME NEW d \in U
        PROVE  cv[d] \in U /\ getFromNode(cv[d]) = getToNode(d) /\ lb[cv[d]] = lb[d]
    <2>1. CASE turned(d)
      BY <1>1, <1>3, <1>4, <2>1
    <2>2. CASE ~turned(d)
      BY <1>1, <1>4, <2>2 DEF Links, LabelsFollow
    <2> QED
      BY <2>1, <2>2
  <1>7. ASSUME NEW d \in U, NEW e \in U, cv[d] = cv[e] PROVE d = e
    <2>1. getToNode(d) = getToNode(e) /\ lb[d] = lb[e]
      BY <1>6, <1>7
    <2>2. turned(d) <=> turned(e)
      BY <1>1, <2>1
    <2>3. CASE turned(d)
      <3>1. ccw(d) = ccw(e) /\ lb[d] = lab /\ lb[e] = lab
        BY <1>1, <1>4, <1>7, <2>2, <2>3
      <3> DEFINE S == starAfter(d, U)
      <3>2. InOrder(S) /\ getSym(d) \in S /\ getSym(getSym(d)) = d
        BY StarsHold
      <3>3. getSym(e) \in starAfter(e, U) /\ getSym(getSym(e)) = e
        BY StarsHold
      <3>4. starAfter(e, U) = S
        BY <2>1 DEF starAfter
      <3>5. ~pdeLessThan(getSym(d), getSym(e)) /\ ~pdeLessThan(getSym(e), getSym(d))
        BY <2>1, <3>1, CCWLinksDiffer
      <3>6. getSym(d) = getSym(e)
        BY <3>2, <3>3, <3>4, <3>5 DEF InOrder
      <3> QED
        BY <3>2, <3>3, <3>6
    <2>4. CASE ~turned(d)
      <3>1. nx[d] = nx[e]
        BY <1>1, <1>4, <1>7, <2>2, <2>4
      <3> QED
        BY <3>1 DEF Links
    <2> QED
      BY <2>3, <2>4
  <1>8. cv \in [DirEdge -> DirEdge \cup {NULL}]
    <2>1. ASSUME NEW d \in DirEdge PROVE cv[d] \in DirEdge \cup {NULL}
      <3>1. CASE turned(d)
        BY <1>1, <1>5, <1>6, <3>1
      <3>2. CASE ~turned(d)
        BY <1>4, <3>2
      <3> QED
        BY <3>1, <3>2
    <2> QED
      BY <1>2, <2>1
  <1>9. Links(cv, U) /\ LabelsFollow(lb, cv, U)
    BY <1>6, <1>7 DEF Links, LabelsFollow
  <1> QED
    BY <1>8, <1>9 DEF cv

-----------------------------------------------------------------------------
(* The rings.                                                              *)

\* The walk of ringFrom.
Walks(at, start, nx) == at = [k \in Nat |-> IF k = 0 THEN start ELSE nx[at[k - 1]]]

walkFrom(start, nx) == CHOOSE at : Walks(at, start, nx)

\* A walk among U.
Follows(at, nx, U) == at \in [Nat -> U] /\ \A k \in Nat : at[k + 1] = nx[at[k]]

LEMMA WalkExists ==
    ASSUME NEW U, NEW nx, Links(nx, U), NEW start \in U
    PROVE  LET at == walkFrom(start, nx)
           IN  Follows(at, nx, U) /\ at[0] = start
  <1> DEFINE F == [d \in U |-> nx[d]]
             at == walkFrom(start, nx)
  <1>1. F \in [U -> U]
    BY DEF Links
  <1>2. PICK f \in [Nat -> U] : IsIteration(f, start, F)
    <2> HIDE DEF F
    <2> QED
      BY <1>1, IterationExists
  <1>3. Walks(f, start, nx)
    <2>1. f = [k \in Nat |-> IF k = 0 THEN start ELSE F[f[k - 1]]]
      BY <1>2 DEF IsIteration
    <2>2. \A k \in Nat : k # 0 => k - 1 \in Nat /\ F[f[k - 1]] = nx[f[k - 1]]
      BY <1>2
    <2> DEFINE g == [k \in Nat |-> IF k = 0 THEN start ELSE nx[f[k - 1]]]
    <2>3. \A k \in Nat : f[k] = IF k = 0 THEN start ELSE F[f[k - 1]]
      <3> HIDE DEF F
      <3> QED
        BY <2>1
    <2>4. \A k \in Nat : f[k] = g[k]
      BY <2>2, <2>3
    <2>5. f = [k \in Nat |-> f[k]]
      BY <1>2
    <2>6. f = g
      BY <2>4, <2>5
    <2> QED
      BY <2>6 DEF Walks
  <1>4. Walks(at, start, nx)
    BY <1>3 DEF walkFrom
  <1> HIDE DEF at
  <1>5. /\ at = [k \in Nat |-> at[k]]
        /\ at[0] = start
        /\ \A k \in Nat : at[k + 1] = nx[at[k]]
    <2>1. \A k \in Nat : k + 1 \in Nat /\ k + 1 # 0 /\ (k + 1) - 1 = k
      OBVIOUS
    <2>2. \A k \in Nat : at[k] = IF k = 0 THEN start ELSE nx[at[k - 1]]
      BY <1>4 DEF Walks
    <2>3. at = [k \in Nat |-> at[k]]
      BY <1>4 DEF Walks
    <2> QED
      BY <2>1, <2>2, <2>3
  <1> DEFINE T == {k \in Nat : at[k] \in U}
  <1>6. 0 \in T
    BY <1>5
  <1>7. ASSUME NEW k \in Nat, k \in T PROVE k + 1 \in T
    <2>1. at[k] \in U /\ k + 1 \in Nat
      BY <1>7
    <2>2. at[k + 1] = nx[at[k]]
      BY <1>5
    <2>3. nx[at[k]] \in U
      BY <2>1 DEF Links
    <2> QED
      BY <2>1, <2>2, <2>3
  <1>8. \A k \in Nat : k \in T
    <2> HIDE DEF T
    <2> QED
      BY <1>6, <1>7, InductionOnSets
  <1>9. at \in [Nat -> U]
    BY <1>5, <1>8
  <1> QED
    BY <1>5, <1>9 DEF at, Follows

\* Where a walk meets itself it has met its start.
LEMMA WalkReturns ==
    ASSUME NEW U, NEW nx, Links(nx, U), NEW at, Follows(at, nx, U)
    PROVE  \A i, j \in Nat : i <= j /\ at[i] = at[j] => at[j - i] = at[0]
  <1> DEFINE T == {k \in Nat : \A m \in Nat : k <= m /\ at[k] = at[m] => at[m - k] = at[0]}
  <1> USE DEF Follows
  <1>1. 0 \in T
    OBVIOUS
  <1>2. ASSUME NEW k \in Nat, k \in T PROVE k + 1 \in T
    <2> SUFFICES ASSUME NEW m \in Nat, k + 1 <= m, at[k + 1] = at[m]
                 PROVE  at[m - (k + 1)] = at[0]
      OBVIOUS
    <2> DEFINE p == m - 1
    <2>1. p \in Nat /\ k <= p /\ m = p + 1 /\ p - k = m - (k + 1)
      OBVIOUS
    <2> HIDE DEF p
    <2>2. at[k] \in U /\ at[p] \in U /\ nx[at[k]] = nx[at[p]]
      BY <2>1
    <2>3. at[k] = at[p]
      BY <2>2 DEF Links
    <2> QED
      BY <1>2, <2>1, <2>3
  <1>3. \A k \in Nat : k \in T
    <2> HIDE DEF T
    <2> QED
      BY <1>1, <1>2, InductionOnSets
  <1> QED
    BY <1>3

\* A walk comes back to its start.
LEMMA WalkCloses ==
    ASSUME NEW U, IsFiniteSet(U), NEW nx, Links(nx, U), NEW at, Follows(at, nx, U)
    PROVE  \E n \in 1..Cardinality(U) : at[n] = at[0] /\ \A j \in 1..(n - 1) : at[j] # at[0]
  <1> DEFINE c == Cardinality(U)
             f == [k \in 0..c |-> at[k]]
             T == {k \in Nat : k # 0 /\ at[k] = at[0]}
  <1>1. c \in Nat
    BY FS_CardinalityType
  <1>2. IsFiniteSet(0..c) /\ Cardinality(0..c) = c + 1
    BY <1>1, FS_Interval
  <1>3. f \in [0..c -> U]
    BY <1>1 DEF Follows
  <1>4. PICK x \in 0..c, y \in 0..c : x # y /\ f[x] = f[y]
    <2>1. Cardinality(U) < Cardinality(0..c)
      BY <1>1, <1>2
    <2>2. IsFiniteSet(0..c)
      BY <1>2
    <2>3. f \in [0..c -> U]
      BY <1>3
    <2> HIDE DEF f
    <2> DEFINE S == 0..c
    <2>4. IsFiniteSet(S) /\ Cardinality(U) < Cardinality(S) /\ f \in [S -> U]
      BY <2>1, <2>2, <2>3
    <2> HIDE DEF S
    <2>5. \E x, y \in S : x # y /\ f[x] = f[y]
      BY <2>4, FS_PigeonHole
    <2> QED
      BY <2>5 DEF S
  <1>5. x \in Nat /\ y \in Nat /\ x <= c /\ y <= c /\ at[x] = at[y]
    BY <1>1, <1>4
  <1> DEFINE z == IF x < y THEN y - x ELSE x - y
  <1>6. z \in T /\ z <= c
    <2>1. \A i, j \in Nat : i <= j /\ at[i] = at[j] => at[j - i] = at[0]
      BY WalkReturns
    <2>2. at[y - x] = at[0] \/ ~(x < y)
      BY <1>5, <2>1
    <2>3. at[x - y] = at[0] \/ x < y
      BY <1>5, <2>1
    <2>4. z \in Nat /\ z # 0 /\ z <= c
      <3> HIDE DEF c
      <3> QED
        BY <1>1, <1>4, <1>5
    <2> QED
      BY <2>2, <2>3, <2>4
  <1>7. T \in SUBSET Nat /\ T # {}
    BY <1>6
  <1>8. PICK n \in T : \A m \in T : n <= m
    <2> HIDE DEF T
    <2> QED
      BY <1>7, LeastOfNaturals
  <1>9. n \in 1..c /\ at[n] = at[0]
    <2>1. n \in Nat /\ n # 0 /\ at[n] = at[0] /\ n <= z
      BY <1>6, <1>8
    <2>2. z \in Nat /\ z <= c
      BY <1>6
    <2> HIDE DEF z, c
    <2> QED
      BY <1>1, <2>1, <2>2
  <1>10. \A j \in 1..(n - 1) : at[j] # at[0]
    <2> SUFFICES ASSUME NEW j \in 1..(n - 1), at[j] = at[0] PROVE FALSE
      OBVIOUS
    <2>1. n \in Nat /\ j \in Nat /\ j # 0 /\ j < n
      BY <1>8
    <2>2. j \in T
      BY <2>1
    <2> QED
      BY <1>8, <2>1, <2>2
  <1> QED
    BY <1>9, <1>10

\* A ring of the links nx among the edges U.
RingOf(r, nx, U) ==
    /\ r \in Seq(U) /\ Len(r) > 0 /\ \A i, j \in DOMAIN r : r[i] = r[j] => i = j
    /\ \A i \in DOMAIN r : nx[r[i]] = r[(i % Len(r)) + 1]
    /\ \A d \in U : nx[d] \in ToSet(r) <=> d \in ToSet(r)

LEMMA RingsClose ==
    ASSUME NEW U \in SUBSET DirEdge, NEW nx, Links(nx, U), NEW start \in U
    PROVE  RingOf(ringFrom(start, nx), nx, U) /\ ringFrom(start, nx)[1] = start
  <1> DEFINE at == walkFrom(start, nx)
             c  == Cardinality(DirEdge)
             Closes(k) == at[k] = start /\ \A j \in 1..(k - 1) : at[j] # start
             n  == CHOOSE k \in 1..c : Closes(k)
             r  == ringFrom(start, nx)
  <1>1. IsFiniteSet(DirEdge)
    <2>1. Line \in SUBSET Line /\ DirEdge \in SUBSET Dirs(Line)
      BY DEF Dirs, DirEdge
    <2> QED
      BY <2>1, DirsFinite
  <1>2. IsFiniteSet(U) /\ Cardinality(U) <= c /\ c \in Nat /\ Cardinality(U) \in Nat
    BY <1>1, FS_Subset, FS_CardinalityType
  <1>3. r = [i \in 1..n |-> at[i - 1]]
    BY DEF ringFrom, walkFrom, Walks
  <1>4. at \in [Nat -> U] /\ at[0] = start /\ \A k \in Nat : at[k + 1] = nx[at[k]]
    BY WalkExists DEF Follows
  <1> HIDE DEF at, r
  <1>5. \E k \in 1..c : Closes(k)
    <2>1. PICK k \in 1..Cardinality(U) : at[k] = at[0] /\ \A j \in 1..(k - 1) : at[j] # at[0]
      BY <1>2, WalkExists, WalkCloses DEF at
    <2>2. k \in 1..c
      <3> HIDE DEF c
      <3> QED
        BY <1>2
    <2> QED
      BY <1>4, <2>1, <2>2
  <1>6. n \in 1..c /\ Closes(n)
    BY <1>5
  <1> HIDE DEF n
  <1>7. n \in Nat /\ n > 0
    BY <1>2, <1>6
  <1> HIDE DEF c
  <1>8. r \in Seq(U) /\ Len(r) = n /\ DOMAIN r = 1..n /\ \A i \in 1..n : r[i] = at[i - 1]
    <2>1. \A i \in 1..n : i - 1 \in Nat /\ at[i - 1] \in U
      BY <1>4, <1>7
    <2>2. r \in [1..n -> U]
      BY <1>3, <2>1
    <2> QED
      BY <1>3, <1>7, <2>2
  <1>9. ASSUME NEW i \in 1..n, NEW j \in 1..n, r[i] = r[j], i < j PROVE FALSE
    <2> DEFINE a == i - 1
               b == j - 1
               m == b - a
    <2>1. a \in Nat /\ b \in Nat /\ a <= b /\ m \in 1..(n - 1)
      BY <1>7, <1>9
    <2>2. at[a] = at[b]
      BY <1>8, <1>9
    <2>3. \A k, l \in Nat : k <= l /\ at[k] = at[l] => at[l - k] = at[0]
      BY WalkExists, WalkReturns DEF at
    <2> HIDE DEF a, b
    <2>4. at[m] = at[0]
      BY <2>1, <2>2, <2>3
    <2> QED
      BY <1>4, <1>6, <2>1, <2>4
  <1>10. \A i, j \in DOMAIN r : r[i] = r[j] => i = j
    <2> SUFFICES ASSUME NEW i \in 1..n, NEW j \in 1..n, r[i] = r[j], i # j PROVE FALSE
      BY <1>8
    <2>1. i < j \/ j < i
      BY <1>7
    <2> QED
      BY <1>9, <2>1
  <1>11. ASSUME NEW i \in 1..n PROVE nx[r[i]] = r[(i % n) + 1] /\ (i % n) + 1 \in 1..n
    <2>1. i - 1 \in Nat /\ (i - 1) + 1 = i /\ i \in Nat
      BY <1>7
    <2>2. nx[r[i]] = at[i]
      BY <1>4, <1>8, <2>1
    <2>3. CASE i = n
      <3>1. i % n = 0
        BY <1>7, <2>3
      <3>2. r[1] = at[0] /\ 1 \in 1..n
        BY <1>7, <1>8
      <3> QED
        BY <1>4, <1>6, <2>2, <2>3, <3>1, <3>2
    <2>4. CASE i # n
      <3>1. i < n /\ i + 1 \in 1..n /\ (i + 1) - 1 = i
        BY <1>7, <2>1, <2>4
      <3>2. i % n = i
        BY <1>7, <2>1, <3>1
      <3> QED
        BY <1>8, <2>2, <3>1, <3>2
    <2> QED
      BY <2>3, <2>4
  <1>12. ToSet(r) = {r[i] : i \in 1..n}
    BY <1>8 DEF ToSet
  <1>13. ASSUME NEW d \in U PROVE nx[d] \in ToSet(r) <=> d \in ToSet(r)
    <2>1. ASSUME d \in ToSet(r) PROVE nx[d] \in ToSet(r)
      BY <1>11, <1>12, <2>1
    <2>2. ASSUME nx[d] \in ToSet(r) PROVE d \in ToSet(r)
      <3>1. PICK j \in 1..n : nx[d] = r[j]
        BY <1>12, <2>2
      <3>2. PICK i \in 1..n : nx[r[i]] = r[j]
        <4>1. CASE j = 1
          <5>1. n \in 1..n /\ n % n = 0
            BY <1>7
          <5> QED
            BY <1>11, <4>1, <5>1
        <4>2. CASE j # 1
          <5> DEFINE i == j - 1
          <5>1. i \in 1..n /\ i < n /\ i + 1 = j /\ i \in Nat
            BY <1>7, <4>2
          <5> HIDE DEF i
          <5>2. i % n = i
            BY <1>7, <5>1
          <5> QED
            BY <1>11, <5>1, <5>2
        <4> QED
          BY <4>1, <4>2
      <3>3. r[i] \in U /\ nx[r[i]] = nx[d]
        BY <1>8, <3>1, <3>2
      <3>4. r[i] = d
        BY <3>3 DEF Links
      <3> QED
        BY <1>12, <3>4
    <2> QED
      BY <2>1, <2>2
  <1>14. r[1] = start
    BY <1>4, <1>7, <1>8
  <1> QED
    BY <1>7, <1>8, <1>10, <1>11, <1>13, <1>14 DEF RingOf, r

-----------------------------------------------------------------------------
(* The invariant of the rings.                                             *)

\* The edges that are not deleted.
Kept == D \ marked

\* From deleteCutEdges on, the pointers form rings.
LinkInv ==
    pc \in {"deleteCutEdges", "getEdgeRings", "findEdgeRings", "findValidRings"}
        => Links(next, Kept)

\* In getEdgeRings only edges that are left get a label, the labels turn around
\* the nodes and follow the pointers, and the pointers are those of
\* computeNextCWEdges until the first ring is converted.
LabelInv ==
    pc = "getEdgeRings" =>
        /\ \A d \in marked : label[d] < 0
        /\ LabelsFollow(label, next, Kept) /\ LabelsTurn(label, Kept)
        /\ maximalRings \in Seq(Seq(Kept))
        /\ \A i \in DOMAIN maximalRings : maximalRings[i][1] \in Kept
        /\ unlabelled # {} => done = 0
        /\ done = 0 =>
              \A d \in Kept : next[d] = ccwSuccessor(starAfter(d, Kept), getSym(d))

\* The rings found so far are disjoint, and the flags tell which edges they have.
RingsFound ==
    /\ edgeRingList \in Seq(Seq(Kept))
    /\ \A r \in Rings : RingOf(r, next, Kept)
    /\ \A d : d \in inRing <=> \E r \in Rings : d \in ToSet(r)
    /\ \A r, s \in Rings : r = s \/ ToSet(r) \cap ToSet(s) = {}

RingInv ==
    /\ runs = 0 => inRing = {}
    /\ runs = 1 =>
        /\ pc \in {"deleteDangles", "deleteCutEdges", "getEdgeRings"} => inRing = {}
        /\ pc \in {"findEdgeRings", "findValidRings"} => RingsFound
        /\ pc = "findValidRings" => Kept \subseteq inRing
        /\ pc # "aborted"

TypeInv == TypeOK /\ currLabel \in Nat

PolygonizeInv == TypeInv /\ LinkInv /\ LabelInv /\ RingInv

\* The edges that are left of a consistent graph.
LEMMA KeptAreLeft ==
    ASSUME FlagsOK
    PROVE  /\ D = Dirs(edges) /\ edges \in SUBSET Line /\ D \subseteq DirEdge
           /\ Left(Kept, edges) /\ Kept \in SUBSET DirEdge
           /\ \A d \in D : getSym(d) \in D /\ getSym(getSym(d)) = d
  <1>1. D = Dirs(edges) /\ edges \in SUBSET Line
    BY DEF D, edges, FlagsOK
  <1>2. Usable(edges)
    BY <1>1 DEF Usable, edges
  <1>3. D \subseteq DirEdge
    BY <1>1 DEF Dirs, DirEdge
  <1>4. \A d \in D : getSym(d) \in D /\ getSym(getSym(d)) = d
    BY <1>1, SymFacts
  <1>5. \A d \in Kept : getSym(d) \in Kept
    <2> SUFFICES ASSUME NEW d \in Kept, getSym(d) \in marked PROVE FALSE
      BY <1>4 DEF Kept
    <2>1. getSym(getSym(d)) \in marked
      BY DEF FlagsOK
    <2> QED
      BY <1>4, <2>1 DEF Kept
  <1> QED
    BY <1>1, <1>2, <1>3, <1>4, <1>5 DEF Left, Kept

\* There is a first directed edge in every set of them.
LEMMA FirstHolds ==
    ASSUME NEW S \in SUBSET DirEdge, S # {}
    PROVE  firstDirEdge(S) \in S
  <1> DEFINE T == {d[1] : d \in S}
  <1>1. \A d \in S : d[1] \in Line /\ d[1] \in Nat /\ d[2] \in BOOLEAN /\ d = <<d[1], d[2]>>
    <2> SUFFICES ASSUME NEW d \in S
                 PROVE  d[1] \in Line /\ d[1] \in Nat /\ d[2] \in BOOLEAN /\ d = <<d[1], d[2]>>
      OBVIOUS
    <2>1. PICK l \in Line, b \in BOOLEAN : d = <<l, b>>
      BY DEF DirEdge
    <2>2. l \in Nat
      BY LineAssumption
    <2> QED
      BY <2>1, <2>2
  <1>2. T \in SUBSET Nat /\ T # {}
    BY <1>1
  <1>3. PICK l \in T : \A k \in T : l <= k
    BY <1>2, LeastOfNaturals
  <1>4. PICK c \in S : c[1] = l
    OBVIOUS
  <1>5. \E d \in S : d[1] = l /\ \A e \in S : e[1] = l => d[2] \/ d = e
    <2>1. CASE \E e \in S : e[1] = l /\ e[2]
      BY <2>1
    <2>2. CASE \A e \in S : e[1] = l => ~e[2]
      <3>1. ASSUME NEW e \in S, e[1] = l PROVE c = e
        <4>1. c[2] = FALSE /\ e[2] = FALSE
          BY <1>1, <1>4, <2>2, <3>1
        <4> QED
          BY <1>1, <1>4, <3>1, <4>1
      <3> QED
        BY <1>4, <3>1
    <2> QED
      BY <2>1, <2>2
  <1>6. PICK d \in S : d[1] = l /\ \A e \in S : e[1] = l => d[2] \/ d = e
    BY <1>5
  <1>7. ASSUME NEW e \in S PROVE d[1] < e[1] \/ (d[1] = e[1] /\ (d[2] \/ d = e))
    <2>1. l <= e[1] /\ l \in Nat /\ e[1] \in Nat
      BY <1>1, <1>3, <1>4
    <2> QED
      BY <1>6, <2>1
  <1> QED
    BY <1>7 DEF firstDirEdge

\* Two rings of the same links that do not start alike share no edge.
LEMMA RingsAreDisjoint ==
    ASSUME NEW U, NEW nx, NEW r, RingOf(r, nx, U), NEW s, RingOf(s, nx, U), r[1] \notin ToSet(s)
    PROVE  ToSet(r) \cap ToSet(s) = {}
  <1> DEFINE n == Len(r)
             T == {k \in Nat : k + 1 <= n => r[k + 1] \notin ToSet(s)}
  <1>1. r \in Seq(U) /\ n \in Nat /\ DOMAIN r = 1..n /\ \A i \in 1..n : r[i] \in U
    BY DEF RingOf
  <1>2. 0 \in T
    OBVIOUS
  <1>3. ASSUME NEW k \in Nat, k \in T PROVE k + 1 \in T
    <2> SUFFICES ASSUME (k + 1) + 1 <= n PROVE r[(k + 1) + 1] \notin ToSet(s)
      OBVIOUS
    <2> DEFINE i == k + 1
    <2>1. i \in 1..n /\ i < n /\ i \in Nat
      BY <1>1
    <2>2. r[i] \in U /\ r[i] \notin ToSet(s)
      BY <1>1, <1>3, <2>1
    <2> HIDE DEF i
    <2>3. i % n = i
      BY <1>1, <2>1
    <2>4. nx[r[i]] = r[i + 1]
      BY <1>1, <2>1, <2>3 DEF RingOf
    <2>5. nx[r[i]] \notin ToSet(s)
      BY <2>2 DEF RingOf
    <2> QED
      BY <2>4, <2>5 DEF i
  <1>4. \A k \in Nat : k \in T
    <2> HIDE DEF T
    <2> QED
      BY <1>2, <1>3, InductionOnSets
  <1>5. ASSUME NEW i \in 1..n PROVE r[i] \notin ToSet(s)
    <2>1. i - 1 \in Nat /\ (i - 1) + 1 = i /\ i <= n
      BY <1>1
    <2>2. i - 1 \in T
      BY <1>4, <2>1
    <2> QED
      BY <2>1, <2>2
  <1> QED
    BY <1>1, <1>5 DEF ToSet

\* The ring that starts at one of the edges S that are left.
LEMMA NewRing ==
    ASSUME FlagsOK, Links(next, Kept), NEW S \in SUBSET Kept, S # {}
    PROVE  LET ring == ringFrom(firstDirEdge(S), next)
           IN  /\ RingOf(ring, next, Kept) /\ ring[1] \in S
               /\ ring \in Seq(Kept) /\ ToSet(ring) \subseteq Kept /\ Kept \subseteq D
  <1>1. Kept \in SUBSET DirEdge /\ Kept \subseteq D
    BY KeptAreLeft DEF Kept
  <1>2. firstDirEdge(S) \in S
    BY <1>1, FirstHolds
  <1> DEFINE ring == ringFrom(firstDirEdge(S), next)
  <1>3. RingOf(ring, next, Kept) /\ ring[1] = firstDirEdge(S)
    BY <1>1, <1>2, RingsClose
  <1>4. ring \in Seq(Kept)
    BY <1>3 DEF RingOf
  <1>5. ToSet(ring) \subseteq Kept
    BY <1>4 DEF ToSet
  <1> QED
    BY <1>1, <1>2, <1>3, <1>4, <1>5

\* An abandoned run keeps the invariant, and so does a step that only goes on
\* to a later part of the run.
LEMMA RestKeepsRings ==
    ASSUME PolygonizeInv, TypeInv', UNCHANGED <<graphVars, runs>>, runs # 0 \/ inRing = {},
           pc' \notin {"deleteDangles", "deleteCutEdges", "getEdgeRings", "findEdgeRings",
                       "findValidRings", "aborted"}
    PROVE  PolygonizeInv'
  BY DEF PolygonizeInv, LinkInv, LabelInv, RingInv, graphVars

LEMMA InitPolygonizeInv == Init => PolygonizeInv
  <1> SUFFICES ASSUME Init PROVE PolygonizeInv
    OBVIOUS
  <1>1. FlagsOK
    BY InitDangleInv DEF DangleInv
  <1>2. TypeInv
    BY <1>1, PolygonizerAssumption DEF Init, TypeInv, TypeOK
  <1> QED
    BY <1>2 DEF Init, PolygonizeInv, LinkInv, LabelInv, RingInv

-----------------------------------------------------------------------------
(* One lemma for each part of a run.                                       *)

LEMMA AddKeepsRings ==
    ASSUME PolygonizeInv, FlagsOK', runs = 0 => Fresh, NEW l \in Line, add(l)
    PROVE  PolygonizeInv'
  <1>1. UNCHANGED <<marked, label, next, inRing, nodeStack, done, currLabel, call, calls,
                    runs, ranOn, outcome, pc>>
        /\ lines' = lines \cup {l} /\ pc' = "idle"
    BY DEF add, localVars, ringVars, callVars
  <1>2. D \subseteq D'
    BY <1>1 DEF D, edges, Dirs
  <1>3. Nodes(D) \subseteq Nodes(D')
    BY <1>2 DEF Nodes
  <1>4. TypeInv'
    BY <1>1, <1>2, <1>3 DEF PolygonizeInv, TypeInv, TypeOK
  <1> QED
    BY <1>1, <1>4 DEF PolygonizeInv, LinkInv, LabelInv, RingInv

\* A getter that finds nothing to do, or starts a run.
LEMMA CallsKeepRings ==
    ASSUME PolygonizeInv, FlagsOK', runs = 0 => Fresh, NEW c \in Getters, getCached(c) \/ polygonize(c)
    PROVE  PolygonizeInv'
  <1>1. UNCHANGED <<lines, marked, label, next, inRing, done, currLabel, outcome>>
        /\ call' = c /\ calls' = calls + 1 /\ calls < MaxCalls
        /\ pc' \in {"idle", "deleteDangles"} /\ D' = D /\ pc = "idle"
    BY DEF getCached, polygonize, Return, graphVars, localVars, ringVars, D, edges
  <1>2. nodeStack' \subseteq Nodes(D) /\ ranOn' \subseteq lines
    BY DEF getCached, polygonize, graphVars, localVars, PolygonizeInv, TypeInv, TypeOK
  <1>3. calls' \in 0..MaxCalls
    BY <1>1, PolygonizerAssumption DEF PolygonizeInv, TypeInv, TypeOK
  <1>4. TypeInv'
    BY <1>1, <1>2, <1>3 DEF PolygonizeInv, TypeInv, TypeOK
  <1>5. (pc' = "idle" /\ runs' = runs) \/ (pc' = "deleteDangles" /\ runs' = runs + 1)
    BY DEF getCached, polygonize, Return
  <1>6. runs \in Nat
    BY DEF PolygonizeInv, TypeInv, TypeOK, FlagsOK
  <1>7. RingInv'
    BY <1>1, <1>5, <1>6 DEF PolygonizeInv, RingInv
  <1> QED
    BY <1>1, <1>4, <1>7 DEF PolygonizeInv, LinkInv, LabelInv

LEMMA DanglesKeepRings ==
    ASSUME PolygonizeInv, FlagsOK', runs # 0, NEW n \in nodeStack, deleteDangle(n)
    PROVE  PolygonizeInv'
  <1>1. UNCHANGED <<lines, label, next, inRing, done, currLabel, call, calls, runs, ranOn,
                    outcome, pc>>
        /\ pc = "deleteDangles" /\ D' = D
        /\ nodeStack' \subseteq nodeStack \cup neighbours(n)
    BY DEF deleteDangle, ringVars, callVars, newDangles, D, edges
  <1>2. neighbours(n) \subseteq Nodes(D)
    <2>1. FlagsOK
      BY DEF PolygonizeInv, TypeInv, TypeOK
    <2> QED
      BY <2>1, KeptAreLeft DEF neighbours, Nodes, outEdges, getToNode
  <1>3. TypeInv'
    BY <1>1, <1>2 DEF PolygonizeInv, TypeInv, TypeOK
  <1> QED
    BY <1>1, <1>3 DEF PolygonizeInv, LinkInv, LabelInv, RingInv

\* The pointers after deleteDangles form rings.
LEMMA LinkingKeepsRings ==
    ASSUME PolygonizeInv, FlagsOK', runs # 0, danglesDone
    PROVE  PolygonizeInv'
  <1>1. UNCHANGED <<lines, marked, label, inRing, nodeStack, done, call, calls, runs, ranOn,
                    outcome>>
        /\ D' = D /\ Kept' = Kept /\ currLabel' = 1
        /\ pc = "deleteDangles" /\ pc' = "deleteCutEdges"
        /\ next' = computeNextCWEdges(D, marked, next)
    BY DEF danglesDone, callVars, D, edges, Kept
  <1>2. FlagsOK /\ next \in [DirEdge -> DirEdge \cup {NULL}]
    BY DEF PolygonizeInv, TypeInv, TypeOK
  <1>3. /\ Left(D \ marked, edges) /\ D = Dirs(edges) /\ \A d \in marked : getSym(d) \in marked
        /\ D \subseteq DirEdge
    BY <1>2, KeptAreLeft DEF Kept, FlagsOK
  <1>4. Links(next', Kept) /\ next' \in [DirEdge -> DirEdge \cup {NULL}]
    BY <1>1, <1>2, <1>3, CWLinks DEF Kept
  <1>5. TypeInv'
    BY <1>1, <1>4 DEF PolygonizeInv, TypeInv, TypeOK
  <1> QED
    BY <1>1, <1>4, <1>5 DEF PolygonizeInv, LinkInv, LabelInv, RingInv

\* Without the cut edges they do again, and nothing is labelled.
LEMMA CutsKeepRings ==
    ASSUME PolygonizeInv, FlagsOK', runs # 0, deleteCutEdges
    PROVE  PolygonizeInv'
  <1>1. UNCHANGED <<lines, inRing, nodeStack, call, calls, runs, ranOn, outcome>>
        /\ D' = D /\ edges' = edges /\ currLabel' = 1 /\ done' = 0 /\ maximalRings' = <<>>
        /\ pc = "deleteCutEdges" /\ pc' = "getEdgeRings"
        /\ label' = [d \in DirEdge |-> IF d \in D THEN -1 ELSE label[d]]
        /\ next' = computeNextCWEdges(D, marked', next)
    BY DEF deleteCutEdges, callVars, D, edges
  <1>2. FlagsOK /\ next \in [DirEdge -> DirEdge \cup {NULL}] /\ label \in [DirEdge -> Int]
    BY DEF PolygonizeInv, TypeInv, TypeOK
  <1>3. /\ Left(D \ marked', edges) /\ D = Dirs(edges) /\ \A d \in marked' : getSym(d) \in marked'
        /\ D \subseteq DirEdge /\ marked' \subseteq D
    <2>1. D = Dirs(edges) /\ Usable(edges) /\ D \subseteq DirEdge
          /\ \A d \in D : getSym(d) \in D /\ getSym(getSym(d)) = d
      BY <1>2, KeptAreLeft DEF Left
    <2>2. marked' \subseteq D /\ \A d \in marked' : getSym(d) \in marked'
      BY <1>1 DEF FlagsOK
    <2>3. \A d \in D \ marked' : getSym(d) \in D \ marked'
      <3> SUFFICES ASSUME NEW d \in D \ marked', getSym(d) \in marked' PROVE FALSE
        BY <2>1
      <3>1. getSym(getSym(d)) \in marked'
        BY <2>2
      <3> QED
        BY <2>1, <3>1
    <2> QED
      BY <2>1, <2>2, <2>3 DEF Left
  <1> DEFINE U == D \ marked'
  <1>4. /\ Links(next', U) /\ next' \in [DirEdge -> DirEdge \cup {NULL}]
        /\ \A d \in U : next'[d] = ccwSuccessor(starAfter(d, U), getSym(d))
    <2> DEFINE mk == marked'
               nx == next'
    <2>1. nx = computeNextCWEdges(D, mk, next) /\ U = D \ mk /\ Left(U, edges)
          /\ \A d \in mk : getSym(d) \in mk
      BY <1>1, <1>3
    <2> HIDE DEF mk, nx, U
    <2>2. /\ Links(nx, U) /\ nx \in [DirEdge -> DirEdge \cup {NULL}]
          /\ \A d \in U : nx[d] = ccwSuccessor(starAfter(d, U), getSym(d))
      BY <1>2, <1>3, <2>1, CWLinks
    <2> QED
      BY <2>2 DEF nx
  <1>6. label' \in [DirEdge -> Int] /\ \A d \in D : label'[d] = -1
    BY <1>1, <1>2, <1>3
  <1>7. TypeInv'
    BY <1>1, <1>4, <1>6 DEF PolygonizeInv, TypeInv, TypeOK
  <1>8. Kept' = U
    BY <1>1 DEF Kept
  <1>9. \A d \in U : next'[d] \in U
    BY <1>4 DEF Links
  <1>10. LabelsFollow(label', next', U)
    BY <1>6, <1>9 DEF LabelsFollow
  <1>11. LabelsTurn(label', U)
    <2>1. \A d \in U : ccwSuccessor(starAfter(d, U), getSym(d)) \in U
      BY <1>4, <1>9
    <2> QED
      BY <1>6, <2>1 DEF LabelsTurn
  <1>12. LabelInv'
    <2>1. \A d \in marked' : label'[d] < 0
      BY <1>3, <1>6
    <2>2. maximalRings' \in Seq(Seq(U)) /\ \A i \in DOMAIN maximalRings' : maximalRings'[i][1] \in U
      BY <1>1
    <2> QED
      BY <1>1, <1>4, <1>8, <1>10, <1>11, <2>1, <2>2 DEF LabelInv
  <1>13. LinkInv'
    BY <1>4, <1>8 DEF LinkInv
  <1> QED
    BY <1>1, <1>7, <1>12, <1>13 DEF PolygonizeInv, RingInv

\* A labelled ring carries one label, around its nodes as well.
LEMMA LabellingKeepsRings ==
    ASSUME PolygonizeInv, FlagsOK', runs # 0, findLabeledEdgeRing
    PROVE  PolygonizeInv'
  <1> DEFINE ring == ringFrom(firstDirEdge(unlabelled), next)
  <1>1. FlagsOK /\ currLabel \in Nat /\ label \in [DirEdge -> Int] /\ Kept \subseteq DirEdge
    <2>1. FlagsOK /\ currLabel \in Nat /\ label \in [DirEdge -> Int]
      BY DEF PolygonizeInv, TypeInv, TypeOK
    <2> QED
      BY <2>1, KeptAreLeft
  <1>2. pc \in {"deleteCutEdges", "getEdgeRings"} /\ unlabelled # {}
        /\ ((assertFails(ring) /\ Abort) \/ labelRing(ring))
    BY DEF findLabeledEdgeRing
  <1>3. Links(next, Kept)
    BY <1>2 DEF PolygonizeInv, LinkInv
  <1>4. unlabelled \in SUBSET Kept
    BY DEF unlabelled, Kept
  <1>5. /\ RingOf(ring, next, Kept) /\ ring[1] \in Kept
        /\ ring \in Seq(Kept) /\ ToSet(ring) \subseteq Kept /\ Kept \subseteq D
    BY <1>1, <1>2, <1>3, <1>4, NewRing
  <1> HIDE DEF ring
  <1>6. CASE assertFails(ring) /\ Abort
    <2>1. pc' = "aborted" /\ UNCHANGED <<graphVars, memberVars, localVars, callVars>>
      BY <1>6 DEF Abort
    <2>2. UNCHANGED <<lines, marked, label, next, inRing, nodeStack, done, call, calls, runs,
                      ranOn, outcome, currLabel>> /\ D' = D
      BY <2>1 DEF graphVars, localVars, ringVars, callVars, D, edges
    <2>3. TypeInv'
      BY <2>1, <2>2 DEF PolygonizeInv, TypeInv, TypeOK
    <2>4. runs # 1
      <3>1. inRing # {}
        BY <1>6 DEF assertFails
      <3> QED
        BY <1>2, <3>1 DEF PolygonizeInv, RingInv
    <2> QED
      BY <2>1, <2>2, <2>3, <2>4 DEF PolygonizeInv, LinkInv, LabelInv, RingInv
  <1>7. CASE labelRing(ring)
    <2>1. UNCHANGED <<lines, marked, next, inRing, nodeStack, done, call, calls, runs, ranOn,
                      outcome, pc>>
          /\ D' = D /\ Kept' = Kept /\ currLabel' = currLabel + 1
          /\ label' = [d \in DirEdge |-> IF d \in ToSet(ring) THEN currLabel ELSE label[d]]
          /\ maximalRings' = Append(maximalRings, ring)
      BY <1>7 DEF labelRing, callVars, D, edges, Kept
    <2>2. label' \in [DirEdge -> Int] /\ currLabel' \in Nat
      BY <1>1, <2>1
    <2>3. TypeInv'
      BY <2>1, <2>2 DEF PolygonizeInv, TypeInv, TypeOK
    <2>4. \A d \in Kept : label'[d] = IF d \in ToSet(ring) THEN currLabel ELSE label[d]
      BY <1>1, <2>1
    <2>5. \A d \in marked : d \notin Kept
      BY DEF Kept
    <2>6. ASSUME pc = "getEdgeRings" PROVE LabelInv'
      <3>1. /\ \A d \in marked : label[d] < 0
            /\ LabelsFollow(label, next, Kept)
            /\ maximalRings \in Seq(Seq(Kept))
            /\ \A i \in DOMAIN maximalRings : maximalRings[i][1] \in Kept
            /\ done = 0
            /\ \A d \in Kept : next[d] = ccwSuccessor(starAfter(d, Kept), getSym(d))
        BY <1>2, <2>6 DEF PolygonizeInv, LabelInv
      <3>2. \A d \in marked : label'[d] < 0
        <4> SUFFICES ASSUME NEW d \in marked PROVE label'[d] < 0
          OBVIOUS
        <4>1. d \in DirEdge /\ d \notin ToSet(ring)
          BY <1>1, <1>5, <2>5, KeptAreLeft DEF FlagsOK
        <4> QED
          BY <2>1, <3>1, <4>1
      <3>3. LabelsFollow(label', next, Kept)
        <4> SUFFICES ASSUME NEW d \in Kept PROVE label'[next[d]] = label'[d]
          BY DEF LabelsFollow
        <4>1. next[d] \in Kept
          BY <1>3 DEF Links
        <4>2. next[d] \in ToSet(ring) <=> d \in ToSet(ring)
          BY <1>5 DEF RingOf
        <4>3. label[next[d]] = label[d]
          BY <3>1 DEF LabelsFollow
        <4> QED
          BY <2>4, <4>1, <4>2, <4>3
      <3>4. LabelsTurn(label', Kept)
        BY <3>1, <3>3 DEF LabelsTurn, LabelsFollow
      <3>5. maximalRings' \in Seq(Seq(Kept)) /\ \A i \in DOMAIN maximalRings' : maximalRings'[i][1] \in Kept
        <4> DEFINE m == maximalRings
                   q == Append(m, ring)
        <4>1. q \in Seq(Seq(Kept)) /\ DOMAIN q = 1..(Len(m) + 1) /\ Len(m) \in Nat
              /\ DOMAIN m = 1..Len(m)
          BY <1>5, <3>1
        <4>2. \A i \in 1..Len(m) : q[i] = m[i]
          BY <1>5, <3>1
        <4>3. q[Len(m) + 1] = ring
          BY <1>5, <3>1
        <4>4. ASSUME NEW i \in DOMAIN q PROVE q[i][1] \in Kept
          <5>1. i \in 1..Len(m) \/ i = Len(m) + 1
            BY <4>1
          <5> QED
            BY <1>5, <3>1, <4>1, <4>2, <4>3, <5>1
        <4> QED
          BY <2>1, <4>1, <4>4
      <3> QED
        BY <2>1, <3>1, <3>2, <3>3, <3>4, <3>5 DEF LabelInv
    <2>7. LabelInv'
      BY <2>1, <2>6 DEF LabelInv
    <2> QED
      BY <1>2, <2>1, <2>3, <2>7 DEF PolygonizeInv, LinkInv, RingInv
  <1> QED
    BY <1>2, <1>6, <1>7

\* The conversion of a maximal ring leaves rings of one label.
LEMMA ConversionKeepsRings ==
    ASSUME PolygonizeInv, FlagsOK', runs # 0, convertRing
    PROVE  PolygonizeInv'
  <1> DEFINE ring == maximalRings[done + 1]
             lab  == label[ring[1]]
  <1>1. UNCHANGED <<lines, marked, label, inRing, nodeStack, call, calls, runs, ranOn,
                    outcome, pc, currLabel, maximalRings>>
        /\ D' = D /\ Kept' = Kept /\ done' = done + 1 /\ unlabelled' = unlabelled
        /\ pc = "getEdgeRings" /\ unlabelled = {} /\ done < Len(maximalRings)
        /\ next' = convertMaximalToMinimal(ToSet(ring), lab, D, label, next)
    BY DEF convertRing, callVars, D, edges, Kept, unlabelled
  <1>2. FlagsOK /\ next \in [DirEdge -> DirEdge \cup {NULL}] /\ label \in [DirEdge -> Int] /\ done \in Nat
    BY DEF PolygonizeInv, TypeInv, TypeOK
  <1>3. Links(next, Kept)
    BY <1>1 DEF PolygonizeInv, LinkInv
  <1>4. /\ \A d \in marked : label[d] < 0
        /\ LabelsFollow(label, next, Kept) /\ LabelsTurn(label, Kept)
        /\ maximalRings \in Seq(Seq(Kept))
        /\ \A i \in DOMAIN maximalRings : maximalRings[i][1] \in Kept
    BY <1>1 DEF PolygonizeInv, LabelInv
  <1>5. ring[1] \in Kept
    BY <1>1, <1>2, <1>4
  <1> HIDE DEF ring
  <1>6. D = Dirs(edges) /\ Left(Kept, edges) /\ Kept \subseteq DirEdge
    BY <1>2, KeptAreLeft
  <1>7. lab \in Int /\ ~(lab < 0)
    BY <1>1, <1>2, <1>5, <1>6 DEF unlabelled, Kept
  <1>8. \A d \in D : label[d] = lab => d \in Kept
    BY <1>4, <1>7 DEF Kept
  <1> HIDE DEF lab
  <1>9. /\ next' \in [DirEdge -> DirEdge \cup {NULL}]
        /\ Links(next', Kept) /\ LabelsFollow(label, next', Kept)
    <2> DEFINE U  == Kept
               rs == ToSet(ring)
               cv == convertMaximalToMinimal(rs, lab, Dirs(edges), label, next)
    <2>1. next' = cv
      BY <1>1, <1>6
    <2>2. Left(U, edges) /\ LabelsTurn(label, U) /\ Links(next, U) /\ LabelsFollow(label, next, U)
          /\ \A d \in Dirs(edges) : label[d] = lab => d \in U
      BY <1>3, <1>4, <1>6, <1>8
    <2> HIDE DEF U, rs
    <2>3. /\ cv \in [DirEdge -> DirEdge \cup {NULL}]
          /\ Links(cv, U) /\ LabelsFollow(label, cv, U)
      BY <1>2, <2>2, ConversionLinks
    <2> HIDE DEF cv
    <2> QED
      BY <2>1, <2>3 DEF U
  <1>10. TypeInv'
    BY <1>1, <1>2, <1>9 DEF PolygonizeInv, TypeInv, TypeOK
  <1>11. LabelInv'
    BY <1>1, <1>2, <1>4, <1>9 DEF LabelInv
  <1> QED
    BY <1>1, <1>9, <1>10, <1>11 DEF PolygonizeInv, LinkInv, RingInv

LEMMA ConvertedKeepsRings ==
    ASSUME PolygonizeInv, FlagsOK', runs # 0, conversionDone
    PROVE  PolygonizeInv'
  <1>1. UNCHANGED <<lines, marked, label, next, inRing, nodeStack, done, call, calls, runs,
                    ranOn, outcome, currLabel>>
        /\ D' = D /\ Kept' = Kept /\ edgeRingList' = <<>>
        /\ pc = "getEdgeRings" /\ pc' = "findEdgeRings"
    BY DEF conversionDone, graphVars, callVars, D, edges, Kept
  <1>2. TypeInv'
    BY <1>1 DEF PolygonizeInv, TypeInv, TypeOK
  <1>3. runs = 1 => RingsFound'
    <2>1. Rings' = {}
      BY <1>1 DEF Rings, ToSet
    <2>2. runs = 1 => inRing = {}
      BY <1>1 DEF PolygonizeInv, RingInv
    <2> QED
      BY <1>1, <2>1, <2>2 DEF RingsFound
  <1> QED
    BY <1>1, <1>2, <1>3 DEF PolygonizeInv, LinkInv, LabelInv, RingInv

\* A new ring has no edge of the rings found before.
LEMMA FindingKeepsRings ==
    ASSUME PolygonizeInv, FlagsOK', runs # 0, findEdgeRing
    PROVE  PolygonizeInv'
  <1> DEFINE ring == ringFrom(firstDirEdge(unringed), next)
  <1>1. FlagsOK
    BY DEF PolygonizeInv, TypeInv, TypeOK
  <1>2. pc = "findEdgeRings" /\ unringed # {}
        /\ \/ assertFails(ring) /\ Abort
           \/ /\ edgeRingList' = Append(edgeRingList, ring)
              /\ inRing' = inRing \cup ToSet(ring)
              /\ UNCHANGED <<lines, marked, label, next, memberVars, nodeStack,
                             uniqueDangles, currLabel, maximalRings,
                             validEdgeRingList, done, holesOf, callVars, pc>>
    BY DEF findEdgeRing
  <1>3. Links(next, Kept)
    BY <1>2 DEF PolygonizeInv, LinkInv
  <1>4. unringed \in SUBSET Kept /\ \A d \in unringed : d \notin inRing
    BY DEF unringed, Kept
  <1>5. /\ RingOf(ring, next, Kept) /\ ring[1] \in unringed
        /\ ring \in Seq(Kept) /\ ToSet(ring) \subseteq Kept /\ Kept \subseteq D
    BY <1>1, <1>2, <1>3, <1>4, NewRing
  <1> HIDE DEF ring
  <1>6. ASSUME runs = 1
        PROVE  /\ edgeRingList \in Seq(Seq(Kept))
               /\ \A r \in Rings : RingOf(r, next, Kept)
               /\ \A d : d \in inRing <=> \E r \in Rings : d \in ToSet(r)
               /\ \A r, s \in Rings : r = s \/ ToSet(r) \cap ToSet(s) = {}
    BY <1>2, <1>6 DEF PolygonizeInv, RingInv, RingsFound
  <1>7. ASSUME runs = 1, NEW r \in Rings PROVE ToSet(ring) \cap ToSet(r) = {}
    <2>1. ring[1] \notin ToSet(r)
      BY <1>4, <1>5, <1>6, <1>7
    <2>2. RingOf(r, next, Kept)
      BY <1>6, <1>7
    <2> QED
      BY <1>5, <2>1, <2>2, RingsAreDisjoint
  <1>8. CASE assertFails(ring) /\ Abort
    <2>1. pc' = "aborted" /\ UNCHANGED <<graphVars, memberVars, localVars, callVars>>
      BY <1>8 DEF Abort
    <2>2. UNCHANGED <<lines, marked, label, next, inRing, nodeStack, done, call, calls, runs,
                      ranOn, outcome, currLabel>> /\ D' = D
      BY <2>1 DEF graphVars, localVars, ringVars, callVars, D, edges
    <2>3. TypeInv'
      BY <2>1, <2>2 DEF PolygonizeInv, TypeInv, TypeOK
    <2>4. runs # 1
      <3> SUFFICES ASSUME runs = 1 PROVE FALSE
        OBVIOUS
      <3>1. PICK i \in 2..Len(ring) : ring[i] \in inRing
        BY <1>8 DEF assertFails
      <3>2. ring[i] \in ToSet(ring)
        BY <1>5 DEF ToSet
      <3> QED
        BY <1>6, <1>7, <3>1, <3>2
    <2> QED
      BY <2>1, <2>2, <2>3, <2>4 DEF PolygonizeInv, LinkInv, LabelInv, RingInv
  <1>9. CASE ~(assertFails(ring) /\ Abort)
    <2>1. UNCHANGED <<lines, marked, label, next, nodeStack, done, call, calls, runs, ranOn,
                      outcome, pc, currLabel>>
          /\ D' = D /\ Kept' = Kept
          /\ edgeRingList' = Append(edgeRingList, ring) /\ inRing' = inRing \cup ToSet(ring)
      BY <1>2, <1>9 DEF callVars, D, edges, Kept
    <2>2. inRing' \subseteq D
      BY <1>5, <2>1 DEF PolygonizeInv, TypeInv, TypeOK
    <2>3. TypeInv'
      BY <2>1, <2>2 DEF PolygonizeInv, TypeInv, TypeOK
    <2>4. ASSUME runs = 1 PROVE RingsFound'
      <3>1. /\ edgeRingList \in Seq(Seq(Kept))
            /\ \A r \in Rings : RingOf(r, next, Kept)
            /\ \A d : d \in inRing <=> \E r \in Rings : d \in ToSet(r)
            /\ \A r, s \in Rings : r = s \/ ToSet(r) \cap ToSet(s) = {}
        BY <1>6, <2>4
      <3>2. edgeRingList' \in Seq(Seq(Kept)) /\ Rings' = Rings \cup {ring}
        <4> DEFINE m == edgeRingList
                   q == Append(m, ring)
        <4>1. q \in Seq(Seq(Kept)) /\ DOMAIN q = 1..(Len(m) + 1) /\ Len(m) \in Nat
              /\ DOMAIN m = 1..Len(m)
          BY <1>5, <3>1
        <4>2. \A i \in 1..Len(m) : q[i] = m[i]
          BY <1>5, <3>1
        <4>3. q[Len(m) + 1] = ring
          BY <1>5, <3>1
        <4>4. \A i \in 1..(Len(m) + 1) : i \in 1..Len(m) \/ i = Len(m) + 1
          BY <4>1
        <4>5. Len(m) + 1 \in 1..(Len(m) + 1) /\ \A i \in 1..Len(m) : i \in 1..(Len(m) + 1)
          BY <4>1
        <4> HIDE DEF q
        <4>6. {q[i] : i \in DOMAIN q} = {m[i] : i \in DOMAIN m} \cup {ring}
          BY <4>1, <4>2, <4>3, <4>4, <4>5
        <4>7. edgeRingList' = q
          BY <2>1 DEF q
        <4> QED
          BY <4>1, <4>6, <4>7 DEF Rings, ToSet
      <3>3. \A r \in Rings : ToSet(ring) \cap ToSet(r) = {}
        BY <1>7, <2>4
      <3>4. \A r \in Rings' : RingOf(r, next, Kept)
        BY <1>5, <3>1, <3>2
      <3>5. \A d : d \in inRing' <=> \E r \in Rings' : d \in ToSet(r)
        BY <2>1, <3>1, <3>2
      <3>6. \A r, s \in Rings' : r = s \/ ToSet(r) \cap ToSet(s) = {}
        BY <3>1, <3>2, <3>3
      <3> QED
        BY <2>1, <3>2, <3>4, <3>5, <3>6 DEF RingsFound
    <2> QED
      BY <1>2, <2>1, <2>3, <2>4 DEF PolygonizeInv, LinkInv, LabelInv, RingInv
  <1> QED
    BY <1>8, <1>9

\* Every edge is in a ring in the end.
LEMMA FoundKeepsRings ==
    ASSUME PolygonizeInv, FlagsOK', runs # 0, edgeRingsDone
    PROVE  PolygonizeInv'
  <1>1. UNCHANGED <<lines, marked, label, next, inRing, nodeStack, call, calls, runs,
                    ranOn, outcome, currLabel, edgeRingList>>
        /\ D' = D /\ Kept' = Kept /\ Rings' = Rings /\ done' = 0
        /\ pc = "findEdgeRings" /\ pc' = "findValidRings" /\ unringed = {}
    BY DEF edgeRingsDone, graphVars, callVars, D, edges, Kept, Rings
  <1>2. TypeInv'
    BY <1>1 DEF PolygonizeInv, TypeInv, TypeOK
  <1>3. Kept \subseteq inRing
    BY <1>1 DEF unringed, Kept
  <1> QED
    BY <1>1, <1>2, <1>3 DEF PolygonizeInv, LinkInv, LabelInv, RingInv, RingsFound

LEMMA ValidRingsKeepRings ==
    ASSUME PolygonizeInv, FlagsOK', runs # 0, findValidRing
    PROVE  PolygonizeInv'
  <1>1. UNCHANGED <<lines, marked, label, next, inRing, nodeStack, call, calls, runs,
                    ranOn, outcome, currLabel, edgeRingList, pc>>
        /\ D' = D /\ Kept' = Kept /\ Rings' = Rings /\ done' = done + 1
        /\ pc = "findValidRings"
    BY DEF findValidRing, graphVars, callVars, D, edges, Kept, Rings
  <1>2. TypeInv'
    BY <1>1 DEF PolygonizeInv, TypeInv, TypeOK
  <1> QED
    BY <1>1, <1>2 DEF PolygonizeInv, LinkInv, LabelInv, RingInv, RingsFound

\* What follows the rings, and an interruption, leaves them alone.
LEMMA LaterStepsKeepRings ==
    ASSUME PolygonizeInv, FlagsOK', runs # 0,
           \/ validRingsDone \/ findShellOrHole \/ shellsAndHolesDone
           \/ assignHoleToShell \/ polygonsDone \/ interrupted
    PROVE  PolygonizeInv'
  <1>1. UNCHANGED <<graphVars, nodeStack, call, calls, runs, ranOn, currLabel>> /\ D' = D
    BY DEF validRingsDone, findShellOrHole, shellsAndHolesDone, assignHoleToShell, polygonsDone,
           interrupted, graphVars, memberVars, localVars, ringVars, callVars, D, edges
  <1>2. pc \in {"findValidRings", "findShellsAndHoles", "assignHolesToShells"}
        /\ pc' \in {"findShellsAndHoles", "assignHolesToShells", "idle"}
    BY DEF validRingsDone, findShellOrHole, shellsAndHolesDone, assignHoleToShell, polygonsDone,
           interrupted, Return
  <1>3. done' \in {0, done, done + 1} /\ outcome' \in {outcome, "ok", "interrupted"}
    BY DEF validRingsDone, findShellOrHole, shellsAndHolesDone, assignHoleToShell, polygonsDone,
           interrupted, Return, localVars, ringVars, callVars
  <1>4. TypeInv'
    BY <1>1, <1>2, <1>3 DEF PolygonizeInv, TypeInv, TypeOK, graphVars
  <1> QED
    BY <1>1, <1>2, <1>4, RestKeepsRings

LEMMA NextPolygonizeInv ==
    DangleInv /\ DangleInv' /\ PolygonizeInv /\ [Next]_vars => PolygonizeInv'
  <1> SUFFICES ASSUME DangleInv, DangleInv', PolygonizeInv, [Next]_vars PROVE PolygonizeInv'
    OBVIOUS
  <1>1. FlagsOK' /\ (runs = 0 => Fresh)
    BY DEF DangleInv
  <1>2. pc # "idle" => runs # 0
    BY <1>1 DEF Fresh
  <1>3. ASSUME NEW l \in Line, add(l) PROVE PolygonizeInv'
    BY <1>1, <1>3, AddKeepsRings
  <1>4. ASSUME NEW c \in Getters, getCached(c) \/ polygonize(c) PROVE PolygonizeInv'
    BY <1>1, <1>4, CallsKeepRings
  <1>5. ASSUME NEW n \in nodeStack, deleteDangle(n) PROVE PolygonizeInv'
    <2>1. runs # 0
      BY <1>2, <1>5 DEF deleteDangle
    <2> QED
      BY <1>1, <1>5, <2>1, DanglesKeepRings
  <1>6. CASE danglesDone
    <2>1. runs # 0
      BY <1>2, <1>6 DEF danglesDone
    <2> QED
      BY <1>1, <1>6, <2>1, LinkingKeepsRings
  <1>7. CASE findLabeledEdgeRing
    <2>1. runs # 0
      BY <1>2, <1>7 DEF findLabeledEdgeRing
    <2> QED
      BY <1>1, <1>7, <2>1, LabellingKeepsRings
  <1>8. CASE deleteCutEdges
    <2>1. runs # 0
      BY <1>2, <1>8 DEF deleteCutEdges
    <2> QED
      BY <1>1, <1>8, <2>1, CutsKeepRings
  <1>9. CASE convertRing
    <2>1. runs # 0
      BY <1>2, <1>9 DEF convertRing
    <2> QED
      BY <1>1, <1>9, <2>1, ConversionKeepsRings
  <1>10. CASE conversionDone
    <2>1. runs # 0
      BY <1>2, <1>10 DEF conversionDone
    <2> QED
      BY <1>1, <1>10, <2>1, ConvertedKeepsRings
  <1>11. CASE findEdgeRing
    <2>1. runs # 0
      BY <1>2, <1>11 DEF findEdgeRing
    <2> QED
      BY <1>1, <1>11, <2>1, FindingKeepsRings
  <1>12. CASE edgeRingsDone
    <2>1. runs # 0
      BY <1>2, <1>12 DEF edgeRingsDone
    <2> QED
      BY <1>1, <1>12, <2>1, FoundKeepsRings
  <1>13. CASE findValidRing
    <2>1. runs # 0
      BY <1>2, <1>13 DEF findValidRing
    <2> QED
      BY <1>1, <1>13, <2>1, ValidRingsKeepRings
  <1>14. CASE \/ validRingsDone \/ findShellOrHole \/ shellsAndHolesDone
              \/ assignHoleToShell \/ polygonsDone \/ interrupted
    <2>1. runs # 0
      BY <1>2, <1>14 DEF validRingsDone, findShellOrHole, shellsAndHolesDone,
                         assignHoleToShell, polygonsDone, interrupted
    <2> QED
      BY <1>1, <1>14, <2>1, LaterStepsKeepRings
  <1>15. CASE UNCHANGED vars
    <2>1. UNCHANGED <<lines, marked, label, next, inRing, nodeStack, call, calls, runs, ranOn,
                      outcome, pc, done, currLabel, maximalRings, edgeRingList>>
      BY <1>15 DEF vars, graphVars, localVars, ringVars, callVars
    <2>2. D' = D /\ Kept' = Kept /\ Rings' = Rings /\ unlabelled' = unlabelled
      BY <2>1 DEF D, edges, Kept, Rings, unlabelled
    <2>3. TypeInv'
      BY <1>1, <2>1, <2>2 DEF PolygonizeInv, TypeInv, TypeOK
    <2> QED
      BY <2>1, <2>2, <2>3 DEF PolygonizeInv, LinkInv, LabelInv, RingInv, RingsFound
  <1> QED
    BY <1>3, <1>4, <1>5, <1>6, <1>7, <1>8, <1>9, <1>10, <1>11, <1>12, <1>13, <1>14, <1>15
       DEF Next, Step, deleteDangles

\* The rings found partition the edges.
LEMMA FoundRingsPartition == PolygonizeInv => EdgesInOneRing
  <1> SUFFICES ASSUME PolygonizeInv, pc = "findValidRings", runs = 1
               PROVE  /\ \A d \in Kept : Cardinality({r \in Rings : d \in ToSet(r)}) = 1
                      /\ \A r \in Rings :
                            /\ ToSet(r) \subseteq Kept
                            /\ \A i \in DOMAIN r : getToNode(r[i]) = getFromNode(r[(i % Len(r)) + 1])
                            /\ \A i, j \in DOMAIN r : r[i] = r[j] => i = j
    BY DEF EdgesInOneRing, Kept
  <1>1. /\ \A r \in Rings : RingOf(r, next, Kept)
        /\ \A d : d \in inRing <=> \E r \in Rings : d \in ToSet(r)
        /\ \A r, s \in Rings : r = s \/ ToSet(r) \cap ToSet(s) = {}
        /\ Kept \subseteq inRing
    BY DEF PolygonizeInv, RingInv, RingsFound
  <1>2. Links(next, Kept)
    BY DEF PolygonizeInv, LinkInv
  <1>3. ASSUME NEW d \in Kept PROVE Cardinality({r \in Rings : d \in ToSet(r)}) = 1
    <2>1. PICK r \in Rings : d \in ToSet(r)
      BY <1>1
    <2>2. \A s \in Rings : d \in ToSet(s) => s = r
      BY <1>1, <2>1
    <2>3. {s \in Rings : d \in ToSet(s)} = {r}
      BY <2>1, <2>2
    <2> QED
      BY <2>3, FS_Singleton
  <1>4. ASSUME NEW r \in Rings
        PROVE  /\ ToSet(r) \subseteq Kept
               /\ \A i \in DOMAIN r : getToNode(r[i]) = getFromNode(r[(i % Len(r)) + 1])
               /\ \A i, j \in DOMAIN r : r[i] = r[j] => i = j
    <2>1. /\ r \in Seq(Kept)
          /\ \A i \in DOMAIN r : next[r[i]] = r[(i % Len(r)) + 1]
          /\ \A i, j \in DOMAIN r : r[i] = r[j] => i = j
      BY <1>1 DEF RingOf
    <2>2. \A i \in DOMAIN r : r[i] \in Kept
      BY <2>1
    <2>3. \A i \in DOMAIN r : getFromNode(next[r[i]]) = getToNode(r[i])
      BY <1>2, <2>2 DEF Links
    <2> QED
      BY <2>1, <2>2, <2>3 DEF ToSet
  <1> QED
    BY <1>3, <1>4

-----------------------------------------------------------------------------
\* Every variable keeps its shape, through every run and interruption: no pointer,
\* label or flag is ever set for a directed edge that the graph does not have.
THEOREM TypeCorrect == Spec => []TypeOK
  <1>1. PolygonizeInv => TypeOK
    BY DEF PolygonizeInv, TypeInv
  <1> QED
    BY <1>1, InitDangleInv, NextDangleInv, InitPolygonizeInv, NextPolygonizeInv, PTL DEF Spec

\* The rings of getEdgeRings are closed walks that partition the directed edges
\* that were not deleted, for every set of lines.
THEOREM RingsCorrect == Spec => []EdgesInOneRing
  BY InitDangleInv, NextDangleInv, InitPolygonizeInv, NextPolygonizeInv, FoundRingsPartition, PTL
     DEF Spec

\* The first run meets no failing assertion: no walk of findDirEdgesInRing runs into
\* an edge that is in a ring already.
THEOREM AssertionsHold == Spec => [](runs = 1 => pc # "aborted")
  <1>1. PolygonizeInv => (runs = 1 => pc # "aborted")
    BY DEF PolygonizeInv, RingInv
  <1> QED
    BY <1>1, InitDangleInv, NextDangleInv, InitPolygonizeInv, NextPolygonizeInv, PTL DEF Spec
=============================================================================
