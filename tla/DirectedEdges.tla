--------------------------- MODULE DirectedEdges ---------------------------
(***************************************************************************)
(* The immutable part of the planar graphs of geos::planargraph: a line    *)
(* gives two directed edges, one per direction, each leaving the node at   *)
(* its start; the edges that leave a node are kept in CCW order by the     *)
(* direction of their first segment (DirectedEdgeStar).  The polygonizer,  *)
(* the line merger and the sequencer build their edges this way.           *)
(*                                                                         *)
(* Coordinates are integers, so the sign of a determinant is exact.  Lines *)
(* are numbered in the order in which they are handed to the graph.        *)
(***************************************************************************)
EXTENDS RingGeometry

CONSTANTS Line,     \* identifiers of the input LineStrings
          Pts       \* Pts[l]: the coordinates of line l

ASSUME LineAssumption == Line \subseteq Nat /\ IsFiniteSet(Line)
ASSUME PtsAssumption  == Pts \in [Line -> Seq(Int \X Int)]

LinePts == [l \in Line |-> removeRepeatedPoints(Pts[l])]

\* The lines a graph takes: addEdge drops the empty and the collapsed ones.
IsUsable(l) == Len(LinePts[l]) >= 2

-----------------------------------------------------------------------------
(* A directed edge is a line and the direction it is followed in.          *)
DirEdge == Line \X BOOLEAN

Dirs(ls) == ls \X BOOLEAN

LinesOf(ds) == {d[1] : d \in ds}

getSym(d) == <<d[1], ~d[2]>>

\* A node is its coordinate: NodeMap keys nodes by coordinate.
getFromNode(d) == IF d[2] THEN Head(LinePts[d[1]]) ELSE Last(LinePts[d[1]])

getToNode(d) == getFromNode(getSym(d))

getDirectionPt(d) ==
    LET p == LinePts[d[1]] IN IF d[2] THEN p[2] ELSE p[Len(p) - 1]

outEdges(n, D) == {d \in D : getFromNode(d) = n}

Nodes(D) == {getFromNode(d) : d \in D}

getDegree(n, D) == Cardinality(outEdges(n, D))

-----------------------------------------------------------------------------
(* The CCW order of a star.                                                *)
getQuadrant(d) == LET p == getFromNode(d)
                      q == getDirectionPt(d)
                  IN  quadrant(q[1] - p[1], q[2] - p[2])

compareDirection(d, e) ==
    IF getQuadrant(d) # getQuadrant(e)
    THEN Sign(getQuadrant(d) - getQuadrant(e))
    ELSE orientationIndex(getFromNode(e), getDirectionPt(e), getDirectionPt(d))

\* The order of a star after sortEdges.  std::sort leaves the order of edges in
\* the same direction open; here the line added first comes first.
pdeLessThan(d, e) ==
    \/ compareDirection(d, e) < 0
    \/ compareDirection(d, e) = 0 /\ (d[1] < e[1] \/ (d[1] = e[1] /\ d[2] /\ ~e[2]))

sortEdges(S) == SortSet(S, pdeLessThan)

\* The first and the last edge of a star.
front(S) == CHOOSE d \in S : \A e \in S \ {d} : pdeLessThan(d, e)

back(S) == CHOOSE d \in S : \A e \in S \ {d} : pdeLessThan(e, d)

=============================================================================
