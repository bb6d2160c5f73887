--------------------------- MODULE MCPolygonizer ----------------------------
(***************************************************************************)
(* Linework for the Polygonizer, and the reference definitions its results *)
(* are compared with.  Vertices have even coordinates and segments are     *)
(* axis-parallel, so the points with odd coordinates are the centres of    *)
(* the cells of a grid and a flood fill tells which of them are enclosed.  *)
(***************************************************************************)
EXTENDS Polygonizer

CONSTANT Districts    \* the plans of which one is polygonized

\* A square cut in two by a chord, an island in its lower half, a loop hanging
\* on a bridge, and a dangling path of two lines.
Town == <<
    << <<0,6>>, <<0,8>>, <<8,8>>, <<8,6>> >>,
    << <<8,6>>, <<8,0>>, <<0,0>>, <<0,6>> >>,
    << <<0,6>>, <<8,6>> >>,
    << <<2,2>>, <<4,2>>, <<4,4>>, <<2,4>>, <<2,2>> >>,
    << <<8,6>>, <<10,6>>, <<10,6>> >>,
    << <<10,6>>, <<12,6>>, <<12,8>>, <<10,8>>, <<10,6>> >>,
    << <<0,6>>, <<-2,6>> >>,
    << <<-2,6>>, <<-2,8>> >> >>

\* An L-shaped ring; a ring inside it that touches it at the reflex corner;
\* an island inside that one; an island beside it, made of two lines.
Nest == <<
    << <<6,6>>, <<6,12>>, <<-2,12>>, <<-2,-2>>, <<14,-2>>, <<14,6>>, <<6,6>> >>,
    << <<6,6>>, <<0,6>>, <<0,0>>, <<6,0>>, <<6,6>> >>,
    << <<2,2>>, <<4,2>>, <<4,4>>, <<2,4>>, <<2,2>> >>,
    << <<8,0>>, <<12,0>>, <<12,4>> >>,
    << <<8,0>>, <<8,4>>, <<12,4>> >> >>

\* A ring of two lines with a dangle, a closed line that crosses itself and a
\* line that collapses to a point.
Yard == <<
    << <<0,0>>, <<0,4>>, <<4,4>> >>,
    << <<4,4>>, <<4,0>>, <<0,0>> >>,
    << <<4,4>>, <<6,4>> >>,
    << <<8,2>>, <<12,2>>, <<12,6>>, <<10,6>>, <<10,0>>, <<8,0>>, <<8,2>> >>,
    << <<4,4>>, <<4,4>> >> >>

\* The lines of all plans, one plan after the other.
Picture == Town \o Nest \o Yard
MCLine  == 1..Len(Picture)
MCPts   == [l \in MCLine |-> Picture[l]]

MCDistricts == {1..8, 9..13, 14..18}
MCYard == {14..18}

\* The lines belong to one plan; only in the yard, whose rings may be invalid,
\* are there two calls.
OnePlan == /\ \E plan \in Districts : lines \subseteq plan
           /\ calls = 2 => \A l \in lines : l > 13
MCSpec  == Init /\ [][Next /\ OnePlan']_vars /\ WF_vars(deleteDangles)

-----------------------------------------------------------------------------
(* Reference definitions.                                                  *)

\* The nodes that can be reached from n along the lines ls.
ReachableNodes(n, ls) ==
    LET reach[k \in Nat] ==
            IF k = 0 THEN {n}
            ELSE LET prev == reach[k - 1]
                 IN  prev \cup {getToNode(d) :
                                   d \in {e \in Dirs(ls) : getFromNode(e) \in prev}}
    IN  reach[Cardinality(ls)]

Bridges(ls) == {l \in ls :
    getToNode(<<l, TRUE>>) \notin ReachableNodes(getFromNode(<<l, TRUE>>), ls \ {l})}

Xs == {p[1] : p \in UNION {ToSet(Picture[l]) : l \in MCLine}}
Ys == {p[2] : p \in UNION {ToSet(Picture[l]) : l \in MCLine}}
Span(S) == ((CHOOSE x \in S : \A y \in S : x <= y) - 1) .. ((CHOOSE x \in S : \A y \in S : x >= y) + 1)
Cells == {c \in Span(Xs) \X Span(Ys) : c[1] % 2 = 1 /\ c[2] % 2 = 1}

\* Walls[c][l]: the cells next to cell c that line l separates from it.
Near(c) == {<<c[1] + 2, c[2]>>, <<c[1] - 2, c[2]>>,
            <<c[1], c[2] + 2>>, <<c[1], c[2] - 2>>} \cap Cells
Walls == [c \in Cells |-> [l \in MCLine |->
             {d \in Near(c) : \E i \in 1..(Len(Picture[l]) - 1) :
                 hasIntersection(c, d, Picture[l][i], Picture[l][i + 1])}]]

\* The cells next to each cell that no line of ls separates from it.
Open(ls) == Table([c \in Cells |-> Near(c) \ UNION {Walls[c][l] : l \in ls}])

\* The cells a flood from the lower left corner reaches without crossing a line.
Outside(open) ==
    LET corner == <<CHOOSE x \in Span(Xs) : \A y \in Span(Xs) : x <= y,
                    CHOOSE x \in Span(Ys) : \A y \in Span(Ys) : x <= y>>
    IN  FoldLeft(LAMBDA reached, i : UNION ({reached} \cup {open[c] : c \in reached}),
                 {corner}, [i \in 1..Cardinality(Cells) |-> i])

\* Euler's formula: the number of bounded faces of the noded lines ls.
FaceCount(ls) ==
    LET ns == Nodes(Dirs(ls))
    IN  Cardinality(ls) - Cardinality(ns) + Cardinality({ReachableNodes(n, ls) : n \in ns})

\* The polygons ps are the bounded faces of the lines ls, each of them once:
\* there are as many, none is empty, every enclosed cell and no other is in one
\* polygon, and only a line separates two polygons.
Tiles(ps, ls) ==
    LET open == Open(ls)
        out  == Outside(open)
        cover(ring) == {c \in Cells : isPointInRing(c, getCoordinates(ring))}
        area == Table([i \in DOMAIN ps |->
                   cover(ps[i].shell) \ UNION {cover(h) : h \in ps[i].holes}])
        inside == Table([c \in Cells |-> {i \in DOMAIN ps : c \in area[i]}])
    IN  /\ Len(ps) = FaceCount(ls)
        /\ {} \notin ToSet(area)
        /\ \A c \in Cells : /\ Cardinality(inside[c]) = IF c \in out THEN 0 ELSE 1
                            /\ \A d \in open[c] : inside[d] = inside[c]

-----------------------------------------------------------------------------
\* On noded linework deleteCutEdges removes exactly the bridges of what
\* deleteDangles left, found there as edges with one ring label on both sides.
CutEdgesAreTheBridges ==
    (pc = "getEdgeRings" /\ runs = 1) =>
        \A l \in Line : cutEdges[l] =
            IF l \in Bridges(edges \ uniqueDangles) THEN 1 ELSE 0

\* The lines whose rings were not set aside as invalid.
ValidEdges == edges \ UNION {LinesOf(ToSet(r)) : r \in ToSet(invalidRingLines)}

\* The polygons about to be returned are exactly the bounded regions into which
\* the linework cuts the plane: no face is lost, split or doubled, and every
\* hole went to the shell that immediately surrounds it.
PolygonsTileTheEnclosedArea ==
    (pc = "assignHolesToShells" /\ done = Len(holeList) /\ runs = 1) =>
        Tiles([i \in DOMAIN shellList |-> getPolygon(shellList[i])], ValidEdges)

\* What a getter leaves for the next one, and what getPolygons() returns, is the
\* complete result of the only run, as long as that run ended and no line was
\* added since: an early return never hides, empties or replaces it.
ResultsComplete ==
    (pc = "idle" /\ runs = 1 /\ outcome = "ok" /\ ranOn = lines) =>
        Tiles(IF polyList # NULL THEN polyList ELSE ret, ValidEdges)

\* Polygonizer.h: polygonize() is to "perform the polygonization, if it has not
\* already been carried out".  It is not carried out again, over the labels and rings
\* of a run that was, and no getter returns what an interrupted run left.
PerformedOnce ==
    [][/\ runs' # runs => ~(runs > 0 /\ outcome = "ok" /\ ranOn = lines)
       /\ (calls' # calls /\ pc' = "idle") => outcome # "interrupted"]_vars
=============================================================================
