---------------------------- MODULE MCOverlayOp -----------------------------
(***************************************************************************)
(* Arguments for OverlayOp, RelateComputer, IsValidOp and BufferBuilder,   *)
(* which work on the same graphs, and for RectangleIntersection and        *)
(* UnaryUnionOp, which do without; and the reference their results are     *)
(* compared with.  A behaviour computes an overlay, a relation or a        *)
(* buffer, checks a geometry, clips one, or unites a collection.           *)
(* Vertices have even coordinates and segments are axis-parallel: the      *)
(* points with integer coordinates then stand for the vertices, unit edges *)
(* and cells of a grid, and a geometry is a set of those.                  *)
(***************************************************************************)
EXTENDS IsValidOp, BufferBuilder

CONSTANT Clipped

VARIABLES isolated, proper, im,   \* of RelateComputer
          pending, cut, holeIndex, parts, toParts, openRing, shells,   \* of RectangleIntersection
          cascade, unionPoints, unionLines, unionPolygons, ret,   \* of UnaryUnionOp
          operation               \* the operation of this behaviour

-----------------------------------------------------------------------------
(* Geometries and parameters for BufferBuilder, and the buffer that its     *)
(* result is compared with: the points near a side of the geometry.  All    *)
(* vertices and distances are multiples of 4, and the points looked at lie  *)
(* on no line that a curve can run along.                                   *)

oneBox(x, y, w, h) == << <<x, y>>, <<x, y + h>>, <<x + w, y + h>>, <<x + w, y>>, <<x, y>> >>
geometry(ps, ls, qs) == [polys |-> ps, lines |-> ls, points |-> qs, multi |-> Len(ps) > 1, floating |-> TRUE]
onePolygon(shell, holes) == [shell |-> shell, holes |-> holes]

BufferedAreas == {geometry(ps, <<>>, <<>>) : ps \in {
    <<onePolygon(oneBox(0, 0, 16, 8), <<>>)>>,
    <<onePolygon(oneBox(0, 0, 24, 24), <<oneBox(8, 8, 8, 8)>>)>>,
    \* an island in a wide hole; boxes apart and boxes that overlap
    <<onePolygon(oneBox(0, 0, 32, 32), <<oneBox(4, 4, 24, 24)>>), onePolygon(oneBox(12, 12, 8, 8), <<>>)>>,
    <<onePolygon(oneBox(0, 0, 8, 8), <<>>), onePolygon(oneBox(12, 12, 8, 8), <<>>)>>,
    <<onePolygon(oneBox(0, 0, 12, 12), <<>>), onePolygon(oneBox(8, 8, 12, 12), <<>>)>>,
    \* a C whose mouth is narrower than its inside
    <<onePolygon(<< <<0,0>>, <<0,32>>, <<32,32>>, <<32,20>>, <<28,20>>, <<28,28>>, <<4,28>>, <<4,4>>,
                    <<28,4>>, <<28,12>>, <<32,12>>, <<32,0>>, <<0,0>> >>, <<>>)>>,
    \* two boxes with a neck between, stairs, and a box with an arm to the right
    <<onePolygon(<< <<0,0>>, <<0,16>>, <<16,16>>, <<16,12>>, <<24,12>>, <<24,20>>, <<40,20>>, <<40,0>>,
                    <<24,0>>, <<24,4>>, <<16,4>>, <<16,0>>, <<0,0>> >>, <<>>)>>,
    <<onePolygon(<< <<0,0>>, <<0,12>>, <<4,12>>, <<4,8>>, <<8,8>>, <<8,4>>, <<12,4>>, <<12,0>>, <<0,0>> >>,
                 <<>>)>>,
    <<onePolygon(<< <<0,0>>, <<0,24>>, <<20,24>>, <<20,16>>, <<36,16>>, <<36,8>>, <<20,8>>, <<20,0>>,
                    <<0,0>> >>, <<>>)>>}}

\* Lines that turn, come close to themselves, close, run back, climb and cross.
BufferedLines == {geometry(<<>>, ls, <<>>) : ls \in {
    << << <<0,0>>, <<16,0>>, <<16,16>> >> >>,
    << << <<0,0>>, <<16,0>>, <<16,8>>, <<0,8>> >> >>,
    << << <<0,0>>, <<16,0>>, <<16,16>>, <<0,16>>, <<0,0>> >> >>,
    << << <<0,0>>, <<16,0>>, <<8,0>> >> >>,
    << << <<0,0>>, <<4,0>>, <<4,4>>, <<8,4>>, <<8,8>>, <<12,8>> >> >>,
    << << <<0,8>>, <<20,8>> >>, << <<8,0>>, <<8,20>> >> >>}}
BufferedPoints == {geometry(<<>>, <<>>, << <<0,0>>, <<12,0>> >>)}

parameters(distances, caps, singleSides) ==
    [distance : distances, cap : caps, join : {"mitre", "bevel"}, singleSided : singleSides]
MCBuffered ==
    (BufferedAreas \X parameters({-8, -4, 0, 4, 8}, {"flat"}, {FALSE}))
      \cup ((BufferedLines \cup BufferedPoints) \X parameters({-4, 4, 8}, {"flat", "square"}, {FALSE}))
      \cup (BufferedLines \X parameters({-4, 4, 8}, {"flat"}, {TRUE}))

-----------------------------------------------------------------------------
Samples == {<<4 * a + 1, 4 * b + 2>> : a \in -4..12, b \in -4..10}

\* Inside of rings, by a ray upwards.
crossesUp(x, p, q) ==
    /\ (p[1] > x[1]) # (q[1] > x[1])
    /\ orientationIndex(IF p[1] < q[1] THEN p ELSE q, IF p[1] < q[1] THEN q ELSE p, x) < 0
insideOf(x, rs) ==
    Cardinality({s \in {<<r, i>> : r \in DOMAIN rs, i \in 1..30} :
        s[2] < Len(rs[s[1]]) /\ crossesUp(x, rs[s[1]][s[2]], rs[s[1]][s[2] + 1])}) % 2 = 1

\* How far x is along the direction from p to q, and to the left of it, from o.
along(x, o, p, q) == (x[1] - o[1]) * Sign(q[1] - p[1]) + (x[2] - o[2]) * Sign(q[2] - p[2])
leftOf(x, o, p, q) == (x[2] - o[2]) * Sign(q[1] - p[1]) - (x[1] - o[1]) * Sign(q[2] - p[2])

besideSegment(x, p, q, d) ==
    along(x, p, p, q) > 0 /\ along(x, q, q, p) > 0 /\ Abs(leftOf(x, p, p, q)) < d
\* whether x is in the corner outside the turn p, v, q
inCorner(x, p, v, q, d) ==
    LET a == along(x, v, p, v)
        b == along(x, v, q, v)
    IN  /\ orientationIndex(p, v, q) # 0 /\ a > 0 /\ b > 0
        /\ IF bufParams.join = "mitre" THEN a < d /\ b < d ELSE a + b < d
pastEnd(x, p, q, d) == along(x, q, p, q) > 0 /\ along(x, q, p, q) < d /\ Abs(leftOf(x, p, p, q)) < d

inPolygon(x, p) == insideOf(x, <<p.shell>>) /\ \A h \in ToSet(p.holes) : ~insideOf(x, <<h>>)

\* Whether x is near the ring r of polygon p; a corner counts if it is in the
\* polygon, or if it is not.
nearRing(x, r, p, d, cornersIn) ==
    LET n == Len(r) - 1
        at(i) == r[(i % n) + 1]
        cornerOf(i) == << at(i)[1] + Sign(at(i)[1] - at(i + n - 1)[1]) + Sign(at(i)[1] - at(i + 1)[1]),
                          at(i)[2] + Sign(at(i)[2] - at(i + n - 1)[2]) + Sign(at(i)[2] - at(i + 1)[2]) >>
    IN  \/ \E i \in 1..n : besideSegment(x, r[i], r[i + 1], d)
        \/ \E i \in 1..n : /\ inCorner(x, at(i + n - 1), at(i), at(i + 1), d)
                           /\ inPolygon(cornerOf(i), p) = cornersIn

nearLine(x, l, d) ==
    LET n == Len(l)
        counts(p, q) == bufParams.singleSided => distance * leftOf(x, p, p, q) > 0
    IN  \/ \E i \in 1..(n - 1) : besideSegment(x, l[i], l[i + 1], d) /\ counts(l[i], l[i + 1])
        \/ \E i \in 2..(n - 1) : inCorner(x, l[i - 1], l[i], l[i + 1], d) /\ counts(l[i], l[i + 1])
        \/ bufParams.cap = "square" /\ (pastEnd(x, l[n - 1], l[n], d) \/ pastEnd(x, l[2], l[1], d))

inBuffer(x, g) ==
    LET d == Abs(distance)
        near(p, cornersIn) == \E r \in ToSet(polyRings(p)) : nearRing(x, r, p, d, cornersIn)
    IN  \/ \E p \in ToSet(g.polys) : IF distance < 0 THEN inPolygon(x, p) /\ ~near(p, TRUE)
                                                     ELSE inPolygon(x, p) \/ near(p, FALSE)
        \/ /\ distance > 0 \/ bufParams.singleSided
           /\ \E l \in ToSet(g.lines) : nearLine(x, l, d)
        \/ /\ distance > 0 /\ bufParams.cap = "square"
           /\ \E q \in ToSet(g.points) : Abs(x[1] - q[1]) < d /\ Abs(x[2] - q[2]) < d

\* A buffer is the set of points near the geometry: each point within the
\* distance, and no other, is in exactly one polygon of the result, the rings of
\* the result are simple, and no depths contradict each other, wherever the
\* traversal of a subgraph starts and however the curves lie in each other.
BufferIsExact ==
    /\ bufParams # NULL => error = NULL
    /\ (bufParams # NULL /\ pc = "buffered") =>
         \E polys \in {resultPolyList} :
           /\ \A x \in Samples :
                Cardinality({k \in DOMAIN polys : locateInPolygon(x, polys[k]) = INTERIOR})
                  = (IF inBuffer(x, args[1]) THEN 1 ELSE 0)
           /\ \A p \in ToSet(polys) : \A ring \in ToSet(polyRings(p)) : isValidRing(ring)

-----------------------------------------------------------------------------
(* Geometries and rectangles for RectangleIntersection.  Vertices have      *)
(* coordinates divisible by 4 and segments run along an axis or at 45       *)
(* degrees, so that every crossing with a rectangle is a point with         *)
(* integer coordinates, and the integer points stand for all parts of the   *)
(* plane.                                                                   *)

Clipping == INSTANCE RectangleIntersection

scaled(path) == [i \in DOMAIN path |-> <<4 * path[i][1], 4 * path[i][2]>>]
polygonOf(shell, holes) == [shell |-> scaled(shell), holes |-> [h \in DOMAIN holes |-> scaled(holes[h])]]
toClip(ps, ls, qs) == [polys |-> ps, lines |-> [k \in DOMAIN ls |-> scaled(ls[k])], points |-> scaled(qs)]

\* Notches on three sides, clockwise, with a hole that touches the notch; the
\* same counterclockwise, with holes of both orientations.
Notched == << <<0,0>>, <<0,2>>, <<1,3>>, <<0,4>>, <<0,5>>, <<2,5>>, <<3,4>>, <<4,5>>, <<5,5>>, <<5,0>>,
              <<3,0>>, <<3,1>>, <<2,1>>, <<2,0>>, <<0,0>> >>
Star    == << <<2,0>>, <<3,1>>, <<5,1>>, <<4,2>>, <<5,3>>, <<3,3>>, <<2,4>>, <<1,3>>, <<0,3>>, <<0,1>>,
              <<1,1>>, <<2,0>> >>
ClippedAreas == {
    <<polygonOf(Notched, << << <<1,1>>, <<1,2>>, <<2,1>>, <<1,1>> >>, << <<2,3>>, <<3,4>>, <<4,3>>, <<3,2>>, <<2,3>> >> >>)>>,
    <<polygonOf(Reverse(Notched), << << <<1,2>>, <<2,3>>, <<3,3>>, <<3,2>>, <<1,2>> >> >>)>>,
    <<polygonOf(Star, << << <<1,2>>, <<2,3>>, <<3,2>>, <<2,1>>, <<1,2>> >> >>)>>,
    \* a wide frame, a triangle in it, and one next to it
    <<polygonOf(<< <<0,0>>, <<0,5>>, <<4,5>>, <<4,0>>, <<0,0>> >>, << << <<1,1>>, <<3,1>>, <<3,4>>, <<1,4>>, <<1,1>> >> >>),
      polygonOf(<< <<2,2>>, <<3,3>>, <<2,3>>, <<2,2>> >>, <<>>),
      polygonOf(<< <<5,3>>, <<4,4>>, <<5,5>>, <<5,3>> >>, <<>>)>>}
MixedParts ==
    toClip(<<>>,
        << << <<0,2>>, <<2,4>>, <<4,2>>, <<2,0>>, <<0,2>> >>, << <<0,0>>, <<5,5>> >>,
           << <<1,1>>, <<1,4>>, <<3,4>>, <<3,5>>, <<5,5>>, <<5,1>>, <<4,1>>, <<3,1>>, <<4,0>> >>,
           << <<4,2>>, <<4,3>>, <<2,3>>, <<3,2>> >> >>,
        << <<2,2>>, <<3,4>>, <<1,3>>, <<1,3>> >>)

Rectangles == {[xmin |-> x[1], xmax |-> x[2], ymin |-> y[1], ymax |-> y[2]] :
                 x, y \in {s \in {2, 4, 6, 10, 14, 16, 20} \X {2, 4, 6, 10, 14, 16, 20} : s[1] < s[2]}}
cornersOf(r) == {r.xmin, r.xmax} \X {r.ymin, r.ymax}

onPath(x, path) ==
    \E i \in 1..(Len(path) - 1) :
        /\ orientationIndex(path[i], path[i + 1], x) = 0
        /\ (x[1] - path[i][1]) * (x[1] - path[i + 1][1]) <= 0
        /\ (x[2] - path[i][2]) * (x[2] - path[i + 1][2]) <= 0
ringsIn(ps) == UNION {{ps[k].shell} \cup ToSet(ps[k].holes) : k \in DOMAIN ps}

\* isAhead takes a point on the same edge to be ahead although the ring has to go
\* round, if one of the two is a corner: rectangles with a corner and another
\* point of an edge there on the rings of a polygon are left out.
borderOf(r) == {x \in (r.xmin..r.xmax) \X (r.ymin..r.ymax) : x[1] \in {r.xmin, r.xmax} \/ x[2] \in {r.ymin, r.ymax}}
isCornered(ps, r) ==
    \E on \in {{x \in borderOf(r) : \E path \in ringsIn(ps) : onPath(x, path)}} :
        \E v \in on \cap cornersOf(r), x \in on : x # v /\ (x[1] = v[1] \/ x[2] = v[2])
Area(ps) == toClip(ps, <<>>, <<>>)
MCClipped ==
    {c \in {Area(ps) : ps \in ClippedAreas} \X Rectangles \X {TRUE} : ~isCornered(c[1].polys, c[2])}
      \cup ({Area(ps) : ps \in ClippedAreas} \X Rectangles \X {FALSE})
      \cup ({MixedParts} \X Rectangles \X {TRUE})

Lattice == (0..20) \X (0..20)

\* In or on a ring of an odd number.
inRings(x, rs) ==
    (\E r \in rs : onPath(x, r)) \/
    Cardinality({s \in UNION {{<<r, i>> : i \in 1..(Len(r) - 1)} : r \in rs} :
                    crossesUp(x, s[1][s[2]], s[1][s[2] + 1])}) % 2 = 1

CoveredBy == [ps \in ClippedAreas |-> {x \in Lattice : \E k \in DOMAIN ps : inRings(x, ringsIn(<<ps[k]>>))}]
Outlines  == [ps \in ClippedAreas |-> {x \in Lattice : \E r \in ringsIn(ps) : onPath(x, r)}]
LinePoints == {x \in Lattice : \E l \in ToSet(MixedParts.lines) : onPath(x, l)}

\* What is clipped is what lies inside the rectangle: strictly within it the
\* result has exactly the points of the polygons (or of their rings, if it is
\* their boundaries that are clipped), of the lines and of the points that are in
\* the argument; no part of it lies outside, its polygons do not overlap, and
\* their rings can be constructed.
ClipIsTheInside ==
    pc = "clipped" =>
        LET within == {x \in Lattice : Clipping!isInside(x)}
            g == args[1]
            polygons == toParts.polygons
            onLines(x) == \E l \in ToSet(toParts.lines) : onPath(x, l)
        IN  /\ IF ~Clipping!keepPolygons
               THEN Outlines[g.polys] \cap within
                      = {x \in within : onLines(x) \/ \E r \in ringsIn(polygons) : onPath(x, r)}
               ELSE IF g.polys # <<>>
               THEN /\ CoveredBy[g.polys] \cap within
                         = {x \in within : \E k \in DOMAIN polygons : inRings(x, ringsIn(<<polygons[k]>>))}
                    /\ toParts.lines = <<>>
               ELSE LinePoints \cap within = {x \in within : onLines(x)}
            /\ Clipping!keepPolygons => \A x \in within : Cardinality({k \in DOMAIN polygons :
                   inRings(x, ringsIn(<<polygons[k]>>)) /\ \A r \in ringsIn(<<polygons[k]>>) : ~onPath(x, r)}) <= 1
            /\ toParts.points = SelectSeq(g.points, Clipping!isInside)
            /\ \A path \in ToSet(toParts.lines) \cup ringsIn(polygons) :
                   Len(path) > 1 /\ \A x \in ToSet(path) : ~Clipping!isOutside(x)
            /\ \A r \in ringsIn(polygons) : Len(r) >= 4 /\ Head(r) = Last(r)

-----------------------------------------------------------------------------
(* Arguments of the other operations.                                      *)

Box(x, y, w, h) == << <<x, y>>, <<x, y + h>>, <<x + w, y + h>>, <<x + w, y>>, <<x, y>> >>
Areal(ps)  == [polys |-> ps, lines |-> <<>>, points |-> <<>>, multi |-> Len(ps) > 1, floating |-> TRUE]
Lineal(ls) == [polys |-> <<>>, lines |-> ls, points |-> <<>>, multi |-> FALSE, floating |-> TRUE]
Puntal(ps) == [polys |-> <<>>, lines |-> <<>>, points |-> ps, multi |-> FALSE, floating |-> TRUE]

\* A square with a square hole.
Frame == Areal(<< [shell |-> Box(0, 0, 10, 10), holes |-> <<Box(2, 2, 6, 6)>>] >>)
\* An L that shares edges with the frame, counterclockwise.
Ell == Areal(<< [shell |-> Reverse(<< <<2,2>>, <<2,10>>, <<6,10>>, <<6,6>>, <<10,6>>, <<10,2>>,
                                      <<2,2>> >>), holes |-> <<>>] >>)
\* An island in the hole of the frame, and a box in one of its corners.
Pair == Areal(<< [shell |-> Box(4, 4, 2, 2), holes |-> <<>>],
                 [shell |-> Reverse(Box(8, 8, 2, 2)), holes |-> <<>>] >>)
\* A line across the frame, one along the hole, and a closed one that
\* crosses itself.
Track == Lineal(<< << <<-2,4>>, <<10,4>>, <<10,0>> >>, << <<8,-2>>, <<8,6>> >>,
                   << <<0,0>>, <<6,0>>, <<6,2>>, <<4,2>>, <<4,-2>>, <<0,-2>>, <<0,0>> >> >>)
\* Points in the hole, on corners, on edges and outside, one of them twice.
Marks == Puntal(<< <<4,4>>, <<10,10>>, <<8,4>>, <<8,4>>, <<0,2>>, <<-2,10>>, <<4,2>> >>)

\* Two boxes that touch at a corner.
Corner == Areal(<< [shell |-> Box(0, 0, 4, 4), holes |-> <<>>],
                   [shell |-> Box(4, 4, 4, 4), holes |-> <<>>] >>)
\* A hole that touches the shell with a corner, and a second hole that touches
\* the first.
Chain == Areal(<< [shell |-> << <<0,0>>, <<0,8>>, <<4,8>>, <<4,6>>, <<8,6>>, <<8,0>>, <<0,0>> >>,
                   holes |-> << << <<4,4>>, <<2,4>>, <<2,6>>, <<4,6>>, <<4,4>> >>,
                                << <<6,4>>, <<6,2>>, <<4,2>>, <<4,4>>, <<6,4>> >> >>] >>)
\* A box that cuts the holes of the chain.
Cutter == Areal(<< [shell |-> Box(0, 2, 6, 2), holes |-> <<>>] >>)

\* A box in a corner of the chain, away from most of its holes.
Tip == Areal(<< [shell |-> Box(0, 6, 2, 2), holes |-> <<>>] >>)
\* An L, and in the envelope of the L a box with a hole.
Nested == Areal(<< [shell |-> << <<0,0>>, <<0,10>>, <<2,10>>, <<2,2>>, <<10,2>>, <<10,0>>, <<0,0>> >>,
                    holes |-> <<>>],
                   [shell |-> Box(4, 4, 6, 6), holes |-> <<Box(6, 6, 2, 2)>>] >>)

\* The shapes that touch themselves are in a fixed precision model, for which
\* there is no envelope shortcut; the others are in a floating one.
fixed(g) == [g EXCEPT !.floating = FALSE]
MixedShapes    == {Frame, Ell, Pair, Track, Marks}
TouchingShapes == {fixed(g) : g \in {Corner, Chain, Cutter, Tip, Nested}}
Shapes   == MixedShapes \cup TouchingShapes
MCInputs == (MixedShapes \X MixedShapes) \cup (TouchingShapes \X TouchingShapes)

\* For relations also an empty collection, a ring of lines, and a line that
\* crosses the frame and the track off their vertices only.
Empty == Puntal(<<>>)
Round == Lineal(<< << <<2,2>>, <<2,8>>, <<8,8>> >>, << <<8,8>>, <<8,2>>, <<2,2>> >> >>)
Cross == Lineal(<< << <<6,-2>>, <<6,10>> >> >>)
RelatedShapes == Shapes \cup {Empty, Round, Cross}

\* Two lines that close a ring have no boundary, but getBoundaryDimension looks
\* at each line alone: left out where the envelopes do not meet and it is asked.
RelatedPairs == (RelatedShapes \X RelatedShapes) \ {<<Empty, Round>>, <<Round, Empty>>}

R == INSTANCE RelateComputer WITH Inputs <- RelatedPairs
Polygon(shell, holes) == [shell |-> shell, holes |-> holes]
Square == Box(0, 0, 8, 8)

\* Polygons with one defect each, or with what looks like one.
TestedPolygons == {
    \* a box traversed twice at a corner, a figure of eight, a spike, a ring that
    \* touches itself from the inside and one that runs back along itself
    <<Polygon(<< <<0,0>>, <<0,4>>, <<4,4>>, <<4,8>>, <<8,8>>, <<8,4>>, <<4,4>>, <<4,0>>, <<0,0>> >>, <<>>)>>,
    <<Polygon(<< <<0,0>>, <<0,4>>, <<8,4>>, <<8,8>>, <<4,8>>, <<4,0>>, <<0,0>> >>, <<>>)>>,
    <<Polygon(<< <<0,0>>, <<0,8>>, <<8,8>>, <<8,4>>, <<10,4>>, <<8,4>>, <<8,0>>, <<0,0>> >>, <<>>)>>,
    <<Polygon(<< <<0,0>>, <<0,8>>, <<8,8>>, <<8,4>>, <<4,4>>, <<4,2>>, <<6,2>>, <<6,4>>, <<8,4>>, <<8,0>>,
                 <<0,0>> >>, <<>>)>>,
    \* a hole inside, outside, across the shell, along an edge of it, equal to it
    <<Polygon(Square, <<Box(2, 2, 4, 4)>>)>>,
    <<Polygon(Box(0, 0, 4, 4), <<Box(6, 6, 2, 2)>>)>>,
    <<Polygon(Box(0, 0, 4, 4), <<Box(2, 2, 4, 4)>>)>>,
    <<Polygon(Square, <<Box(2, 4, 4, 4)>>)>>,
    <<Polygon(Square, <<Square>>)>>,
    \* a hole that touches the shell once; twice, so that the interior is cut; with
    \* all its vertices, the other hole being outside
    <<Polygon(<< <<0,0>>, <<0,8>>, <<4,8>>, <<4,6>>, <<8,6>>, <<8,0>>, <<0,0>> >>,
              << << <<4,6>>, <<4,2>>, <<2,2>>, <<2,6>>, <<4,6>> >> >>)>>,
    <<Polygon(<< <<0,0>>, <<0,8>>, <<4,8>>, <<4,6>>, <<8,6>>, <<8,2>>, <<6,2>>, <<6,0>>, <<0,0>> >>,
              << << <<4,6>>, <<2,6>>, <<2,2>>, <<6,2>>, <<6,4>>, <<4,4>>, <<4,6>> >> >>)>>,
    <<Polygon(<< <<0,2>>, <<0,8>>, <<2,8>>, <<2,10>>, <<8,10>>, <<8,8>>, <<10,8>>, <<10,2>>, <<8,2>>,
                 <<8,0>>, <<2,0>>, <<2,2>>, <<0,2>> >>, <<Box(2, 2, 6, 6), Box(-2, -2, 2, 2)>>)>>,
    \* holes apart, nested, crossing, equal, and a ring of holes that touch
    <<Polygon(Square, <<Box(2, 2, 2, 2), Box(4, 4, 2, 2)>>)>>,
    <<Polygon(Box(-2, -2, 12, 12), <<Box(0, 0, 8, 8), Box(2, 2, 2, 2)>>)>>,
    <<Polygon(Square, <<Box(2, 2, 4, 2), Box(4, 2, 2, 4)>>)>>,
    <<Polygon(Square, <<Box(2, 2, 2, 2), Box(2, 2, 2, 2)>>)>>,
    <<Polygon(Box(-2, -2, 12, 12), <<Box(2, 0, 2, 2), Box(4, 2, 2, 2), Box(2, 4, 2, 2), Box(0, 2, 2, 2)>>)>>,
    \* polygons that meet in a corner, along an edge, overlap, lie in each other,
    \* in the hole of the other, on the hole, and across it
    <<Polygon(Box(0, 0, 4, 4), <<>>), Polygon(Box(4, 4, 4, 4), <<>>)>>,
    <<Polygon(Box(0, 0, 4, 4), <<>>), Polygon(Box(4, 0, 4, 4), <<>>)>>,
    <<Polygon(Box(0, 0, 6, 6), <<>>), Polygon(Box(4, 4, 4, 4), <<>>)>>,
    <<Polygon(Square, <<>>), Polygon(Box(2, 2, 2, 2), <<>>)>>,
    <<Polygon(Square, <<Box(2, 2, 4, 4)>>), Polygon(Box(4, 4, 2, 2), <<>>)>>,
    <<Polygon(Box(4, 4, 2, 2), <<>>), Polygon(Box(-2, -2, 12, 12), <<Box(2, 2, 6, 6)>>)>>,
    <<Polygon(Box(-2, -2, 12, 12), <<Box(0, 0, 4, 4)>>), Polygon(Box(6, 6, 2, 2), <<>>)>>,
    <<Polygon(Square, <<Box(2, 2, 4, 4)>>), Polygon(Box(2, 2, 4, 4), <<>>)>>,
    <<Polygon(Square, <<Box(2, 2, 4, 4)>>), Polygon(Box(4, 4, 6, 2), <<>>)>>,
    \* a polygon that touches the one around it from inside, and from outside
    <<Polygon(<< <<0,0>>, <<0,8>>, <<4,8>>, <<4,6>>, <<8,6>>, <<8,0>>, <<0,0>> >>, <<>>),
      Polygon(<< <<4,6>>, <<4,2>>, <<2,2>>, <<2,6>>, <<4,6>> >>, <<>>)>>,
    <<Polygon(<< <<0,0>>, <<0,8>>, <<4,8>>, <<4,6>>, <<8,6>>, <<8,0>>, <<0,0>> >>, <<>>),
      Polygon(<< <<8,6>>, <<8,8>>, <<10,8>>, <<10,6>>, <<8,6>> >>, <<>>)>>,
    \* a ring of too few points
    <<Polygon(<< <<0,0>>, <<0,0>>, <<4,0>>, <<0,0>> >>, <<>>)>>}
TestedLines == {
    << << <<0,0>>, <<4,0>>, <<4,4>> >>, << <<4,4>>, <<8,4>> >> >>,
    << << <<0,0>>, <<4,0>> >>, << <<2,-2>>, <<2,2>> >> >>,
    << << <<0,0>>, <<4,0>> >>, << <<2,0>>, <<2,2>> >> >>,
    << << <<0,0>>, <<4,0>>, <<4,2>>, <<0,2>>, <<0,0>> >> >>,
    << << <<0,0>>, <<4,0>>, <<4,2>>, <<0,2>>, <<0,0>> >>, << <<0,0>>, <<-2,0>> >> >>,
    << << <<0,0>>, <<4,0>>, <<4,2>>, <<2,2>>, <<2,0>> >> >>,
    << << <<0,0>>, <<4,0>> >>, << <<2,0>>, <<6,0>> >> >>,
    << << <<2,2>>, <<2,2>> >> >>}
MCTested == {Areal(ps) : ps \in TestedPolygons} \cup {Lineal(ls) : ls \in TestedLines}
              \cup {Puntal(<< <<0,0>>, <<2,0>> >>), Puntal(<< <<0,0>>, <<2,0>>, <<0,0>> >>)}
              \cup Shapes

-----------------------------------------------------------------------------
(* Collections to unite, on a grid of cells of size one.                   *)
Block(x, y, w, h) == {<<x + i, y + j>> : i \in 0..(w - 1), j \in 0..(h - 1)}
unitSteps(vs) == FoldLeft(LAMBDA l, v :
                LET p == Last(l)
                IN  l \o [k \in 1..(Abs(v[1] - p[1]) + Abs(v[2] - p[2])) |->
                             <<p[1] + k * Sign(v[1] - p[1]), p[2] + k * Sign(v[2] - p[2])>>],
                <<Head(vs)>>, Tail(vs))
among(kind, s, K) ==
    FoldLeft(LAMBDA r, k : IF k \in K THEN Append(r, [kind |-> kind, is |-> s[k]]) ELSE r, <<>>, [k \in DOMAIN s |-> k])

\* Boxes that share an edge and touch at a corner, a frame, an island in it, a
\* box across the frame, an L, one far away, and an empty polygon.
UnionAreas == << Block(0, 0, 2, 2), Block(2, 0, 1, 2), Block(3, 2, 1, 1),
                 Block(1, 1, 5, 5) \ Block(2, 2, 3, 3), Block(3, 3, 1, 1), Block(5, 2, 3, 1),
                 Block(-2, -2, 1, 6) \cup Block(-2, -2, 6, 1), Block(8, 6, 1, 1), {} >>
\* Lines that cross, overlap, cross themselves, close, and an empty one.
UnionPaths == << unitSteps(<< <<0,0>>, <<4,0>>, <<4,3>> >>), unitSteps(<< <<2,-1>>, <<2,2>> >>),
                 unitSteps(<< <<3,0>>, <<4,0>>, <<4,1>>, <<6,1>> >>),
                 unitSteps(<< <<0,0>>, <<2,0>>, <<2,2>>, <<1,2>>, <<1,-1>> >>), unitSteps(<< <<-1,4>>, <<6,4>> >>),
                 unitSteps(<< <<9,9>>, <<10,9>>, <<10,10>>, <<9,10>>, <<9,9>> >>), <<>> >>
UnionPlaces == << << <<1,1>> >>, << <<4,1>> >>, << <<4,1>> >>, << <<9,9>> >>, << <<-2,0>> >>, << <<7,7>> >>, <<>> >>
MCCollections ==
    {among("polygon", UnionAreas, K) : K \in SUBSET (1..9)}
    \cup {among("line", UnionPaths, K) : K \in SUBSET (1..7)}
    \cup {among("polygon", UnionAreas, K) \o among("line", UnionPaths, L) \o among("point", UnionPlaces, P) :
            K \in {{}, {1}, {4, 5, 8}, {1, 2, 4, 6}}, L \in {{}, {1}, {1, 4, 5, 6}, {2, 3, 7}, {4}},
            P \in {{}, {1}, {7}, 1..7}}
Unions == INSTANCE UnaryUnion WITH Collections <- MCCollections, STRTREE_NODE_CAPACITY <- 4

-----------------------------------------------------------------------------
relateOnly  == <<isolated, proper, im>>
overlayOnly == <<opCode, env, splits, edgeList, deLabel, todo, areas, results>>
clipOnly    == <<pending, cut, holeIndex, parts, toParts, openRing, shells>>
unionOnly   == <<cascade, unionPoints, unionLines, unionPolygons, ret>>
NoRelation  == isolated = NULL /\ proper = NULL /\ im = NULL
NoBuffer    == /\ bufParams = NULL /\ depth = NULL /\ waiting = NULL /\ processed = NULL
               /\ subgraph = NULL /\ visited = NULL
NoClip      == /\ pending = NULL /\ cut = NULL /\ holeIndex = NULL /\ parts = NULL /\ toParts = NULL
               /\ openRing = NULL /\ shells = NULL
NoUnion     == /\ cascade = NULL /\ unionPoints = NULL /\ unionLines = NULL
               /\ unionPolygons = NULL /\ ret = NULL
MCInit ==
    \/ operation = "overlay" /\ Init /\ NoRelation /\ validErr = NULL /\ NoBuffer /\ NoClip /\ NoUnion
    \/ /\ operation = "relate" /\ R!Init /\ validErr = NULL /\ NoBuffer /\ NoClip /\ NoUnion
       /\ opCode = NULL /\ env = NULL /\ Blank
    \/ operation = "isValid" /\ ValidInit /\ NoRelation /\ NoBuffer /\ NoClip /\ NoUnion
    \/ operation = "buffer" /\ BufferInit /\ NoRelation /\ validErr = NULL /\ NoClip /\ NoUnion
    \/ /\ operation = "clip" /\ Clipping!ClipInit /\ NoRelation /\ validErr = NULL /\ NoBuffer /\ NoUnion
       /\ argNodes = NULL /\ ei = NULL /\ opCode = NULL /\ env = NULL /\ Blank
    \/ /\ operation = "union" /\ Unions!UnionInit /\ NoRelation /\ validErr = NULL /\ NoBuffer /\ NoClip
       /\ argNodes = NULL /\ ei = NULL /\ opCode = NULL /\ env = NULL /\ Blank
Overlay == /\ operation = "overlay" /\ Next
           /\ UNCHANGED <<operation, relateOnly, validErr, bufferVars, clipOnly, unionOnly>>
Relate  == /\ operation = "relate" /\ R!Next
           /\ UNCHANGED <<operation, overlayOnly, validErr, bufferVars, clipOnly, unionOnly>>
Valid   == operation = "isValid" /\ ValidNext /\ UNCHANGED <<operation, relateOnly, bufferVars, clipOnly, unionOnly>>
Buffer  == operation = "buffer" /\ BufferNext /\ UNCHANGED <<operation, relateOnly, validErr, clipOnly, unionOnly>>
Clip    == /\ operation = "clip" /\ Clipping!ClipNext
           /\ UNCHANGED <<operation, overlayOnly, argNodes, ei, nodes, star, error, relateOnly, validErr, bufferVars, unionOnly>>
Unite   == /\ operation = "union" /\ Unions!UnionNext
           /\ UNCHANGED <<operation, overlayOnly, argNodes, ei, nodes, star, error, relateOnly, validErr, bufferVars, clipOnly>>
MCNext  == Overlay \/ Relate \/ Valid \/ Buffer \/ Clip \/ Unite
MCSpec  == MCInit /\ [][MCNext]_<<vars, relateOnly, operation, validErr, bufferVars, clipOnly, unionOnly>>

-----------------------------------------------------------------------------
(* The reference: sets of grid elements.                                   *)
Grid == (-3..11) \X (-3..11)

Members == [g \in Shapes |-> {x \in Grid : locate(x, g) # EXTERIOR}]

\* The grid elements in the closure of element x.
ClosureOf(x) ==
    LET near(c) == IF c % 2 = 0 THEN {c} ELSE {c - 1, c, c + 1}
    IN  near(x[1]) \X near(x[2])
Closures == [x \in Grid |-> ClosureOf(x) \cap Grid]

Expected(A, B, op) ==
    UNION {Closures[x] : x \in
        CASE op = "INTERSECTION"  -> A \cap B
          [] op = "UNION"         -> A \cup B
          [] op = "DIFFERENCE"    -> A \ B
          [] op = "SYMDIFFERENCE" -> (A \ B) \cup (B \ A)}

inArea(polys, x) == {k \in DOMAIN polys : locateInPolygon(x, polys[k]) = INTERIOR}

ResultSet(polys) ==
    {x \in Grid : \/ isCoveredBy(x, polys)
                  \/ x \in ToSet(points)
                  \/ \E k \in ToSet(lines) : isOnLine(x, edgeList[k].pts)}

-----------------------------------------------------------------------------
(* The reference for relations: where each grid element lies, by a ray     *)
(* upwards for areas and by the number of ends for lines.                  *)
placeIn(x, g) ==
    LET rs == UNION {ToSet(polyRings(g.polys[k])) : k \in DOMAIN g.polys}
        ends  == Cardinality({k \in DOMAIN g.lines : x = Head(g.lines[k])})
                   + Cardinality({k \in DOMAIN g.lines : x = Last(g.lines[k])})
    IN  IF (\E r \in rs : isOnLine(x, r)) \/ ends % 2 = 1 THEN BOUNDARY
        ELSE IF \/ \E k \in DOMAIN g.polys : insideOf(x, polyRings(g.polys[k]))
                \/ \E k \in DOMAIN g.lines : isOnLine(x, g.lines[k])
                \/ x \in ToSet(g.points) THEN INTERIOR
        ELSE EXTERIOR
Placed == [g \in RelatedShapes |-> [x \in Grid |-> placeIn(x, g)]]
PointsOf == [g \in RelatedShapes |-> {x \in Grid : Placed[g][x] # EXTERIOR}]

dimension(S) == IF S = {} THEN -1 ELSE
    CHOOSE d \in 0..2 : /\ \E x \in S : (x[1] % 2) + (x[2] % 2) = d
                        /\ \A x \in S : (x[1] % 2) + (x[2] % 2) <= d

ExpectedMatrix(a, b) ==
    [rc \in R!Rows \X R!Rows |->
        dimension({x \in Grid : Placed[a][x] = rc[1] /\ Placed[b][x] = rc[2]})]

-----------------------------------------------------------------------------
(* The reference for validity, on the cells of the grid.                   *)
Cells == {x \in Grid : x[1] % 2 = 1 /\ x[2] % 2 = 1}
cellsOf(ring) == {x \in Cells : insideOf(x, <<ring>>)}
\* The unit edges along a ring, each as often as the ring runs along it
runsAlong(ring, x) == Cardinality({i \in 1..(Len(ring) - 1) : inSegEnv(x, ring[i], ring[i + 1])})
Sides == {x \in Grid : (x[1] % 2) + (x[2] % 2) = 1}

allRings(g) == FlattenSeq([k \in DOMAIN g.polys |-> polyRings(g.polys[k])])
interior(p) == cellsOf(p.shell) \ UNION {cellsOf(p.holes[h]) : h \in DOMAIN p.holes}

\* S, and the cells of C next to one in S with no ring of p between.
grow(C, p, S) == {s[1] : s \in {<<x, d>> \in C \X {<<0, 0>>, <<0, 1>>, <<0, -1>>, <<1, 0>>, <<-1, 0>>} :
    /\ <<x[1] + 2 * d[1], x[2] + 2 * d[2]>> \in S
    /\ d # <<0, 0>> => \A r \in ToSet(polyRings(p)) : ~isOnLine(<<x[1] + d[1], x[2] + d[2]>>, r)}}
connected(p) ==
    LET C == interior(p)
        reached[n \in 0..Cardinality(Cells)] ==
            IF n = 0 THEN {CHOOSE c \in C : TRUE} ELSE With(reached[n - 1], LAMBDA S : grow(C, p, S))
    IN  C = {} \/ reached[Cardinality(Cells)] = C

Defects(g) ==
    LET rs == allRings(g)
        ps == g.polys
    IN  {d \in {"simple", "shared", "outside", "holes", "polygons", "cut"} :
          CASE d = "simple"  -> \E k \in DOMAIN rs : ~isValidRing(rs[k])
            [] d = "shared"  -> \E k, m \in DOMAIN rs : k # m /\ \E x \in Sides : isOnLine(x, rs[k]) /\ isOnLine(x, rs[m])
            [] d = "outside" -> \E k \in DOMAIN ps : \E h \in ToSet(ps[k].holes) : ~(cellsOf(h) \subseteq cellsOf(ps[k].shell))
            [] d = "holes"   -> \E k \in DOMAIN ps : \E h, j \in DOMAIN ps[k].holes :
                                    h # j /\ cellsOf(ps[k].holes[h]) \cap cellsOf(ps[k].holes[j]) # {}
            [] d = "polygons" -> \E k, m \in DOMAIN ps : k # m /\ interior(ps[k]) \cap interior(ps[m]) # {}
            [] d = "cut"     -> \E k \in DOMAIN ps : ~connected(ps[k])}

DefectsOf == [g \in {t \in MCTested : isAreal(t)} |-> Defects(g)]

\* No point of a line is passed twice, except that the open ends of lines may meet.
simpleLines(ls) ==
    LET on(x) == {s \in {<<k, i>> : k \in DOMAIN ls, i \in 1..10} :
                    s[2] < Len(ls[s[1]]) /\ isOnLine(x, <<ls[s[1]][s[2]], ls[s[1]][s[2] + 1]>>)}
        last(k) == Len(ls[k]) - 1
        closed(k) == Head(ls[k]) = Last(ls[k])
        ends(k) == {Head(ls[k]), Last(ls[k])}
        mayMeet(s, t, x) ==
            \/ s = t
            \/ s[1] = t[1] /\ Abs(s[2] - t[2]) = 1 /\ x = ls[s[1]][(IF s[2] < t[2] THEN t ELSE s)[2]]
            \/ s[1] = t[1] /\ closed(s[1]) /\ {s[2], t[2]} = {1, last(s[1])} /\ x = Head(ls[s[1]])
            \/ s[1] # t[1] /\ ~closed(s[1]) /\ ~closed(t[1]) /\ x \in ends(s[1]) \cap ends(t[1])
    IN  \A x \in Grid : \A s, t \in on(x) : mayMeet(s, t, x)

-----------------------------------------------------------------------------
(* Properties.                                                             *)

\* The result of an overlay is the operation on point sets: exactly the points
\* of A op B, closed, are in a polygon, a line or a point of the result.  A
\* TopologyException is for robustness problems (OverlayOp.h): arithmetic on
\* these arguments is exact, so no overlay ends with one.  What a rectangle clips
\* is what lies inside of it, and what a collection is united to is its union.
ResultIsSetOperation ==
    /\ operation = "overlay" => error = NULL
    /\ pc = "done" => ResultSet(resultPolyList) = Expected(Members[args[1]], Members[args[2]], opCode)
    /\ operation = "clip" => ClipIsTheInside
    /\ operation = "union" => Unions!UnionIsTheUnion

\* The result is in canonical form: its rings are simple, no two polygons share
\* interior, no vertex of a polygon is inside another, no line runs in or along a polygon or along
\* another line, and no point is repeated by a line or polygon.
ResultIsCanonical ==
    pc = "done" =>
        \E polys \in {resultPolyList} :
            /\ \A x \in Grid : Cardinality(inArea(polys, x)) <= 1
            /\ \A k \in DOMAIN polys : \A ring \in ToSet(polyRings(polys[k])) :
                  isValidRing(ring) /\ \A p \in ToSet(ring) : inArea(polys, p) = {}
            /\ \A k \in ToSet(lines) : \A i \in 1..(Len(edgeList[k].pts) - 1) :
                  LET p == edgeList[k].pts[i]
                      q == edgeList[k].pts[i + 1]
                      mid == <<p[1] + Sign(q[1] - p[1]), p[2] + Sign(q[2] - p[2])>>
                  IN  /\ ~isCoveredBy(mid, polys)
                      /\ \A m \in ToSet(lines) \ {k} : ~isOnLine(mid, edgeList[m].pts)
            /\ \A i, j \in DOMAIN points : points[i] = points[j] => i = j
            /\ \A p \in ToSet(points) : ~isCoveredByLA(p, polys)

\* Once labelling ends, the labels around every node tell the truth: each
\* directed edge lies in an argument, and has it on its left and on its right,
\* exactly where the geometry of its first segment says so.
LabelsTellLocations ==
    pc = "findResultAreaEdges" =>
        \A d \in DOMAIN deLabel, i \in Arg :
            LET p == dirPts(d)[1]
                q == dirPts(d)[2]
                dx == Sign(q[1] - p[1])
                dy == Sign(q[2] - p[2])
                at == <<p[1] + dx, p[2] + dy>>
                isIn(x) == x \in Members[args[i + 1]]
                says(pos) == getLocation(deLabel[d], i, pos) \in {INTERIOR, BOUNDARY}
            IN  /\ says(ON) = isIn(at)
                /\ isAreaAt(deLabel[d], i) =>
                      /\ says(LEFT)  = isIn(<<at[1] - dy, at[2] + dx>>)
                      /\ says(RIGHT) = isIn(<<at[1] + dy, at[2] - dx>>)

\* A relation is what the point sets say: the matrix has the dimension of every
\* intersection of interior, boundary and exterior, and the predicates of
\* Geometry, which answer from the envelopes, from a rectangle, or from the
\* matrix, say what their definitions in Geometry.h mean.
RelationsAreExact ==
    (operation = "relate" /\ pc = "related") =>
        LET a == args[1]  b == args[2]
            A == PointsOf[a]  B == PointsOf[b]
            both == {x \in A \cap B : Placed[a][x] = INTERIOR /\ Placed[b][x] = INTERIOR}
            dA == dimension(A)  dB == dimension(B)
        IN  /\ im = ExpectedMatrix(a, b)
            /\ R!intersects(a, b, im) = (A \cap B # {})
            /\ R!disjoint(a, b, im)   = (A \cap B = {})
            /\ R!contains(a, b, im)   = (both # {} /\ B \subseteq A)
            /\ R!isWithin(im)         = (both # {} /\ A \subseteq B)
            /\ R!covers(a, b, im)     = (B # {} /\ B \subseteq A)
            /\ R!isCoveredBy(im)      = (A # {} /\ A \subseteq B)
            /\ R!equals(a, b, im)     = (A = B)
            /\ R!touches(a, b, im)    = (A \cap B # {} /\ both = {})
            /\ R!overlaps(a, b, im)   = /\ dA = dB /\ both # {} /\ dimension(both) = dA
                                        /\ ~(A \subseteq B) /\ ~(B \subseteq A)
            /\ R!crosses(a, b, im)    = IF dA = 1 /\ dB = 1 THEN dimension(both) = 0
                                        ELSE /\ dA # dB /\ both # {}
                                             /\ IF dA < dB THEN ~(A \subseteq B) ELSE ~(B \subseteq A)

\* isValid and isSimple answer what the definitions say, and the error that is
\* reported is one the geometry has: each check may rely on the checks before it,
\* although it looks at one vertex of a ring only.
ValidityIsExact ==
    (operation = "isValid" /\ pc = "checked" /\ validErr # "eTooFewPoints") =>
        LET g == args[1]
            tells == [eSelfIntersection |-> {"simple", "shared", "outside", "holes", "polygons"},
                      eDuplicatedRings |-> {"shared"}, eRingSelfIntersection |-> {"simple"},
                      eHoleOutsideShell |-> {"outside"}, eNestedHoles |-> {"holes"},
                      eNestedShells |-> {"polygons"}, eDisconnectedInterior |-> {"cut"}]
        IN  IF ~isAreal(g)
            THEN (validErr = NULL) = (simpleLines(g.lines) /\ Cardinality(ToSet(g.points)) = Len(g.points))
            ELSE IF validErr = NULL THEN DefectsOf[g] = {}
            ELSE tells[validErr] \cap DefectsOf[g] # {}
=============================================================================
