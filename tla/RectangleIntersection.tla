----------------------- MODULE RectangleIntersection ------------------------
(***************************************************************************)
(* operation/intersection: RectangleIntersection cuts a geometry with a    *)
(* rectangle without noding: lines and rings are cut into the pieces       *)
(* inside, and RectangleIntersectionBuilder closes the pieces of a         *)
(* polygon's rings to new rings along the rectangle.  clip keeps polygons, *)
(* clipBoundary gives the pieces of their rings.                           *)
(***************************************************************************)
EXTENDS RingGeometry

CONSTANTS Clipped,   \* triples of a geometry, a Rectangle, and keep_polygons
          NULL

VARIABLES pc, args,
          pending,   \* the components not clipped yet
          cut,       \* the line or ring being cut: what clip_linestring_parts knows
          holeIndex,      \* the number of the hole being cut, 0 for the shell
          parts,     \* the builder of the polygon being clipped
          toParts,   \* the builder of the result
          openRing, shells   \* reconnectPolygons: the ring being closed, the closed ones
clipVars == <<pc, args, pending, cut, holeIndex, parts, toParts, openRing, shells>>

rect == args[2]
keepPolygons == args[3]
NoParts == [polygons |-> <<>>, lines |-> <<>>, points |-> <<>>]

Abs(x) == IF x < 0 THEN -x ELSE x

\* CGAlgorithms::locatePointInRing = INTERIOR
isInterior(p, r) == /\ isPointInRing(p, r)
                    /\ \A i \in 1..(Len(r) - 1) : ~isOnSegment(p, r[i], r[i + 1])

-----------------------------------------------------------------------------
(* Rectangle.  A position is a set: Inside, Outside, or the edges it is on.*)
position(p) ==
    IF p[1] > rect.xmin /\ p[1] < rect.xmax /\ p[2] > rect.ymin /\ p[2] < rect.ymax THEN {"Inside"}
    ELSE IF p[1] < rect.xmin \/ p[1] > rect.xmax \/ p[2] < rect.ymin \/ p[2] > rect.ymax THEN {"Outside"}
    ELSE {e \in {"Left", "Right", "Bottom", "Top"} :
            CASE e = "Left"   -> p[1] = rect.xmin
              [] e = "Right"  -> p[1] = rect.xmax
              [] e = "Bottom" -> p[2] = rect.ymin
              [] e = "Top"    -> p[2] = rect.ymax}

isOutside(p) == position(p) = {"Outside"}
isInside(p)  == position(p) = {"Inside"}
onEdge(pos)  == pos # {} /\ pos \cap {"Inside", "Outside"} = {}
onSameEdge(pos1, pos2) == onEdge(pos1 \cap pos2)

\* The next edge clockwise; a corner belongs to the edge that ends there.
nextEdge(pos) ==
    CASE pos \in {{"Left"}, {"Bottom", "Left"}}    -> "Top"
      [] pos \in {{"Top"}, {"Top", "Left"}}        -> "Right"
      [] pos \in {{"Right"}, {"Top", "Right"}}     -> "Bottom"
      [] pos \in {{"Bottom"}, {"Bottom", "Right"}} -> "Left"

toLinearRing == << <<rect.xmin, rect.ymin>>, <<rect.xmin, rect.ymax>>, <<rect.xmax, rect.ymax>>,
                   <<rect.xmax, rect.ymin>>, <<rect.xmin, rect.ymin>> >>
center == <<rect.xmin + (rect.xmax - rect.xmin) \div 2, rect.ymin + (rect.ymax - rect.ymin) \div 2>>

-----------------------------------------------------------------------------
(* RectangleIntersection::clip_linestring_parts                            *)

\* p moved along the segment to q until its coordinate c is the limit.
clipOneEdge(p, q, c, limit) ==
    LET d == 3 - c
        run == q[c] - p[c]
    IN  IF run = 0 THEN p
        ELSE [p EXCEPT ![c] = limit,
                       ![d] = @ + (((q[d] - p[d]) * (limit - p[c]) * Sign(run)) \div (run * Sign(run)))]

clipToEdges(p, q) ==
    LET h == IF p[1] < rect.xmin THEN clipOneEdge(p, q, 1, rect.xmin)
             ELSE IF p[1] > rect.xmax THEN clipOneEdge(p, q, 1, rect.xmax) ELSE p
    IN  IF h[2] < rect.ymin THEN clipOneEdge(h, q, 2, rect.ymin)
        ELSE IF h[2] > rect.ymax THEN clipOneEdge(h, q, 2, rect.ymax) ELSE h

\* The first point after the i-th that is not beyond the same side as that.
skip(path, i) ==
    LET beyond(p) == IF path[i][1] < rect.xmin THEN p[1] < rect.xmin
                     ELSE IF path[i][1] > rect.xmax THEN p[1] > rect.xmax
                     ELSE IF path[i][2] < rect.ymin THEN p[2] < rect.ymin
                     ELSE p[2] > rect.ymax
    IN  CHOOSE j \in (i + 1)..(Len(path) + 1) :
            /\ j = Len(path) + 1 \/ ~beyond(path[j])
            /\ \A k \in (i + 1)..(j - 1) : beyond(path[k])

\* start is 0 while outside, entry the point where the line came in.
startCut(path) == [path |-> path, at |-> 1, start |-> 0, entry |-> <<>>, pieces |-> <<>>, whole |-> FALSE]

\* add the piece from start to the point before the i-th, unless it is one point
pieceTo(c, s, i, through) ==
    IF s < i - 1 \/ c.entry # <<>> \/ through # <<>>
    THEN Append(c.pieces, c.entry \o SubSeq(c.path, s, i - 1) \o through) ELSE c.pieces

\* From a point outside to the next that has to be looked at: into the
\* rectangle, across it, to its edge through the inside, or past it.
FromOutside ==
    /\ pc = "cutting" /\ cut.start = 0 /\ isOutside(cut.path[cut.at])
    /\ LET j  == skip(cut.path, cut.at)
           q  == cut.path[j]
           p0 == clipToEdges(cut.path[j - 1], q)
           p1 == clipToEdges(q, p0)
           crosses == /\ p0 # p1 /\ onEdge(position(p0)) /\ onEdge(position(p1))
                      /\ ~onSameEdge(position(p0), position(p1))
           enters == isInside(q) \/ (onEdge(position(q)) /\ ~onSameEdge(position(q), position(p0)))
       IN  IF j > Len(cut.path) THEN pc' = "cut" /\ cut' = cut
           ELSE /\ pc' = "cutting"
                /\ cut' = [cut EXCEPT !.at = j,
                                      !.entry = IF enters THEN <<p0>> ELSE <<>>,
                                      !.pieces = IF isOutside(q) /\ crosses THEN Append(@, <<p0, p1>>) ELSE @]
    /\ UNCHANGED <<args, pending, holeIndex, parts, toParts, openRing, shells>>

\* The point after one that is inside or on an edge.
inRectangle == pc = "cutting" /\ (cut.start # 0 \/ ~isOutside(cut.path[cut.at]))
start  == IF cut.start = 0 THEN cut.at ELSE cut.start
isLast == cut.at = Len(cut.path)
here   == cut.path[cut.at]
next   == cut.path[cut.at + 1]

StayInside ==
    /\ inRectangle /\ ~isLast /\ ~isOutside(next) /\ ~onSameEdge(position(here), position(next))
    /\ cut' = [cut EXCEPT !.at = @ + 1, !.start = start]
    /\ UNCHANGED <<pc, args, pending, holeIndex, parts, toParts, openRing, shells>>

RunAlongEdge ==
    /\ inRectangle /\ ~isLast /\ ~isOutside(next) /\ onSameEdge(position(here), position(next))
    /\ cut' = [cut EXCEPT !.at = @ + 1, !.start = cut.at + 1, !.entry = <<>>,
                          !.pieces = pieceTo(cut, start, cut.at + 1, <<>>)]
    /\ UNCHANGED <<pc, args, pending, holeIndex, parts, toParts, openRing, shells>>

Leave ==
    /\ inRectangle /\ ~isLast /\ isOutside(next)
    /\ LET exit == clipToEdges(next, here)
           through == IF onSameEdge(position(here), position(exit)) THEN <<>> ELSE <<exit>>
       IN  cut' = [cut EXCEPT !.at = @ + 1, !.start = 0, !.entry = <<>>,
                              !.pieces = pieceTo(cut, start, cut.at + 1, through)]
    /\ UNCHANGED <<pc, args, pending, holeIndex, parts, toParts, openRing, shells>>

CutEnds ==
    /\ inRectangle /\ isLast
    /\ pc' = "cut"
    /\ cut' = IF start = 1 THEN [cut EXCEPT !.whole = TRUE]
              ELSE [cut EXCEPT !.pieces = pieceTo(cut, start, cut.at + 1, <<>>)]
    /\ UNCHANGED <<args, pending, holeIndex, parts, toParts, openRing, shells>>

-----------------------------------------------------------------------------
(* RectangleIntersectionBuilder                                            *)

\* The last piece of a ring is continued by the first.
reconnect(lines) ==
    IF Len(lines) < 2 \/ Head(Head(lines)) # Last(Last(lines)) THEN lines
    ELSE <<removeRepeatedPoints(Last(lines) \o Head(lines))>> \o SubSeq(lines, 2, Len(lines) - 1)

\* Mutant: the pieces are left as they are.
reverseLines_Not(lines) == lines
reverseLines(lines) == Reverse([i \in DOMAIN lines |-> Reverse(lines[i])])

\* Mutant: the order along the edge does not matter.
isAhead_AnyOrder(p, pos, q) == pos \cap position(q) # {}
\* Whether q is ahead of p, clockwise, on the edges pos.
isAhead(p, pos, q) ==
    /\ pos \cap position(q) # {}
    /\ \/ p[1] = rect.xmin /\ q[2] >= p[2]
       \/ p[2] = rect.ymax /\ q[1] >= p[1]
       \/ p[1] = rect.xmax /\ q[2] <= p[2]
       \/ p[2] = rect.ymin /\ q[1] <= p[1]

\* The way clockwise along the rectangle from p to q: p and the corners passed.
way(p, q) ==
    LET corner(x, edge) == CASE edge = "Left"   -> <<rect.xmin, x[2]>>
                             [] edge = "Top"    -> <<x[1], rect.ymax>>
                             [] edge = "Right"  -> <<rect.xmax, x[2]>>
                             [] edge = "Bottom" -> <<x[1], rect.ymin>>
        turn(w, n) == IF isAhead(Last(w.pts), w.pos, q) THEN w
                      ELSE [pts |-> Append(w.pts, corner(Last(w.pts), nextEdge(w.pos))),
                            pos |-> {nextEdge(w.pos)}]
    IN  FoldLeft(turn, [pts |-> <<p>>, pos |-> position(p)], <<1, 2, 3, 4, 5>>).pts

distance(p, q) ==
    LET w == Append(way(p, q), q)
    IN  FoldLeft(LAMBDA sum, i : sum + Abs(w[i + 1][1] - w[i][1]) + Abs(w[i + 1][2] - w[i][2]),
                 0, [i \in 1..(Len(w) - 1) |-> i])

\* r continued along the rectangle to q
closeBoundary(r, q) ==
    LET w == r \o Tail(way(Last(r), q)) IN IF Last(w) = q THEN w ELSE Append(w, q)

\* a ring turned to start at its smallest point
normalizeRing(r) ==
    LET n == Len(r) - 1
        less(p, q) == p[1] < q[1] \/ (p[1] = q[1] /\ p[2] < q[2])
        best == CHOOSE i \in DOMAIN r : /\ \A j \in DOMAIN r : ~less(r[j], r[i])
                                        /\ \A j \in 1..(i - 1) : less(r[i], r[j])
    IN  IF best = 1 THEN r
        ELSE SubSeq(r, best, n) \o SubSeq(r, 1, best - 1) \o <<r[best]>>

-----------------------------------------------------------------------------
(* RectangleIntersection::clip_geom, for one component after the other     *)
ClipInit ==
    /\ \E c \in Clipped :
          /\ args = c
          /\ pending = [k \in DOMAIN c[1].polys |-> [kind |-> "polygon", is |-> c[1].polys[k]]]
                         \o [k \in DOMAIN c[1].lines |-> [kind |-> "line", is |-> c[1].lines[k]]]
                         \o [k \in DOMAIN c[1].points |-> [kind |-> "point", is |-> c[1].points[k]]]
    /\ pc = "clip_geom" /\ cut = NULL /\ holeIndex = 0
    /\ parts = NoParts /\ toParts = NoParts /\ openRing = NULL /\ shells = <<>>

component == Head(pending).is
isNow(kind) == pending # <<>> /\ Head(pending).kind = kind
finishComponent ==
    /\ pc' = "clip_geom" /\ pending' = Tail(pending)
    /\ cut' = NULL /\ holeIndex' = 0 /\ parts' = NoParts /\ openRing' = NULL /\ shells' = <<>>

clip_point ==
    /\ pc = "clip_geom" /\ isNow("point")
    /\ toParts' = IF isInside(component) THEN [toParts EXCEPT !.points = Append(@, component)] ELSE toParts
    /\ finishComponent /\ UNCHANGED args

beginCut ==
    /\ pc = "clip_geom" /\ (isNow("line") \/ isNow("polygon"))
    /\ pc' = "cutting"
    /\ cut' = startCut(IF isNow("line") THEN component ELSE component.shell)
    /\ UNCHANGED <<args, pending, holeIndex, parts, toParts, openRing, shells>>

clip_linestring ==
    /\ pc = "cut" /\ isNow("line")
    /\ toParts' = [toParts EXCEPT !.lines = @ \o (IF cut.whole THEN <<component>> ELSE cut.pieces)]
    /\ finishComponent /\ UNCHANGED args

\* clip_polygon_to_polygons and clip_polygon_to_linestrings, after the shell: all
\* of it is inside, nothing of it is and the rectangle is not in it either, or
\* the holes are next.
shellInside ==
    /\ pc = "cut" /\ isNow("polygon") /\ holeIndex = 0 /\ cut.whole
    /\ toParts' = [toParts EXCEPT !.polygons = Append(@, component)]
    /\ finishComponent /\ UNCHANGED args

isDisjoint == /\ cut.pieces = <<>>
              /\ IF keepPolygons THEN ~isInterior(center, component.shell)
                                 ELSE component.holes = <<>>
shellOutside ==
    /\ pc = "cut" /\ isNow("polygon") /\ holeIndex = 0 /\ ~cut.whole /\ isDisjoint
    /\ finishComponent /\ UNCHANGED <<args, toParts>>

shellCut ==
    /\ pc = "cut" /\ isNow("polygon") /\ holeIndex = 0 /\ ~cut.whole /\ ~isDisjoint
    /\ pc' = "holes" /\ holeIndex' = 1
    /\ IF keepPolygons
       THEN /\ parts' = [parts EXCEPT !.lines =
                           reconnect(IF isCCW(component.shell) THEN reverseLines(cut.pieces) ELSE cut.pieces)]
            /\ toParts' = toParts
       ELSE /\ toParts' = [toParts EXCEPT !.lines = @ \o reconnect(cut.pieces)]
            /\ parts' = parts
    /\ UNCHANGED <<args, pending, cut, openRing, shells>>

beginHole ==
    /\ pc = "holes" /\ holeIndex <= Len(component.holes)
    /\ pc' = "cutting" /\ cut' = startCut(component.holes[holeIndex])
    /\ UNCHANGED <<args, pending, holeIndex, parts, toParts, openRing, shells>>

\* Mutant: a hole without pieces is never around the rectangle.
isInHole_Never == FALSE
\* No piece of the hole is in the rectangle because the hole is around it.
isInHole == /\ keepPolygons /\ ~cut.whole /\ cut.pieces = <<>>
            /\ isPointInRing(center, component.holes[holeIndex])

\* An intact hole becomes a polygon of its own, the pieces of others go with
\* those of the shell.
holeCut ==
    /\ pc = "cut" /\ isNow("polygon") /\ holeIndex > 0
    /\ LET h == component.holes[holeIndex]
           turned == IF keepPolygons /\ ~isCCW(h) THEN reverseLines(cut.pieces) ELSE cut.pieces
           with(p) == IF cut.whole THEN [p EXCEPT !.polygons = Append(@, [shell |-> h, holes |-> <<>>])]
                                   ELSE [p EXCEPT !.lines = @ \o reconnect(turned)]
       IN  IF keepPolygons THEN parts' = with(parts) /\ toParts' = toParts
                           ELSE toParts' = with(toParts) /\ parts' = parts
    /\ ~isInHole
    /\ pc' = "holes" /\ holeIndex' = holeIndex + 1
    /\ UNCHANGED <<args, pending, cut, openRing, shells>>

holeAround ==
    /\ pc = "cut" /\ isNow("polygon") /\ holeIndex > 0 /\ isInHole
    /\ finishComponent /\ UNCHANGED <<args, toParts>>

holesDone ==
    /\ pc = "holes" /\ holeIndex > Len(component.holes)
    /\ IF keepPolygons
       THEN /\ pc' = "reconnectPolygons"
            /\ UNCHANGED <<pending, cut, holeIndex, parts, openRing, shells>>
       ELSE finishComponent
    /\ UNCHANGED <<args, toParts>>

-----------------------------------------------------------------------------
(* RectangleIntersectionBuilder::reconnectPolygons                         *)
rectangleIsInside ==
    /\ pc = "reconnectPolygons" /\ openRing = NULL /\ parts.lines = <<>> /\ shells = <<>>
    /\ shells' = <<toLinearRing>>
    /\ UNCHANGED <<pc, args, pending, cut, holeIndex, parts, toParts, openRing>>

beginRing ==
    /\ pc = "reconnectPolygons" /\ openRing = NULL /\ parts.lines # <<>>
    /\ openRing' = Head(parts.lines)
    /\ parts' = [parts EXCEPT !.lines = Tail(@)]
    /\ UNCHANGED <<pc, args, pending, cut, holeIndex, toParts, shells>>

\* The distances from the end of the ring to the start of each piece left.
distances == [k \in DOMAIN parts.lines |-> distance(Last(openRing), Head(parts.lines[k]))]
isOwnEndNext(ds) == \A k \in DOMAIN ds : distance(Last(openRing), Head(openRing)) < ds[k]

closeRing ==
    /\ pc = "reconnectPolygons" /\ openRing # NULL /\ isOwnEndNext(distances)
    /\ shells' = Append(shells, normalizeRing(closeBoundary(openRing, Head(openRing))))
    /\ openRing' = NULL
    /\ UNCHANGED <<pc, args, pending, cut, holeIndex, parts, toParts>>

connectLine ==
    /\ pc = "reconnectPolygons" /\ openRing # NULL
    /\ \E ds \in {distances} :
          /\ ~isOwnEndNext(ds)
          /\ LET best == CHOOSE k \in DOMAIN ds : /\ \A m \in DOMAIN ds : ds[k] <= ds[m]
                                                 /\ \A m \in 1..(k - 1) : ds[k] < ds[m]
                 line == parts.lines[best]
             IN  /\ openRing' = closeBoundary(openRing, Head(line)) \o Tail(line)
                 /\ parts' = [parts EXCEPT !.lines = RemoveAt(@, best)]
    /\ UNCHANGED <<pc, args, pending, cut, holeIndex, toParts, shells>>

\* Each intact hole goes to the only shell, or to the first with its first point.
attachHoles ==
    /\ pc = "reconnectPolygons" /\ openRing = NULL /\ parts.lines = <<>> /\ shells # <<>>
    /\ LET holesOf(k) == SelectSeq(parts.polygons, LAMBDA p :
              \/ Len(shells) = 1
              \/ /\ isPointInRing(Head(p.shell), shells[k])
                 /\ \A m \in 1..(k - 1) : ~isPointInRing(Head(p.shell), shells[m]))
           built == [k \in DOMAIN shells |->
                       [shell |-> shells[k], holes |-> [h \in DOMAIN holesOf(k) |-> holesOf(k)[h].shell]]]
       IN  toParts' = [toParts EXCEPT !.polygons = @ \o built]
    /\ finishComponent /\ UNCHANGED args

build ==
    /\ pc = "clip_geom" /\ pending = <<>>
    /\ pc' = "clipped"
    /\ UNCHANGED <<args, pending, cut, holeIndex, parts, toParts, openRing, shells>>

ClipNext ==
    \/ clip_point \/ beginCut \/ clip_linestring
    \/ FromOutside \/ StayInside \/ RunAlongEdge \/ Leave \/ CutEnds
    \/ shellInside \/ shellOutside \/ shellCut \/ beginHole \/ holeCut \/ holeAround \/ holesDone
    \/ rectangleIsInside \/ beginRing \/ closeRing \/ connectLine \/ attachHoles \/ build
=============================================================================
