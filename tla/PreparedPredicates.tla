------------------------- MODULE PreparedPredicates -------------------------
(***************************************************************************)
(* What the predicates of geom/prep and the rectangle predicates of        *)
(* operation/predicate decide from, as pure operators.  A geometry is      *)
(* [dim, parts]: a part of a puntal geometry is <<<<point>>>>, of a lineal *)
(* one <<line>>, and of a polygonal one <<shell, hole, ...>>.              *)
(***************************************************************************)
EXTENDS SegmentStrings

Paths(g) == UNION {{g.parts[i][j] : j \in DOMAIN g.parts[i]} : i \in DOMAIN g.parts}

Vertices(g) == UNION {{path[i] : i \in DOMAIN path} : path \in Paths(g)}

\* LinearComponentExtracter and SegmentStringUtil::extractSegmentStrings
LineSegments(g) == UNION {{<<path[i], path[i + 1]>> : i \in Segments(path)} : path \in Paths(g)}

envelope(g) == LET vs == Vertices(g)
                   least(T) == CHOOSE x \in T : \A y \in T : x <= y
                   most(T)  == CHOOSE x \in T : \A y \in T : x >= y
               IN  [minx |-> least({v[1] : v \in vs}), maxx |-> most({v[1] : v \in vs}),
                    miny |-> least({v[2] : v \in vs}), maxy |-> most({v[2] : v \in vs})]

\* ComponentCoordinateExtracter: the first point of every component
representativePts(g) == {Head(path) : path \in Paths(g)}

\* Polygon::isRectangle; only a Polygon of one part has the method.
isRectangle(g) ==
    /\ g.dim = 2 /\ Len(g.parts) = 1 /\ Len(g.parts[1]) = 1
    /\ LET shell == g.parts[1][1]  env == envelope(g)
       IN  /\ Len(shell) = 5
           /\ \A i \in 1..5 : shell[i][1] \in {env.minx, env.maxx} /\ shell[i][2] \in {env.miny, env.maxy}
           /\ \A i \in 1..4 : (shell[i][1] # shell[i + 1][1]) # (shell[i][2] # shell[i + 1][2])

-----------------------------------------------------------------------------
(* Point location                                                          *)

\* IndexedPointInAreaLocator: one ray over the segments of all rings
locate(g, p) ==
    LET segs == LineSegments(g)
    IN  IF \E s \in segs : isOnSegment(p, s[1], s[2]) THEN "boundary"
        ELSE IF Cardinality({s \in segs : crossesRay(p, s[1], s[2])}) % 2 = 1 THEN "interior"
        ELSE "exterior"

\* SimplePointInAreaLocator: a point on the ring of a hole is outside.
containsPoint(g, p) ==
    \E i \in DOMAIN g.parts :
        /\ isPointInRing(p, g.parts[i][1])
        /\ \A j \in 2..Len(g.parts[i]) : ~isPointInRing(p, g.parts[i][j])

\* PointLocator::intersects
pointIntersects(g, p) ==
    CASE g.dim = 0 -> p \in Vertices(g)
      [] g.dim = 1 -> \E s \in LineSegments(g) : liesOn(p, s[1], s[2])
      [] g.dim = 2 -> locate(g, p) # "exterior"

isAnyTargetComponentInAreaTest(target, g) ==
    \E p \in representativePts(target) : containsPoint(g, p)

isAnyTargetComponentInTest(target, g) ==
    \E p \in representativePts(target) : pointIntersects(g, p)

-----------------------------------------------------------------------------
(* RectangleContains and RectangleIntersects                               *)

onEdge(env, p, q) == \/ p[1] = q[1] /\ p[1] \in {env.minx, env.maxx}
                     \/ p[2] = q[2] /\ p[2] \in {env.miny, env.maxy}

isContainedInBoundary(env, g) ==
    CASE g.dim = 0 -> \A p \in Vertices(g) : onEdge(env, p, p)
      [] g.dim = 1 -> \A s \in LineSegments(g) : onEdge(env, s[1], s[2])
      [] g.dim = 2 -> FALSE

rectangleContains(rect, g) ==
    LET env == envelope(rect)
    IN  envContains(env, envelope(g)) /\ ~isContainedInBoundary(env, g)

\* The elements of a collection are tried one by one.
elements(g) == {[dim |-> g.dim, parts |-> <<g.parts[i]>>] : i \in DOMAIN g.parts}

\* EnvelopeIntersectsVisitor: an element that the envelope of the rectangle
\* cuts right across must meet it.
envelopeDecides(env, e) ==
    LET f == envelope(e)
    IN  /\ envIntersects(env, f)
        /\ \/ f.minx >= env.minx /\ f.maxx <= env.maxx
           \/ f.miny >= env.miny /\ f.maxy <= env.maxy

\* ContainsPointVisitor
containsCorner(rect, e) == e.dim = 2 /\ \E p \in Vertices(rect) : containsPoint(e, p)

\* LineIntersectsVisitor, SegmentIntersectionTester
segmentsMeet(g, h) ==
    \E s \in LineSegments(g), t \in LineSegments(h) : hasIntersection(s[1], s[2], t[1], t[2])

rectangleIntersects(rect, g) ==
    LET env == envelope(rect)
    IN  /\ envIntersects(env, envelope(g))
        /\ \E e \in elements(g) : \/ envelopeDecides(env, e)
                                  \/ containsCorner(rect, e)
                                  \/ segmentsMeet(rect, e)

-----------------------------------------------------------------------------
(* The predicates of a prepared polygon: "yes", "no", or how to go on.     *)

answer(b) == IF b THEN "yes" ELSE "no"

\* isAllTestComponentsInTarget and its three siblings come first; "finder"
\* when the segments have to be looked at.
pointTests(pred, target, g) ==
    LET locs == {locate(target, p) : p \in representativePts(g)}
    IN  CASE pred = "intersects" ->
               IF locs # {"exterior"} THEN "yes" ELSE IF g.dim = 0 THEN "no" ELSE "finder"
          [] pred = "containsProperly" -> IF locs # {"interior"} THEN "no" ELSE "finder"
          [] pred \in {"contains", "covers"} ->
               IF "exterior" \in locs THEN "no"
               ELSE IF pred = "contains" /\ g.dim = 0 THEN answer("interior" \in locs)
               ELSE "finder"

isSingleShell(g) == Len(g.parts) = 1 /\ Len(g.parts[1]) = 1

\* AbstractPreparedPolygonContains::eval after the point tests; "topology"
\* asks for the full topological predicate.  The intersections that were
\* found are a set of "proper" and "nonproper".
evalContains(target, g, found) ==
    CASE (g.dim = 2 \/ isSingleShell(target)) /\ "proper" \in found -> "no"
      [] found = {"proper"} -> "no"
      [] "nonproper" \in found /\ ~((g.dim = 2 \/ isSingleShell(target)) /\ "proper" \in found)
            -> "topology"
      [] found = {} -> answer(~(g.dim = 2 /\ isAnyTargetComponentInAreaTest(target, g)))

segmentTests(pred, target, g, found) ==
    CASE pred = "intersects" ->
           answer(found # {} \/ (g.dim = 2 /\ isAnyTargetComponentInAreaTest(target, g)))
      [] pred = "containsProperly" ->
           answer(found = {} /\ ~(g.dim = 2 /\ isAnyTargetComponentInAreaTest(target, g)))
      [] pred \in {"contains", "covers"} -> evalContains(target, g, found)

\* PreparedLineStringIntersects::intersects
lineTests(target, g, found) ==
    CASE found # {} -> "yes"
      [] found = {} /\ g.dim = 0 -> answer(\E p \in representativePts(g) : pointIntersects(target, p))
      [] found = {} /\ g.dim = 1 -> "no"
      [] found = {} /\ g.dim = 2 -> answer(isAnyTargetComponentInTest(target, g))

\* The first decision: the envelopes, and the rectangle; "locator" or
\* "finder" when it takes more, "topology" where BasicPreparedGeometry asks
\* the geometry itself.
envelopeTests(pred, target, g) ==
    LET covered == envContains(envelope(target), envelope(g))
        meets   == envIntersects(envelope(target), envelope(g))
    IN  CASE target.dim = 2 /\ pred = "intersects" ->
               IF ~meets THEN "no"
               ELSE IF isRectangle(target) THEN answer(rectangleIntersects(target, g))
               ELSE "locator"
          [] target.dim = 2 /\ pred # "intersects" ->
               IF ~covered THEN "no"
               ELSE IF isRectangle(target) /\ pred = "contains" THEN answer(rectangleContains(target, g))
               ELSE IF isRectangle(target) /\ pred = "covers" THEN "yes"
               ELSE "locator"
          [] target.dim = 1 /\ pred = "intersects" -> IF meets THEN "finder" ELSE "no"
          [] target.dim = 0 /\ pred = "intersects" ->
               answer(meets /\ isAnyTargetComponentInTest(target, g))
          [] target.dim < 2 /\ pred = "containsProperly" -> IF covered THEN "topology" ELSE "no"
          [] target.dim < 2 /\ pred \in {"contains", "covers"} -> "topology"
=============================================================================
