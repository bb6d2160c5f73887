-------------------------- MODULE PreparedGeometry --------------------------
(***************************************************************************)
(* A prepared geometry and the threads that ask it questions through const *)
(* methods.  The point locator and the intersection finder are built on    *)
(* first use; a finder keeps the chains of the last question and a pointer *)
(* to the detector of whoever asked last, both without a lock.             *)
(***************************************************************************)
EXTENDS PreparedPredicates

CONSTANTS
    Threads,
    Geometries,     \* geometries by name
    Targets,        \* the names that may be prepared
    Tests,          \* the names that may be asked about
    Relation(_, _, _),  \* Geometry::contains, covers, ... of the base geometry
    NULL

ASSUME DimensionAssumption == \A n \in Targets \cup Tests : Geometries[n].dim \in 0..2

Predicates == {"contains", "containsProperly", "covers", "intersects"}

VARIABLES
    target,         \* the base geometry, NULL before create()
    ptOnGeomLoc,    \* is the locator built
    finders,        \* the intersection finders built so far: monoChains, the
                    \* geometries whose chains a finder holds, and segInt,
                    \* the thread whose detector it reports to
    segIntFinder,   \* the finder in use, 0 before the first
    call            \* what each thread is doing

vars == <<target, ptOnGeomLoc, finders, segIntFinder, call>>

NoCall == [pc |-> "idle", pred |-> NULL, geom |-> NULL, finder |-> 0,
           found |-> {}, answer |-> NULL]

Init == /\ target = NULL /\ ptOnGeomLoc = FALSE /\ finders = <<>> /\ segIntFinder = 0
        /\ call = [t \in Threads |-> NoCall]

base == Geometries[target]
test(t) == Geometries[call[t].geom]

\* The call goes on at pc = next, or answers; "topology" asks the base
\* geometry.
proceed(t, c, next) ==
    call' = [call EXCEPT ![t] =
        CASE next \in {"yes", "no"} -> [c EXCEPT !.pc = "answered", !.answer = next]
          [] next = "topology" -> [c EXCEPT !.pc = "answered",
                                            !.answer = answer(Relation(c.pred, target, c.geom))]
          [] OTHER -> [c EXCEPT !.pc = next]]

-----------------------------------------------------------------------------
\* PreparedGeometryFactory::create
Create(name) ==
    /\ target = NULL
    /\ target' = name
    /\ UNCHANGED <<ptOnGeomLoc, finders, segIntFinder, call>>

Ask(t, pred, name) ==
    /\ target # NULL /\ call[t].pc = "idle"
    /\ proceed(t, [NoCall EXCEPT !.pred = pred, !.geom = name],
               envelopeTests(pred, base, Geometries[name]))
    /\ UNCHANGED <<target, ptOnGeomLoc, finders, segIntFinder>>

\* getPointLocator(), and the tests of the representative points
LocatePoints(t) ==
    /\ call[t].pc = "locator"
    /\ ptOnGeomLoc' = TRUE
    /\ proceed(t, call[t], pointTests(call[t].pred, base, test(t)))
    /\ UNCHANGED <<target, finders, segIntFinder>>

\* getIntersectionFinder(): a second thread may see no finder yet and build
\* one more.
GetFinder(t) ==
    /\ call[t].pc = "finder"
    /\ IF segIntFinder # 0
         THEN proceed(t, [call[t] EXCEPT !.finder = segIntFinder], "detector")
         ELSE proceed(t, call[t], "build")
    /\ UNCHANGED <<target, ptOnGeomLoc, finders, segIntFinder>>

BuildFinder(t) ==
    /\ call[t].pc = "build"
    /\ finders' = Append(finders, [monoChains |-> {}, segInt |-> NULL])
    /\ segIntFinder' = Len(finders')
    /\ proceed(t, [call[t] EXCEPT !.finder = Len(finders')], "detector")
    /\ UNCHANGED <<target, ptOnGeomLoc>>

\* FastSegmentSetIntersectionFinder::intersects: setSegmentIntersector
SetDetector(t) ==
    /\ call[t].pc = "detector"
    /\ finders' = [finders EXCEPT ![call[t].finder].segInt = t]
    /\ proceed(t, call[t], "process")
    /\ UNCHANGED <<target, ptOnGeomLoc, segIntFinder>>

\* The chains of the last question are not dropped
Process_KeepsTheLast(t) ==
    /\ call[t].pc = "process"
    /\ finders' = [finders EXCEPT ![call[t].finder].monoChains = @ \cup {call[t].geom}]
    /\ proceed(t, call[t], "intersect")
    /\ UNCHANGED <<target, ptOnGeomLoc, segIntFinder>>

\* MCIndexSegmentSetMutualIntersector::process drops the chains of the last
\* question and adds those of this one.
Process(t) ==
    /\ call[t].pc = "process"
    /\ finders' = [finders EXCEPT ![call[t].finder].monoChains = {call[t].geom}]
    /\ proceed(t, call[t], "intersect")
    /\ UNCHANGED <<target, ptOnGeomLoc, segIntFinder>>

\* intersectChains: what SegmentIntersectionDetector records, in the detector
\* the finder points to.
found(g, chains) ==
    LET pairs == LineSegments(g) \X UNION {LineSegments(Geometries[n]) : n \in chains}
    IN  {IF isProper(p[1][1], p[1][2], p[2][1], p[2][2]) THEN "proper" ELSE "nonproper" :
            p \in {p \in pairs : hasIntersection(p[1][1], p[1][2], p[2][1], p[2][2])}}

IntersectChains(t) ==
    LET f == finders[call[t].finder]
    IN  /\ call[t].pc = "intersect"
        /\ call' = [call EXCEPT ![t].pc = "detected",
                                ![f.segInt].found = @ \cup found(base, f.monoChains)]
        /\ UNCHANGED <<target, ptOnGeomLoc, finders, segIntFinder>>

Conclude(t) ==
    /\ call[t].pc = "detected"
    /\ proceed(t, call[t], IF base.dim = 2
                             THEN segmentTests(call[t].pred, base, test(t), call[t].found)
                             ELSE lineTests(base, test(t), call[t].found))
    /\ UNCHANGED <<target, ptOnGeomLoc, finders, segIntFinder>>

Return(t) ==
    /\ call[t].pc = "answered"
    /\ call' = [call EXCEPT ![t] = NoCall]
    /\ UNCHANGED <<target, ptOnGeomLoc, finders, segIntFinder>>

\* No call is running: the prepared geometry is destroyed.
Destroy ==
    /\ target # NULL /\ \A t \in Threads : call[t].pc = "idle"
    /\ target' = NULL /\ ptOnGeomLoc' = FALSE /\ finders' = <<>> /\ segIntFinder' = 0
    /\ UNCHANGED call

Next == \/ \E name \in Targets : Create(name)
        \/ \E t \in Threads, pred \in Predicates, name \in Tests : Ask(t, pred, name)
        \/ \E t \in Threads : \/ LocatePoints(t) \/ GetFinder(t) \/ BuildFinder(t)
                              \/ SetDetector(t) \/ Process(t) \/ IntersectChains(t)
                              \/ Conclude(t) \/ Return(t)
        \/ Destroy

Spec == Init /\ [][Next]_vars

-----------------------------------------------------------------------------
(* Properties                                                              *)

\* A predicate of a prepared geometry says what the predicate of the geometry it
\* was made of says ("@see Geometry#contains(Geometry)", PreparedGeometry.h),
\* whatever was asked before: neither the shortcuts over points and segments nor
\* the caches left by earlier calls change it.
PreparedAgrees ==
    \A t \in Threads : call[t].pc = "answered" =>
        call[t].answer = answer(Relation(call[t].pred, target, call[t].geom))

\* What the tests say of geometry b when a was just prepared and nothing is cached:
\* first the envelopes, then the points, then the segments.
resolved(d, pred, a, b) == IF d = "topology" THEN answer(Relation(pred, a, b)) ELSE d

first(pred, a, b)    == envelopeTests(pred, Geometries[a], Geometries[b])
byPoints(pred, a, b) == pointTests(pred, Geometries[a], Geometries[b])
bySegments(pred, a, b) ==
    LET g == Geometries[a]
    IN  IF g.dim = 2 THEN segmentTests(pred, g, Geometries[b], found(g, {b}))
                     ELSE lineTests(g, Geometries[b], found(g, {b}))

decision(pred, a, b) ==
    LET last == IF first(pred, a, b) = "locator" THEN byPoints(pred, a, b) ELSE first(pred, a, b)
    IN  resolved(IF last = "finder" THEN bySegments(pred, a, b) ELSE last, pred, a, b)

SingleThread == \A t, u \in Threads : t = u

\* What the tests must decide for a geometry without caches to be right.
TestsDecide == \A pred \in Predicates, a \in Targets, b \in Tests :
                  decision(pred, a, b) = answer(Relation(pred, a, b))
=============================================================================
