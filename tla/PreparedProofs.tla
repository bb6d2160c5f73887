--------------------------- MODULE PreparedProofs ---------------------------
(***************************************************************************)
(* One thread may ask what it likes, in any order: no answer depends on    *)
(* the locator, the finder, its chains or its detector as an earlier       *)
(* question left them.  Each is rebuilt or replaced before it is read.     *)
(***************************************************************************)
EXTENDS PreparedGeometry, TLAPS

\* The answer is that of a geometry prepared for this question only.
AnswersAreFresh ==
    \A t \in Threads : call[t].pc = "answered" =>
        call[t].answer = decision(call[t].pred, target, call[t].geom)

-----------------------------------------------------------------------------
CallRecord(pc, pred, geom, finder, fnd, ans) ==
    [pc |-> pc, pred |-> pred, geom |-> geom, finder |-> finder, found |-> fnd, answer |-> ans]

IsCall(c) == c = CallRecord(c.pc, c.pred, c.geom, c.finder, c.found, c.answer)

Searching == {"finder", "build", "detector", "process", "intersect", "detected"}

\* How far a call has come, and what it may rely on there.
CallInv(t) ==
    LET c == call[t]
    IN  /\ IsCall(c)
        /\ c.pc \in Searching \cup {"idle", "locator", "answered"}
        /\ c.pc # "idle" => target \in Targets /\ c.pred \in Predicates /\ c.geom \in Tests
        /\ c.pc = "locator" => first(c.pred, target, c.geom) = "locator"
        /\ c.pc \in Searching =>
              \/ first(c.pred, target, c.geom) = "finder"
              \/ /\ first(c.pred, target, c.geom) = "locator"
                 /\ byPoints(c.pred, target, c.geom) = "finder"
        /\ c.pc \in (Searching \ {"detected"}) \cup {"locator"} => c.found = {}
        /\ c.pc \in Searching \ {"finder", "build"} => c.finder \in DOMAIN finders
        /\ c.pc \in {"process", "intersect"} => finders[c.finder].segInt = t
        /\ c.pc = "intersect" => finders[c.finder].monoChains = {c.geom}
        /\ c.pc = "detected" => c.found = found(base, {c.geom})
        /\ c.pc = "answered" => c.answer = decision(c.pred, target, c.geom)

CacheInv ==
    /\ call = [t \in Threads |-> call[t]]
    /\ finders \in Seq([monoChains : SUBSET Tests, segInt : Threads \cup {NULL}])
    /\ segIntFinder \in 0..Len(finders)
    /\ target \in Targets \cup {NULL}
    /\ target = NULL => \A t \in Threads : call[t].pc = "idle"
    /\ \A t \in Threads : CallInv(t)

\* The tests answer, or hand on to the next ones.
LEMMA FirstValues ==
    ASSUME NEW pred \in Predicates, NEW a \in Targets, NEW b \in Tests
    PROVE  first(pred, a, b) \in {"yes", "no", "locator", "finder", "topology"}
<1> DEFINE g == Geometries[a]
<1>1. g.dim \in 0..2
  BY DimensionAssumption
<1>2. CASE g.dim = 2
  BY <1>2 DEF first, envelopeTests, answer
<1>3. CASE g.dim = 1
  BY <1>3 DEF first, envelopeTests, answer, Predicates
<1>4. CASE g.dim = 0
  BY <1>4 DEF first, envelopeTests, answer, Predicates
<1> QED
  BY <1>1, <1>2, <1>3, <1>4

LEMMA PointValues ==
    ASSUME NEW pred \in Predicates, NEW a \in Targets, NEW b \in Tests
    PROVE  byPoints(pred, a, b) \in {"yes", "no", "finder"}
BY DEF byPoints, pointTests, answer, Predicates

LEMMA SegmentValues ==
    ASSUME NEW pred \in Predicates, NEW a \in Targets, NEW b \in Tests
    PROVE  bySegments(pred, a, b) \in {"yes", "no", "topology"}
<1> DEFINE F == found(Geometries[a], {b})
           h == Geometries[b]
           g == Geometries[a]
<1>1. \A x \in F : x \in {"proper", "nonproper"}
  BY DEF found
<1>2. h.dim \in 0..2
  BY DimensionAssumption
<1> HIDE DEF F
<1>3. F = {} \/ F = {"proper"} \/ "nonproper" \in F
  BY <1>1
<1>4. lineTests(g, h, F) \in {"yes", "no", "topology"}
  BY <1>2 DEF lineTests, answer
<1>5. evalContains(g, h, F) \in {"yes", "no", "topology"}
  BY <1>3 DEF evalContains, answer
<1>6. segmentTests(pred, g, h, F) \in {"yes", "no", "topology"}
  BY <1>5 DEF segmentTests, answer, Predicates
<1> QED
  BY <1>4, <1>6 DEF bySegments, F

\* A step of a call changes no other call, and ends it or takes it further.
LEMMA Proceeding ==
    ASSUME CacheInv, NEW t \in Threads, NEW c, IsCall(c), NEW next, proceed(t, c, next)
    PROVE  /\ call' = [u \in Threads |-> call'[u]]
           /\ next \in {"yes", "no"} =>
                 call'[t] = CallRecord("answered", c.pred, c.geom, c.finder, c.found, next)
           /\ next = "topology" =>
                 call'[t] = CallRecord("answered", c.pred, c.geom, c.finder, c.found,
                                       answer(Relation(c.pred, target, c.geom)))
           /\ next \notin {"yes", "no", "topology"} =>
                 call'[t] = CallRecord(next, c.pred, c.geom, c.finder, c.found, c.answer)
<1> DEFINE r == CASE next \in {"yes", "no"} -> [c EXCEPT !.pc = "answered", !.answer = next]
                  [] next = "topology" -> [c EXCEPT !.pc = "answered",
                                                    !.answer = answer(Relation(c.pred, target, c.geom))]
                  [] OTHER -> [c EXCEPT !.pc = next]
<1>1. call' = [call EXCEPT ![t] = r]
  BY DEF proceed
<1>2. call = [u \in Threads |-> call[u]]
  BY DEF CacheInv
<1>3. call'[t] = r /\ call' = [u \in Threads |-> call'[u]]
  <2> HIDE DEF r
  <2> QED
    BY <1>1, <1>2
<1>4. c = CallRecord(c.pc, c.pred, c.geom, c.finder, c.found, c.answer)
  BY DEF IsCall
<1>5. CASE next \in {"yes", "no"}
  BY <1>3, <1>4, <1>5 DEF CallRecord
<1>6. CASE next = "topology"
  <2> DEFINE x == answer(Relation(c.pred, target, c.geom))
  <2>1. r = [c EXCEPT !.pc = "answered", !.answer = x]
    BY <1>6
  <2> HIDE DEF x, r
  <2>2. r = CallRecord("answered", c.pred, c.geom, c.finder, c.found, x)
    BY <2>1, <1>4 DEF CallRecord
  <2> QED
    BY <1>3, <1>6, <2>2 DEF x
<1>7. CASE next \notin {"yes", "no", "topology"}
  BY <1>3, <1>4, <1>7 DEF CallRecord
<1> QED
  BY <1>3, <1>5, <1>6, <1>7

\* What holds of the one call holds of all.
LEMMA OneCall ==
    ASSUME SingleThread, CacheInv, NEW t \in Threads,
           call' = [u \in Threads |-> call'[u]], target' = target, target # NULL,
           finders' \in Seq([monoChains : SUBSET Tests, segInt : Threads \cup {NULL}]),
           segIntFinder' \in 0..Len(finders'), CallInv(t)'
    PROVE  CacheInv'
<1>1. \A u \in Threads : u = t
  BY DEF SingleThread
<1>2. \A u \in Threads : CallInv(u)'
  BY <1>1
<1> QED
  BY <1>2 DEF CacheInv

LEMMA InitCacheInv == Init => CacheInv
<1> SUFFICES ASSUME Init PROVE CacheInv
  OBVIOUS
<1>1. \A t \in Threads : call[t] = CallRecord("idle", NULL, NULL, 0, {}, NULL)
  BY DEF Init, NoCall, CallRecord
<1>2. \A t \in Threads : CallInv(t)
  BY <1>1 DEF CallInv, IsCall, CallRecord, Searching
<1> QED
  BY <1>1, <1>2 DEF Init, CacheInv, CallRecord

LEMMA NextCacheInv == ASSUME SingleThread, CacheInv, [Next]_vars PROVE CacheInv'
<1> DEFINE Finder == [monoChains : SUBSET Tests, segInt : Threads \cup {NULL}]
<1>0. /\ finders \in Seq(Finder) /\ segIntFinder \in 0..Len(finders)
      /\ DOMAIN finders = 1..Len(finders) /\ Len(finders) \in Nat
      /\ \A t \in Threads : CallInv(t) /\ IsCall(call[t]) /\ (call[t].pc # "idle" => target # NULL)
  <2>1. finders \in Seq(Finder) /\ segIntFinder \in 0..Len(finders)
    BY DEF CacheInv
  <2> HIDE DEF Finder
  <2>2. DOMAIN finders = 1..Len(finders) /\ Len(finders) \in Nat
    BY <2>1
  <2>3. \A t \in Threads : CallInv(t) /\ (call[t].pc # "idle" => target # NULL)
    BY DEF CacheInv
  <2>4. \A t \in Threads : IsCall(call[t])
    BY <2>3 DEF CallInv
  <2> QED
    BY <2>1, <2>2, <2>3, <2>4
<1>1. ASSUME NEW name \in Targets, Create(name) PROVE CacheInv'
  <2>1. \A t \in Threads : call'[t] = call[t] /\ call[t].pc = "idle"
    BY <1>1 DEF Create, CacheInv
  <2>2. \A t \in Threads : CallInv(t)'
    BY <1>0, <2>1 DEF CallInv, Searching
  <2> QED
    BY <1>0, <1>1, <2>1, <2>2 DEF Create, CacheInv
<1>2. ASSUME NEW t \in Threads, NEW pred \in Predicates, NEW name \in Tests, Ask(t, pred, name)
      PROVE  CacheInv'
  <2> DEFINE c == CallRecord("idle", pred, name, 0, {}, NULL)
             f == first(pred, target, name)
  <2>1. /\ target # NULL /\ call[t].pc = "idle" /\ proceed(t, c, f)
        /\ UNCHANGED <<target, finders, segIntFinder>> /\ target \in Targets
    <3>1. [NoCall EXCEPT !.pred = pred, !.geom = name] = c
      <4> DEFINE r == [NoCall EXCEPT !.pred = pred]
      <4>1. r = [pc |-> "idle", pred |-> pred, geom |-> NULL, finder |-> 0, found |-> {}, answer |-> NULL]
        BY DEF NoCall
      <4> HIDE DEF r
      <4>2. [r EXCEPT !.geom = name] = c
        BY <4>1 DEF CallRecord
      <4> QED
        BY <4>1, <4>2 DEF r, NoCall
    <3>2. target \in Targets \cup {NULL}
      BY DEF CacheInv
    <3> HIDE DEF c
    <3> QED
      BY <1>2, <3>1, <3>2 DEF Ask, first, base
  <2>2. IsCall(c) /\ c.pred = pred /\ c.geom = name /\ c.finder = 0 /\ c.found = {} /\ c.answer = NULL
    BY DEF IsCall, CallRecord
  <2>3. f \in {"yes", "no", "locator", "finder", "topology"}
    BY <2>1, FirstValues
  <2> HIDE DEF c, f
  <2>4. /\ call' = [u \in Threads |-> call'[u]]
        /\ f \in {"yes", "no"} => call'[t] = CallRecord("answered", pred, name, 0, {}, f)
        /\ f = "topology" =>
             call'[t] = CallRecord("answered", pred, name, 0, {}, answer(Relation(pred, target, name)))
        /\ f \notin {"yes", "no", "topology"} => call'[t] = CallRecord(f, pred, name, 0, {}, NULL)
    BY <2>1, <2>2, Proceeding
  <2>5. CallInv(t)'
    <3>1. CASE f \in {"yes", "no"}
      <4>1. decision(pred, target, name) = f
        BY <3>1 DEF decision, resolved, f
      <4> QED
        BY <2>1, <2>4, <3>1, <4>1 DEF CallInv, IsCall, CallRecord, Searching
    <3>2. CASE f = "topology"
      <4>1. decision(pred, target, name) = answer(Relation(pred, target, name))
        BY <3>2 DEF decision, resolved, f
      <4> QED
        BY <2>1, <2>4, <3>2, <4>1 DEF CallInv, IsCall, CallRecord, Searching
    <3>3. CASE f = "locator"
      BY <2>1, <2>4, <3>3 DEF CallInv, IsCall, CallRecord, Searching, f
    <3>4. CASE f = "finder"
      BY <2>1, <2>4, <3>4 DEF CallInv, IsCall, CallRecord, Searching, f
    <3> QED
      BY <2>3, <3>1, <3>2, <3>3, <3>4
  <2> QED
    BY <1>0, <2>1, <2>4, <2>5, OneCall
<1>3. ASSUME NEW t \in Threads, LocatePoints(t) PROVE CacheInv'
  <2> DEFINE c == call[t]
             f == byPoints(c.pred, target, c.geom)
  <2>1. /\ c.pc = "locator" /\ proceed(t, c, f) /\ UNCHANGED <<target, finders, segIntFinder>>
        /\ IsCall(c) /\ target \in Targets /\ target # NULL /\ c.pred \in Predicates /\ c.geom \in Tests
        /\ first(c.pred, target, c.geom) = "locator" /\ c.found = {}
    BY <1>0, <1>3 DEF LocatePoints, byPoints, base, test, CallInv
  <2>2. f \in {"yes", "no", "finder"}
    BY <2>1, PointValues
  <2> HIDE DEF c, f
  <2>3. /\ call' = [u \in Threads |-> call'[u]]
        /\ f \in {"yes", "no"} => call'[t] = CallRecord("answered", c.pred, c.geom, c.finder, c.found, f)
        /\ f = "finder" => call'[t] = CallRecord("finder", c.pred, c.geom, c.finder, c.found, c.answer)
    BY <2>1, <2>2, Proceeding
  <2>4. CallInv(t)'
    <3>1. CASE f \in {"yes", "no"}
      <4>1. decision(c.pred, target, c.geom) = f
        BY <2>1, <3>1 DEF decision, resolved, f
      <4> QED
        BY <2>1, <2>3, <3>1, <4>1 DEF CallInv, IsCall, CallRecord, Searching
    <3>2. CASE f = "finder"
      BY <2>1, <2>3, <3>2 DEF CallInv, IsCall, CallRecord, Searching, f
    <3> QED
      BY <2>2, <3>1, <3>2
  <2> QED
    BY <1>0, <2>1, <2>3, <2>4, OneCall
<1>4. ASSUME NEW t \in Threads, GetFinder(t) PROVE CacheInv'
  <2> DEFINE c == call[t]
             d == CallRecord(c.pc, c.pred, c.geom, segIntFinder, c.found, c.answer)
  <2>1. /\ c.pc = "finder" /\ UNCHANGED <<target, finders, segIntFinder>>
        /\ IsCall(c) /\ CallInv(t) /\ target # NULL
    BY <1>0, <1>4 DEF GetFinder
  <2>2. [c EXCEPT !.finder = segIntFinder] = d /\ IsCall(d) /\ d.pred = c.pred /\ d.geom = c.geom
        /\ d.finder = segIntFinder /\ d.found = c.found /\ d.answer = c.answer
    BY <2>1 DEF IsCall, CallRecord
  <2> HIDE DEF d
  <2>3. CASE segIntFinder # 0
    <3>1. proceed(t, d, "detector")
      BY <1>4, <2>2, <2>3 DEF GetFinder
    <3>2. /\ call' = [u \in Threads |-> call'[u]]
          /\ call'[t] = CallRecord("detector", c.pred, c.geom, segIntFinder, c.found, c.answer)
      BY <2>2, <3>1, Proceeding
    <3>3. CallInv(t)'
      BY <1>0, <2>1, <2>3, <3>2 DEF CallInv, IsCall, CallRecord, Searching
    <3> QED
      BY <1>0, <2>1, <3>2, <3>3, OneCall
  <2>4. CASE segIntFinder = 0
    <3>1. proceed(t, c, "build")
      BY <1>4, <2>4 DEF GetFinder
    <3> HIDE DEF c
    <3>2. /\ call' = [u \in Threads |-> call'[u]]
          /\ call'[t] = CallRecord("build", c.pred, c.geom, c.finder, c.found, c.answer)
      BY <2>1, <3>1, Proceeding
    <3>3. CallInv(t)'
      BY <2>1, <3>2 DEF CallInv, IsCall, CallRecord, Searching, c
    <3> QED
      BY <1>0, <2>1, <3>2, <3>3, OneCall
  <2> QED
    BY <2>3, <2>4
<1>5. ASSUME NEW t \in Threads, BuildFinder(t) PROVE CacheInv'
  <2> DEFINE c == call[t]
             n == Len(finders) + 1
             d == CallRecord(c.pc, c.pred, c.geom, n, c.found, c.answer)
             new == [monoChains |-> {}, segInt |-> NULL]
  <2>1. /\ c.pc = "build" /\ target' = target /\ finders' = Append(finders, new) /\ segIntFinder' = Len(finders')
        /\ IsCall(c) /\ CallInv(t) /\ target # NULL
    BY <1>0, <1>5 DEF BuildFinder
  <2>2. new \in Finder
    OBVIOUS
  <2> HIDE DEF new, Finder
  <2>3. finders' \in Seq(Finder) /\ Len(finders') = n /\ DOMAIN finders' = 1..n /\ n \in 1..n /\ n \in 0..n
    BY <1>0, <2>1, <2>2
  <2>4. [c EXCEPT !.finder = n] = d /\ IsCall(d) /\ d.pred = c.pred /\ d.geom = c.geom
        /\ d.finder = n /\ d.found = c.found /\ d.answer = c.answer
    BY <2>1 DEF IsCall, CallRecord
  <2>5. proceed(t, d, "detector")
    BY <1>5, <2>3, <2>4 DEF BuildFinder
  <2> HIDE DEF d, n
  <2>6. /\ call' = [u \in Threads |-> call'[u]]
        /\ call'[t] = CallRecord("detector", c.pred, c.geom, n, c.found, c.answer)
    BY <2>4, <2>5, Proceeding
  <2>7. CallInv(t)'
    BY <2>1, <2>3, <2>6 DEF CallInv, IsCall, CallRecord, Searching
  <2> QED
    BY <2>1, <2>3, <2>6, <2>7, OneCall DEF Finder
<1>6. ASSUME NEW t \in Threads, SetDetector(t) PROVE CacheInv'
  <2> DEFINE c == call[t]
             k == c.finder
  <2>1. /\ c.pc = "detector" /\ UNCHANGED <<target, segIntFinder>> /\ proceed(t, c, "process")
        /\ finders' = [finders EXCEPT ![k].segInt = t]
        /\ IsCall(c) /\ CallInv(t) /\ target # NULL /\ k \in DOMAIN finders
    BY <1>0, <1>6 DEF SetDetector, CallInv, Searching
  <2>2. finders[k] \in Finder
    <3> HIDE DEF Finder, k
    <3> QED
      BY <1>0, <2>1
  <2> HIDE DEF c, k
  <2>3. /\ finders' \in Seq(Finder) /\ Len(finders') = Len(finders) /\ DOMAIN finders' = DOMAIN finders
        /\ finders'[k].segInt = t
    BY <1>0, <2>1, <2>2
  <2>4. /\ call' = [u \in Threads |-> call'[u]]
        /\ call'[t] = CallRecord("process", c.pred, c.geom, c.finder, c.found, c.answer)
    BY <2>1, Proceeding
  <2>5. CallInv(t)'
    BY <2>1, <2>3, <2>4 DEF CallInv, IsCall, CallRecord, Searching, c, k
  <2> QED
    BY <1>0, <2>1, <2>3, <2>4, <2>5, OneCall
<1>7. ASSUME NEW t \in Threads, Process(t) PROVE CacheInv'
  <2> DEFINE c == call[t]
             k == c.finder
  <2>1. /\ c.pc = "process" /\ UNCHANGED <<target, segIntFinder>> /\ proceed(t, c, "intersect")
        /\ finders' = [finders EXCEPT ![k].monoChains = {c.geom}]
        /\ IsCall(c) /\ CallInv(t) /\ target # NULL /\ k \in DOMAIN finders /\ c.geom \in Tests
        /\ finders[k].segInt = t
    BY <1>0, <1>7 DEF Process, CallInv, Searching
  <2>2. finders[k] \in Finder
    <3> HIDE DEF Finder, k
    <3> QED
      BY <1>0, <2>1
  <2> HIDE DEF c, k
  <2>3. /\ finders' \in Seq(Finder) /\ Len(finders') = Len(finders) /\ DOMAIN finders' = DOMAIN finders
        /\ finders'[k].segInt = t /\ finders'[k].monoChains = {c.geom}
    BY <1>0, <2>1, <2>2
  <2>4. /\ call' = [u \in Threads |-> call'[u]]
        /\ call'[t] = CallRecord("intersect", c.pred, c.geom, c.finder, c.found, c.answer)
    BY <2>1, Proceeding
  <2>5. CallInv(t)'
    BY <2>1, <2>3, <2>4 DEF CallInv, IsCall, CallRecord, Searching, c, k
  <2> QED
    BY <1>0, <2>1, <2>3, <2>4, <2>5, OneCall
<1>8. ASSUME NEW t \in Threads, IntersectChains(t) PROVE CacheInv'
  <2> DEFINE c == call[t]
             k == c.finder
             F == found(base, {c.geom})
  <2>1. /\ c.pc = "intersect" /\ UNCHANGED <<target, finders, segIntFinder>>
        /\ IsCall(c) /\ CallInv(t) /\ target # NULL /\ c.found = {}
        /\ finders[k].segInt = t /\ finders[k].monoChains = {c.geom}
    BY <1>0, <1>8 DEF IntersectChains, CallInv, Searching
  <2>2. call' = [call EXCEPT ![t].pc = "detected", ![t].found = @ \cup F]
    BY <1>8, <2>1 DEF IntersectChains
  <2>3. call = [u \in Threads |-> call[u]] /\ base' = base
    BY <2>1 DEF CacheInv, base
  <2> HIDE DEF F
  <2>4. /\ call' = [u \in Threads |-> call'[u]]
        /\ call'[t] = CallRecord("detected", c.pred, c.geom, c.finder, F, c.answer)
    BY <2>1, <2>2, <2>3 DEF IsCall, CallRecord
  <2>5. CallInv(t)'
    BY <2>1, <2>3, <2>4 DEF CallInv, IsCall, CallRecord, Searching, F
  <2> QED
    BY <1>0, <2>1, <2>4, <2>5, OneCall
<1>9. ASSUME NEW t \in Threads, Conclude(t) PROVE CacheInv'
  <2> DEFINE c == call[t]
             f == bySegments(c.pred, target, c.geom)
  <2>1. /\ c.pc = "detected" /\ UNCHANGED <<target, finders, segIntFinder>>
        /\ IsCall(c) /\ target \in Targets /\ target # NULL /\ c.pred \in Predicates /\ c.geom \in Tests
        /\ c.found = found(base, {c.geom})
        /\ \/ first(c.pred, target, c.geom) = "finder"
           \/ /\ first(c.pred, target, c.geom) = "locator"
              /\ byPoints(c.pred, target, c.geom) = "finder"
    BY <1>0, <1>9 DEF Conclude, CallInv, Searching
  <2>2. proceed(t, c, f)
    BY <1>9, <2>1 DEF Conclude, bySegments, base, test
  <2>3. f \in {"yes", "no", "topology"}
    BY <2>1, SegmentValues
  <2>4. decision(c.pred, target, c.geom) = resolved(f, c.pred, target, c.geom)
    BY <2>1 DEF decision
  <2> HIDE DEF c, f
  <2>5. /\ call' = [u \in Threads |-> call'[u]]
        /\ f \in {"yes", "no"} => call'[t] = CallRecord("answered", c.pred, c.geom, c.finder, c.found, f)
        /\ f = "topology" => call'[t] = CallRecord("answered", c.pred, c.geom, c.finder, c.found,
                                                    answer(Relation(c.pred, target, c.geom)))
    BY <2>1, <2>2, <2>3, Proceeding
  <2>6. call'[t] = CallRecord("answered", c.pred, c.geom, c.finder, c.found, decision(c.pred, target, c.geom))
    BY <2>3, <2>4, <2>5 DEF resolved
  <2>7. CallInv(t)'
    BY <2>1, <2>6 DEF CallInv, IsCall, CallRecord, Searching
  <2> QED
    BY <1>0, <2>1, <2>5, <2>7, OneCall
<1>10. ASSUME NEW t \in Threads, Return(t) PROVE CacheInv'
  <2>1. call[t].pc = "answered" /\ UNCHANGED <<target, finders, segIntFinder>> /\ target # NULL
    BY <1>0, <1>10 DEF Return
  <2>2. /\ call' = [u \in Threads |-> call'[u]]
        /\ call'[t] = CallRecord("idle", NULL, NULL, 0, {}, NULL)
    BY <1>10 DEF Return, CacheInv, NoCall, CallRecord
  <2>3. CallInv(t)'
    BY <2>2 DEF CallInv, IsCall, CallRecord, Searching
  <2> QED
    BY <1>0, <2>1, <2>2, <2>3, OneCall
<1>11. CASE Destroy
  <2>1. \A t \in Threads : call'[t] = call[t] /\ call[t].pc = "idle"
    BY <1>11 DEF Destroy, CacheInv
  <2>2. \A t \in Threads : CallInv(t)'
    BY <1>0, <2>1 DEF CallInv, Searching
  <2> QED
    BY <1>11, <2>1, <2>2 DEF Destroy, CacheInv
<1>12. CASE UNCHANGED vars
  <2>1. \A t \in Threads : CallInv(t)'
    BY <1>0, <1>12 DEF vars, CallInv, base
  <2> QED
    BY <1>12, <2>1 DEF vars, CacheInv
<1> QED
  BY <1>1, <1>2, <1>3, <1>4, <1>5, <1>6, <1>7, <1>8, <1>9, <1>10, <1>11, <1>12 DEF Next

\* With one thread, an answer depends on nothing but the question: not on what was
\* asked before, nor on what the caches hold (PreparedPolygon.cpp,
\* FastSegmentSetIntersectionFinder.cpp).
THEOREM AnswersDependOnNoCache == ASSUME SingleThread PROVE Spec => []AnswersAreFresh
<1>1. CacheInv => AnswersAreFresh
  BY DEF CacheInv, CallInv, AnswersAreFresh
<1> QED
  BY <1>1, InitCacheInv, NextCacheInv, SingleThread, PTL DEF Spec

\* If the tests are right for geometries just prepared, no sequence of questions of
\* one thread gets a wrong answer.
THEOREM PreparedIsRight == ASSUME SingleThread, TestsDecide PROVE Spec => []PreparedAgrees
<1>1. CacheInv => PreparedAgrees
  BY TestsDecide DEF CacheInv, CallInv, PreparedAgrees, TestsDecide
<1> QED
  BY <1>1, InitCacheInv, NextCacheInv, SingleThread, PTL DEF Spec
=============================================================================
