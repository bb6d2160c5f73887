-------------------------------- MODULE CApi --------------------------------
(***************************************************************************)
(* The C interface of GEOS, as a caller sees it: the context with its      *)
(* error handlers, the objects it was handed and must destroy, the         *)
(* pointers into objects it only borrows, and the outcome of every call.   *)
(* Functions that treat these alike are one family; what a family computes *)
(* is left open, and so is whether it throws.                              *)
(*                                                                         *)
(* The caller keeps the rules of geos_c.h: it passes pointers it owns or   *)
(* borrows, forgets borrowed pointers with the object they lead into, and  *)
(* destroys what it owns.  It also destroys a prepared geometry or a tree  *)
(* before the geometries these point to, which the header does not say.    *)
(* A sequence handed to a constructor is gone even when the constructor    *)
(* fails; the parts handed to a polygon or a collection are not.           *)
(***************************************************************************)
EXTENDS GeometryHeap

CONSTANTS Handlers,         \* the message handlers of the caller
          MaxCalls,         \* bound on the calls that change the heap or the context
          Classes,          \* the classes of collections the caller makes
          PointArguments    \* sizes of the sequences copied into points

ASSUME ApiAssumption ==
    /\ NULL \notin Handlers /\ MaxCalls \in Nat
    /\ Classes \subseteq Multi /\ PointArguments \subseteq Sizes

VARIABLES heap,
          mine,        \* the objects the caller has to destroy
          borrowed,    \* the pointers to internal storage it keeps
          handle,      \* NULL or the context: [old, new] error handlers
          latest,      \* history: the error handler set last
          known,       \* history: the objects alive the caller owned at some time
          outcome,     \* of the last call: [failed, told], told the handlers called
          twice,       \* an object was deleted twice
          calls
vars == <<heap, mine, borrowed, handle, latest, known, outcome, twice, calls>>
contextVars == <<handle, latest>>

ok == [failed |-> FALSE, told |-> <<>>]

Init ==
    /\ heap = [x \in {} |-> NULL] /\ mine = {} /\ borrowed = {}
    /\ handle = NULL /\ latest = NULL /\ known = {} /\ twice = FALSE
    /\ outcome = ok
    /\ calls = 0

-----------------------------------------------------------------------------
(* The context.                                                            *)

\* ERROR_MESSAGE: the handlers it calls.
ERROR_MESSAGE ==
    IF handle.old # NULL THEN <<handle.old>>
    ELSE IF handle.new # NULL THEN <<handle.new>> ELSE <<>>

\* A call that throws tells the handler; one without a context tells nobody.
thrown  == [failed |-> TRUE, told |-> ERROR_MESSAGE]
refused == [failed |-> TRUE, told |-> <<>>]

setErrorHandler(h) == [old |-> h, new |-> NULL]

\* Mutant: the handler of the old style stays and is preferred.
setErrorMessageHandler_KeepsOld(h) == [old |-> handle.old, new |-> h]

setErrorMessageHandler(h) == [old |-> NULL, new |-> h]

\* A call that changes objects or the context is counted.
Count == calls < MaxCalls /\ calls' = calls + 1
Context(c, h) ==
    /\ handle' = c /\ latest' = h /\ outcome' = ok
    /\ Count /\ UNCHANGED <<heap, mine, borrowed, known, twice>>

\* initGEOS: a second call sets the handlers of the context there is.
initGEOS(ef) == Context(setErrorHandler(ef), ef)

finishGEOS == handle # NULL /\ Context(NULL, NULL)

GEOSContext_setErrorHandler(ef) == handle # NULL /\ Context(setErrorHandler(ef), ef)

GEOSContext_setErrorMessageHandler(ef) ==
    handle # NULL /\ Context(setErrorMessageHandler(ef), ef)

-----------------------------------------------------------------------------
(* Calls.                                                                  *)
Of(kinds) == {x \in (mine \cup borrowed) \cap DOMAIN heap : heap[x].kind \in kinds}
Kept == mine \cup borrowed

\* The heap becomes h and the caller's own objects os.
Objects(h, os) ==
    /\ heap' = h /\ mine' = os
    /\ known' = (known \cup os) \cap DOMAIN h
    /\ Count
    /\ UNCHANGED <<borrowed, contextVars>>

\* A function that gives nothing to the caller and changes nothing it sees.
Answer(o) == outcome' = o /\ UNCHANGED <<heap, mine, borrowed, contextVars, known, twice, calls>>

\* The caller has an argument of each of these sets of kinds.
Has(args) == \A ks \in args : Of(ks) # {}

\* A function that only reads its arguments fails without a context, and else
\* answers or throws.
Query(args) ==
    /\ Has(args)
    /\ IF handle = NULL THEN Answer(refused) ELSE \E o \in {ok, thrown} : Answer(o)

\* One that takes geometries of some classes only.
QueryOnly(kinds) ==
    \E g \in Of(Geometry) :
        IF handle # NULL /\ heap[g].kind \notin kinds THEN Answer(thrown) ELSE Query({{heap[g].kind}})

\* A new object of kind k for the caller; a geometry computed is an empty
\* collection or a line with its sequence.
New(k) ==
    LET at == Fresh(heap, Kept, IF k = "line" THEN 2 ELSE 1)
    IN  /\ at # <<>>
        /\ IF k = "line"
           THEN Objects(Put(Put(heap, at[1], Sequence(0)), at[2], Made(k, {at[1]})),
                        mine \cup {at[2]})
           ELSE Objects(Put(heap, at[1], Made(k, {})), mine \cup {at[1]})
        /\ UNCHANGED twice

\* A function that reads its arguments and returns a new object of one of the kinds.
Give(args, kinds) ==
    \/ /\ handle # NULL /\ Has(args)
       /\ \E k \in kinds : New(k)
       /\ outcome' = ok
    \/ Has(args) /\ Answer(IF handle = NULL THEN refused ELSE thrown)

Derived == {"line", "collection"}

\* A function that takes the objects S over: it leaves the heap r.heap and gives
\* the caller r.ret.  When it throws, the caller regards the objects lost as gone.
TakeOver(S, lost, r) ==
    /\ Objects(r.heap, IF r.ret = NULL THEN mine \ lost ELSE (mine \ S) \cup {r.ret})
    /\ outcome' = (IF r.ret = NULL THEN thrown ELSE ok)
    /\ UNCHANGED twice

\* A pointer into an argument.
Borrow(p) ==
    /\ borrowed' = borrowed \cup ({p} \ mine) /\ outcome' = ok
    /\ Count /\ UNCHANGED <<heap, mine, contextVars, known, twice>>

\* Nothing alive outside the tree of x points into it.
Unreferenced(x) ==
    \A y \in DOMAIN heap \ Tree(heap, {x}) : heap[y].refs \cap Tree(heap, {x}) = {}

\* delete x: done before the context is looked at.
Destroy(x) ==
    /\ x \in mine
    /\ Unreferenced(x)
    /\ heap' = Drop(heap, Tree(heap, {x})) /\ mine' = mine \ {x}
    /\ borrowed' = borrowed \ Tree(heap, {x})
    /\ known' = known \cap DOMAIN heap'
    /\ twice' = (twice \/ x \notin DOMAIN heap)
    /\ outcome' = (IF handle = NULL THEN refused ELSE ok)
    /\ Count /\ UNCHANGED contextVars

-----------------------------------------------------------------------------
(* Questions about geometries.                                             *)
Two == {Geometry}    \* both arguments are geometries, perhaps the same

DisjointTouchesIntersectsCrosses == Query(Two)
WithinContainsOverlapsCovers == Query(Two)
RelatePatterns == Query(Two)
Equals == Query(Two)
isValid == Query({Geometry})
AreaLengthDistance == Query(Two)
HausdorffDistance == Query(Two)
EmptySimpleRing == Query({Geometry})
GeomType == Query({Geometry})
Counts == Query({Geometry})
isClosed == QueryOnly({"line", "ring", "multiline"})
LineLengthAndPoints == QueryOnly({"line", "ring"})
PointXY == QueryOnly({"point"})
UserDataAndSRID == Query({Geometry})
PrecisionAndDimensions == Query({Geometry})
OrientationIndex == handle # NULL /\ \E o \in {ok, thrown} : Answer(o)

\* Project takes a geometry and a point.
Project == QueryOnly({"point"})

\* setWKBOutputDims tells of dimensions out of range and sets them all the same.
WKBSettings ==
    IF handle = NULL THEN Answer(refused)
    ELSE Answer(ok) \/ Answer([ok EXCEPT !.told = ERROR_MESSAGE])

(* Objects computed from geometries.                                       *)
FromText == Give({}, Derived)
ToText == Give({Geometry}, {"text"})
RelateText == Give(Two, {"text"})
ValidReason == Give({Geometry}, {"text"})
EnvelopeIntersection == Give(Two, Derived)
Buffers == Give({Geometry}, Derived)
HullsAndCentroids == Give({Geometry}, Derived)
DifferenceBoundaryUnion == Give(Two, Derived)
UnaryUnionsAndNode == Give({Geometry}, Derived)
PointOnSurfaceAndClip == Give({Geometry}, Derived)
LinePoints == \E g \in Of({"line", "ring"}) : Give({{heap[g].kind}}, {"line"})
Polygonize == Give({Geometry}, {"collection"})
LineMerge == Give({Geometry}, Derived)
setPrecision == Give({Geometry}, Derived)
Simplify == Give({Geometry}, Derived)
UniquePoints == Give({Geometry}, {"multipoint"})
SharedPaths == Give(Two, {"collection"})
Snap == Give(Two, Derived)
Interpolate == Give({Geometry}, {"point"})
Triangulate == Give({Geometry}, {"collection", "multiline"})
EmptyGeometries == Give({}, {"point", "line", "polygon"} \cup Classes)

\* The nearest points of an empty geometry are NULL, and no failure.
NearestPoints ==
    \/ Give(Two, {"seq"})
    \/ handle # NULL /\ Of(Geometry) # {} /\ Answer(ok)

\* isValidDetail: an invalid geometry is reported with a text and a point, both
\* the caller's.
isValidDetail ==
    \/ Query({Geometry})
    \/ /\ handle # NULL /\ Of(Geometry) # {}
       /\ LET at == Fresh(heap, Kept, 2)
          IN  /\ at # <<>>
              /\ Objects(Put(Put(heap, at[1], Made("text", {})), at[2], Made("point", {})),
                         mine \cup ToSet(at))
       /\ outcome' = ok /\ UNCHANGED twice

\* Polygonize_full stores cuts, dangles and invalid rings before the polygons are
\* collected, so a call that fails may have given the caller some of them.
Polygonize_full ==
    \/ Give({Geometry}, {"collection"})
    \/ /\ handle # NULL /\ Of(Geometry) # {}
       /\ New("collection")
       /\ outcome' = thrown

(* Readers, writers and buffer parameters: owned and used alike, "tool".   *)
Tools == {"tool"}
createReader == Give({}, Tools)
createWriter == Give({}, Tools)
createBufferParams == Give({}, Tools)
setTool == Query({Tools})
read == Give({Tools}, Derived)
write == Give({Tools, Geometry}, {"text"})
BufferWithParams == Give({Tools, Geometry}, Derived)

-----------------------------------------------------------------------------
(* Construction.                                                           *)
CoordSeq_create ==
    \/ /\ handle # NULL
       /\ \E n \in Sizes : LET at == Fresh(heap, Kept, 1)
                           IN  at # <<>> /\ Objects(Put(heap, at[1], Sequence(n)), mine \cup {at[1]})
       /\ outcome' = ok /\ UNCHANGED twice
    \/ Answer(IF handle = NULL THEN refused ELSE thrown)

\* get and set of ordinates; an ordinate or an index out of range throws.
CoordSeq_access == Query({{"seq"}})

\* createPoint, createLineString, createLinearRing: cs is gone in any case.
createFromSeq ==
    \E cs \in mine \cap Of({"seq"}), k \in {"point", "line", "ring"} :
        IF handle = NULL THEN Answer(refused)
        ELSE LET at == Fresh(heap, Kept, 1)
             IN  at # <<>> /\ TakeOver({cs}, {cs}, construct(heap, k, cs, at[1]))

createPolygon ==
    \E shell \in mine \cap Of(Geometry) :
    \E holes \in SUBSET ((mine \cap Of(Geometry)) \ {shell}) :
        IF handle = NULL THEN Answer(refused)
        ELSE IF heap[shell].kind # "ring" THEN Answer(thrown)
        ELSE LET at == Fresh(heap, Kept, 1)
             IN  at # <<>> /\ TakeOver({shell} \cup holes, {}, constructPolygon(heap, shell, holes, at[1]))

\* The elements of a multi geometry are not checked against its class.
createCollection ==
    \E gs \in SUBSET (mine \cap Of(Geometry)), k \in Classes \cup {"unsupported"} :
        IF handle = NULL THEN Answer(refused)
        ELSE IF k = "unsupported" THEN Answer(thrown)
        ELSE LET at == Fresh(heap, Kept, 1)
             IN  /\ at # <<>>
                 /\ TakeOver(gs, {}, [heap |-> Put(heap, at[1], Made(k, gs)), ret |-> at[1]])

\* GEOSGeom_clone and GEOSCoordSeq_clone
clone ==
    \E g \in Of(Geometry \cup {"seq"}) :
        \/ /\ handle # NULL
           /\ LET at == Fresh(heap, Kept, Cardinality(Tree(heap, {g})))
              IN  at # <<>> /\ TakeOver({}, {}, Copied(heap, g, at))
        \/ Query({{heap[g].kind}}) /\ outcome'.failed

\* The same constructors as the C++ library offers them: the sequence is copied.
createCopies ==
    \E cs \in Of({"seq"}), k \in {"point", "line", "ring"} :
        LET at == Fresh(heap, Kept, 2)
            made == IF k = "point" THEN createPointFromCopy(heap, cs, at)
                    ELSE createFromCopy(heap, k, cs, at)
        IN  /\ handle # NULL /\ at # <<>>
            /\ k = "point" => heap[cs].size \in PointArguments
            /\ Objects(made.heap, IF made.ret = NULL THEN mine ELSE mine \cup {made.ret})
            /\ outcome' = (IF made.ret = NULL THEN thrown ELSE ok)
            /\ twice' = (twice \/ made.twice)

createMultiCopies ==
    \E g \in Of(Geometry), k \in Classes :
        LET at == Fresh(heap, Kept, Cardinality(Tree(heap, {g})) + 1)
        IN  /\ handle # NULL /\ at # <<>>
            /\ TakeOver({}, {}, IF k = "multiline" THEN createMultiLineStringFromCopy(heap, g, at)
                            ELSE createMultiFromCopy(heap, k, g, at))

buildsGeometry ==
    \E gs \in SUBSET (mine \cap Of(Geometry)) :
        LET at == Fresh(heap, Kept, 1)
        IN  handle # NULL /\ at # <<>> /\ TakeOver(gs, {}, buildGeometry(heap, gs, at[1]))

(* Pointers to internal storage.                                           *)

\* A geometry that is no collection is its own element.
GetGeometryN ==
    \E g \in Of(Geometry) :
        \/ /\ handle # NULL
           /\ \E p \in (IF heap[g].kind \in Multi THEN heap[g].parts ELSE {g}) : Borrow(p)
        \/ Query({{heap[g].kind}}) /\ outcome'.failed

Rings ==
    \E g \in Of(Geometry) :
        IF handle = NULL THEN Answer(refused)
        ELSE IF heap[g].kind # "polygon" THEN Answer(thrown)
        ELSE \E p \in heap[g].parts : Borrow(p)

getCoordSeq ==
    \E g \in Of(Geometry) :
        IF handle = NULL THEN Answer(refused)
        ELSE IF heap[g].kind \notin {"point", "line", "ring"} THEN Answer(thrown)
        ELSE \E p \in heap[g].parts : Borrow(p)

(* Prepared geometries and trees point to the geometries they were given.  *)
Refers(x, S) == [heap EXCEPT ![x].refs = @ \cup S]

Prepare ==
    \E g \in Of(Geometry) :
        \/ /\ handle # NULL
           /\ LET at == Fresh(heap, Kept, 1)
              IN  /\ at # <<>>
                  /\ Objects(Put(heap, at[1], [Made("prepared", {}) EXCEPT !.refs = {g}]), mine \cup {at[1]})
           /\ outcome' = ok /\ UNCHANGED twice
        \/ Query({{heap[g].kind}}) /\ outcome'.failed

PreparedContainsToDisjoint == Query({{"prepared"}, Geometry})
PreparedIntersectsToWithin == Query({{"prepared"}, Geometry})

STRtree_create == Give({}, {"tree"})

\* The tree keeps the address of the geometry's envelope; it does so without a
\* context too, since the context is looked at afterwards.
STRtree_insert ==
    \E t \in Of({"tree"}), g \in Of(Geometry) :
        /\ Objects(Refers(t, {g}), mine)
        /\ outcome' = (IF handle = NULL THEN refused ELSE ok) /\ UNCHANGED twice

STRtree_query == Query({{"tree"}, Geometry})
STRtree_iterateAndRemove == Query({{"tree"}, Geometry})

\* nearest: the envelope made for the search is nobody's afterwards.
STRtree_nearest ==
    /\ Has({{"tree"}, Geometry}) /\ handle # NULL
    /\ LET at == Fresh(heap, Kept, 1)
       IN  at # <<>> /\ Objects(Put(heap, at[1], Made("polygon", {})), mine)
    /\ \E o \in {ok, thrown} : outcome' = o
    /\ UNCHANGED twice

Geom_destroy == \E g \in mine \cap Of(Geometry) : Destroy(g)
CoordSeq_destroy == \E s \in mine \cap Of({"seq"}) : Destroy(s)
OtherDestroy == \E x \in mine \cap Of(Tools \cup {"text", "prepared", "tree"}) : Destroy(x)

-----------------------------------------------------------------------------
ContextCalls ==
    \/ \E h \in Handlers : \/ initGEOS(h) \/ GEOSContext_setErrorHandler(h)
                          \/ GEOSContext_setErrorMessageHandler(h)
    \/ finishGEOS

Relations ==
    \/ DisjointTouchesIntersectsCrosses \/ WithinContainsOverlapsCovers \/ RelatePatterns
    \/ RelateText \/ isValid \/ ValidReason \/ isValidDetail \/ Equals
    \/ AreaLengthDistance \/ HausdorffDistance \/ NearestPoints
    \/ FromText \/ ToText \/ EmptySimpleRing \/ GeomType

Operations ==
    \/ EnvelopeIntersection \/ Buffers \/ HullsAndCentroids \/ DifferenceBoundaryUnion
    \/ UnaryUnionsAndNode \/ PointOnSurfaceAndClip \/ Polygonize \/ Polygonize_full
    \/ LineMerge \/ setPrecision \/ Simplify

Accessors ==
    \/ Geom_destroy \/ Counts \/ GetGeometryN \/ LinePoints \/ isClosed
    \/ LineLengthAndPoints \/ PointXY \/ Rings \/ UserDataAndSRID \/ WKBSettings
    \/ PrecisionAndDimensions

Construction ==
    \/ CoordSeq_create \/ CoordSeq_access \/ CoordSeq_destroy \/ getCoordSeq
    \/ createFromSeq \/ createPolygon \/ createCollection \/ clone
    \/ createCopies \/ createMultiCopies \/ buildsGeometry

ReadersAndWriters ==
    createReader \/ createWriter \/ setTool \/ read \/ write

PreparedAndTrees ==
    \/ Prepare \/ PreparedContainsToDisjoint \/ PreparedIntersectsToWithin
    \/ STRtree_create \/ STRtree_insert \/ STRtree_query \/ STRtree_nearest
    \/ STRtree_iterateAndRemove \/ OtherDestroy

Others ==
    \/ Project \/ Interpolate \/ UniquePoints \/ EmptyGeometries \/ OrientationIndex
    \/ SharedPaths \/ Snap \/ createBufferParams \/ BufferWithParams \/ Triangulate

Next ==
    \/ ContextCalls \/ Relations \/ Operations \/ Accessors \/ Construction
    \/ ReadersAndWriters \/ PreparedAndTrees \/ Others

PermuteHandlers == Permutations(Handlers)

Spec == Init /\ [][Next]_vars

-----------------------------------------------------------------------------
(* No call leaves a pointer to a deleted object, in the caller's hands or  *)
(* inside an object; no object has two owners or is deleted twice.         *)
PointersAreSound ==
    /\ \A x \in mine \cup borrowed : x \in DOMAIN heap
    /\ \A x \in DOMAIN heap : heap[x].parts \cup heap[x].refs \subseteq DOMAIN heap
    /\ \A x, y \in DOMAIN heap : x # y => heap[x].parts \cap heap[y].parts = {}
    /\ \A x \in DOMAIN heap : heap[x].parts \cap mine = {}
    /\ ~twice

(* An object the caller was given or gave away is never lost: it is the    *)
(* caller's, or part of something that is, until it is deleted - also when *)
(* the call that was to take it over fails.                                *)
NothingOwnedIsLost == known \subseteq Tree(heap, mine)

(* A call that fails with a context tells exactly one handler, the one the *)
(* caller set last, whichever of the two styles it set.                    *)
FailuresAreTold ==
    outcome.failed /\ handle # NULL => outcome.told = <<latest>>
=============================================================================
