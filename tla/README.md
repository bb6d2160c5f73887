# A TLA+ verification of GEOS

GEOS is a C++ library of two-dimensional geometry: a geometry model, spatial
indexes, planar graphs and the operations built on them (overlay, buffer,
polygonize, line merging, relate, validity, ...), wrapped by a C API that
multi-threaded clients call. The library starts no thread and persists nothing.
What makes it hard is the state its algorithms keep in graphs and indexes
(flags, labels, `next` pointers, lazily built trees, cached results), which
later steps and later calls meet again; exceptions and interrupts that leave
such state half done; attempts that are repeated at another precision; who owns
what across the C interface; and the little that threads share.

This directory holds TLA+ modules translated from the sources under `src/`, TLC
configurations that check them on small instances, and TLAPS proofs of the
results that hold for every instance. `PROJECT.json` lists components, runs,
mutants, the map from definitions to source lines, findings, hazards and
theorems.

## Inventory

| component | state | operations | interactions | what makes it correct | modelled in |
|---|---|---|---|---|---|
| `operation/polygonize` | flags of directed edges (marked, label, next, in ring), result vectors, `polyList` as "has run" | `add`, four getters that run `polygonize()` once | planargraph, algorithm, Interrupt | dangles, cut edges and polygons are those of the linework; every getter serves one complete run | Polygonizer |
| `operation/overlay` | noded edges with labels and depths, node labels, stars, rings, result lists | `overlayOp` = `computeOverlay` | geomgraph, algorithm, Interrupt; wrapped by `BinaryOp` | the result is the point-set operation, in canonical form; labels are true | OverlayOp |
| `geomgraph` | edges with intersection lists, labels, nodes, stars | build the graph of a geometry, node it, split edges, propagate labels | overlay, relate, buffer, valid | labels around a node are consistent; split edges meet only in nodes | GeometryGraph |
| `operation/relate`, `predicate` | edge stubs in bundles around nodes, labels, the matrix | `computeIM`, predicates | geomgraph | the matrix says how the point sets meet | RelateComputer, PreparedPredicates |
| `operation/valid`, `IsSimpleOp` | `validErr`, a graph of one argument | checks, each sound only after the ones before | geomgraph, overlay's rings | valid or simple exactly when the definition says so | IsValidOp |
| `operation/buffer` | `resultGeometry`, `saveException`; curves, subgraphs, depths | retries with falling precision; curves, noding, depths, polygons | geomgraph, noding, overlay's `PolygonBuilder` | the points within the distance; a stale result is never returned | Retries, BufferBuilder |
| `operation/intersection` | the pieces cut so far, rings being closed | `clip`, `clipBoundary` | algorithm | what lies inside the rectangle | RectangleIntersection |
| `operation/union` | the unions of a cascade so far | `UnaryUnionOp::Union` | strtree, overlay | the parts are united, noded and dissolved, whatever the grouping by envelopes | UnaryUnion |
| `operation/linemerge` | planargraph with marks, sequences | merge, sequence, again after more lines | planargraph | every line once, maximal chains; a path | LineMerger, LineSequencer |
| `planargraph` | nodes by coordinate, stars with a lazy `sorted` flag, marks | add, degree, star order, subgraphs | polygonize, linemerge | star, node map, edge list and sym pointers agree | DirectedEdges |
| `noding` | node lists on segment strings | iterated and snap-rounding noders | buffer, overlay | the result is fully noded; the iteration ends | SegmentStrings, Noders |
| `index/*` | trees, `built` flag, cached bounds | insert, build, query, remove | noding, prep, union, C API | a query returns every item that matches | SpatialIndex, STRtree, Quadtree, Bintree, IntervalRTree |
| `geom/prep` | lazily built locators and finders | prepared predicates | index, algorithm | the answers of the plain predicates, whatever was asked before | PreparedGeometry |
| `geom/BinaryOp`, `overlay/snap`, `precision/EnhancedPrecisionOp` | the saved exception | retries with common bits removed, snapping, reduced precision | overlay | a result in the operands' frame, or the right exception | Retries |
| `triangulate` | quad-edge rings, the locator's last edge | insert site, swap, read out | | a Delaunay triangulation | Delaunay |
| `linearref` | none | lengths and locations to points and sublines and back | | they agree with a walk along the line | LinearReferencing |
| `geom` | geometries; `_refCount`, `_autoDestroy` of the factory | create, clone, destroy | every geometry refers to its factory | a factory lives as long as its geometries; every part has one owner | GeometryFactory, GeometryHeap |
| `capi` | context with handlers, handles | wrappers that catch exceptions | all of the above | no dangling pointer, nothing lost on failure, failures are told | CApi |
| `util/Interrupt` | a flag and a callback, global to the process | request, cancel, register, process | polled by overlay, polygonize, buffer, noding, relate; C API | a request ends a running operation, once | Interrupt |
| `algorithm` | none, or a counter per point | orientation, point in ring, segment intersection, point location | everything | exact predicates on exact coordinates | RingGeometry |
| `operation/distance`, `sharedpaths`, `simplify`, `io`, `index/sweepline`, `index/chain` | parser position, trees of inputs | pure functions | | | no module |

Hard behaviours: the order in which nodes, rings, holes and sites are visited;
labels that are wrong only where rings touch in a point; a check that is sound
only because an earlier one passed; an interruption or an exception between two
writes; a getter called twice or after more input; caches left by an earlier
question; a global flag tested and reset by several threads; a count shared by
several threads; retries that tell success by a left-over member; what is freed
by whom when a call fails. `PROJECT.json` lists them under `hazards`, each at its
line.

## Modules

    RingGeometry --- SegmentStrings --- Noders
      |   |   |            `--- PreparedPredicates --- PreparedGeometry --- PreparedProofs
      |   |   `--- RectangleIntersection
      |   `-- GeometryGraph --- RelateComputer
      |          `--- OverlayOp --- IsValidOp
      |                  `--- BufferBuilder (with SegmentStrings)
    DirectedEdges --- Polygonizer --- PolygonizerProofs
      `--- LineMerger, LineSequencer

    Envelopes --- SpatialIndex              GeometryFactory, Interrupt --- RuntimeProofs
      |--- UnaryUnion (packs with STRtree)  GeometryHeap --- CApi --- CApiProofs
      |--- STRtree --- STRtreeProofs        Retries --- RetriesProofs
      |--- IntervalRTree                    LinearReferencing, Delaunay
      `--- Quadtree, Bintree (with PowerOfTwoCells)
              `--- QuadtreeProofs           Listings (lemmas for four proof modules)

Geometry and graphs:

* **RingGeometry** - predicates on integer coordinates: orientation, quadrant,
  envelope tests, `CGAlgorithms::isCCW`, `RayCrossingCounter`, the intersection
  test of `LineIntersector`, validity of a ring.
* **DirectedEdges** - directed edges, stars and nodes of `planargraph` for a given
  set of lines. `std::sort` leaves the order of edges in the same direction open;
  `pdeLessThan` puts the line added first before the other.
* **Polygonizer** - the traversals of `PolygonizeGraph.cpp` as operators on flags
  (`computeNextCWEdges`, labelling, `convertMaximalToMinimalEdgeRings`, the rings as
  point sequences, the shell of a hole), and the object: members, locals of the
  running loop and the call protocol as variables. `add`, `getCached` (a getter that
  finds a result) and `polygonize` (one that does not) are the client's actions;
  inside a run there is one action per popped node, per ring and per hole, a step at
  the end of each loop, `interrupted` at the check points and `Abort` where an
  `assert` fails (`NDEBUG` chooses the build).
* **LineMerger, LineSequencer** - the two users of a planar graph that may be asked
  again after more lines: marks reset by each merge, the three passes of
  `merge()`; components, the search for a start, walks and the splicing of
  `findSequence`, the asserts on line counts, `isSequenced`.
* **GeometryGraph** - `TopologyLocation`, `Label` and `Depth` as values with their
  operations (`merge`, `flip`, `toLine`, `normalize`, ...); the labelled edges and
  nodes of one argument, intersections recorded on edges, split edges, and the
  point locators.
* **OverlayOp** - `computeOverlay` with one action per call it makes, in its order,
  and inside a long call one action per edge, node or ring: noding, merging
  coincident edges with depths, labelling, linking, maximal and minimal rings,
  holes, then lines, then points. `throw` is a `TopologyException`.
* **RelateComputer** - `computeIM`: the envelope test, the intersections, labels of
  nodes, stubs sorted into bundles, labels of bundles, isolated edges and nodes;
  each step raises entries of the matrix. `IntersectionMatrix` and the predicates.
* **IsValidOp** - the checks in their order, each an action that ends the test or
  hands on; the rings of `ConnectedInteriorTester` come from OverlayOp's
  operators. `IsSimpleOp` is an action of its own.
* **BufferBuilder** - raw curves per part (`OffsetCurveSetBuilder`,
  `OffsetSegmentGenerator`), noding, insertion of edges with depth deltas,
  subgraphs, the rightmost edge, depths spread from it, edges of the result, and
  polygons per subgraph.
* **RectangleIntersection** - the pass along a line in and out of the rectangle, one
  step per vertex or skip; pieces turned and reconnected; rings closed along the
  rectangle, the nearest piece first.
* **UnaryUnion** - points united at once, lines and polygons by a cascade: one step per
  level packed and per node united, which envelopes decide what is handed to an
  overlay; the overlay itself is exact here, on cells and unit edges.
* **LinearReferencing**, **Delaunay** - pure operators over lines and locations; and
  a subdivision whose quad-edges are pointers, with the three loops of the
  insertion of a site as actions.

Noding, indexes, caches:

* **SegmentStrings, Noders** - node lists, collapses, rounding to the grid; one pass
  of `IteratedNoder` per step; `SimpleSnapRounder` and `MCIndexSnapRounder` step by
  step.
* **SpatialIndex** - the abstract index: a bag of entries, and what each operation
  may answer. **STRtree** (lazy build, packing, descents as level steps, removal,
  nearest neighbours), **Quadtree** (padding, growth of the root, prune),
  **Bintree** and **IntervalRTree** each implement it.
* **PreparedPredicates, PreparedGeometry** - what each predicate decides from; and
  the object with its caches, the shared detector, and threads.

Failure, ownership, threads:

* **Retries** - the chain of attempts of `BinaryOp`, `SnapIfNeededOverlayOp` and
  `EnhancedPrecisionOp` over an overlay that yields any result or throws; the same
  for the buffer, and calls on a `BufferOp` that has one result already.
* **GeometryFactory** - reference counting with `++` and `--` as load and store, the
  test and `delete this` as steps of their own, constructors that throw.
  **GeometryHeap** - constructors and create functions on a heap of objects.
  **CApi** - the families of C functions and a caller that keeps the header's rules.
* **Interrupt** - the flag and callback with `process()` cut into its loads and
  stores, threads that call operations, `request` at any time, `cancel` as the
  C API's init functions call it. An operation is the number of check points it
  passes. Overlay and polygonize have a check point wherever their `interrupted`
  action is enabled; those modules leave open whether it throws, and this one says
  when it does.

The MC modules hold the instances and the reference definitions. MCOverlayOp
composes overlay, relate, validity and buffer, which share the graph, with clipping
and unary union;
MCLinework the tools on lines, with the noders of MCNoders; MCSpatialIndex the indexes;
MCRetries the two kinds of retries; MCRuntime what is global or counted. A variable of MCOverlayOp, MCLinework or MCSpatialIndex chooses
the component whose steps a behaviour takes. Every property also has a mutant: a
changed definition, kept beside the original and marked `Mutant`, under which TLC
finds the property violated.

## Runs

| run | instance | shows |
|---|---|---|
| `polygonize` | every subset, in order, of three plans: a square with a chord, an island, a loop on a bridge and a dangling path; rings that touch at a node and islands in islands; an invalid ring and a collapsed line, there with two getters and an interruption anywhere | dangles are the lines outside every core whatever the order of pops, reported once; cut edges are the bridges; rings partition the edges and are minimal; the polygons are the bounded faces, holes included; a finished run is what every getter serves until more lines are added; the dangle loop ends |
| `polygonize_once` (violation) | a yard, two getters, an interruption anywhere, assertions compiled out | a getter after `getPolygons()` polygonizes again |
| `overlay` | six operations: *overlay* of every ordered pair of a frame, an L, two boxes, lines and points (floating precision, envelope shortcut on), and of five areas that touch themselves in points (fixed precision, shortcut off); *relate* of all pairs, with an empty collection, a ring of lines and a crossing line besides; *validity* of some fifty polygons, lines and points with one defect each or what looks like one; *buffer* of areas, lines and points; *clip* of areas, lines and points by 441 rectangles; *union* of every subset of nine polygons, of seven lines, and of mixtures with points | labels agree with the geometry, the result is the set operation, canonical, and nothing throws; the matrix and the predicates are those of the point sets; validity is the definition's; the buffer is the set of points within the distance; what is clipped is what lies inside; a union covers its parts, noded and dissolved |
| `linework` | every subset of a web of lines, given at once or between two merges; six linear geometries, every length and every point of a grid around; every non-empty subset of two 3 x 3 grids of sites, two tolerances; up to three of ten lines on a 4 x 4 grid, for each noder | merged lines are the maximal chains, also after another merge; a sequence that is returned is a path through each connected part, and "not sequenceable" is answered only when some part has more than two odd nodes (where the search throws is the run `sequence_exists`); points, sublines and indices are those of a walk along the line; the subdivision is Delaunay, its triangles, edges and cells agree; the iterated noder ends, fully noded, with no segment twice, and no noder loses a vertex |
| `sequence_exists` (violation) | the same web, assertions compiled out | the search throws for lines of which a sequence exists |
| `indexes` | all orders of up to five insertions, removals and searches over boxes that share cells and sides, points, a null envelope, an item stored twice | each index implements SpatialIndex; every call converges; no quad is cut off |
| `snap_rounder` (violation) | two lines | MCIndexSnapRounder's output is not fully noded |
| `prepared` | six prepared geometries, every sequence of questions about eleven geometries | every answer is that of the plain predicate |
| `prepared_threads` (violation) | two threads, one prepared polygon, two questions | a thread gets the answer to the other's question |
| `retries` | all pairs of operands by emptiness, kind, validity and precision, all outcomes of every attempt, three front ends; one call of a `BufferOp` per model and distance | the exception is the original one or the one the front end documents; a result is in the operands' frame and factory, at a scale they have; a buffer belongs to its call; the call ends |
| `capi` | five objects, five calls, handlers exchanged, any call may fail | no pointer dangles, nothing owned is lost, the handler set last is told |
| `runtime` | one thread in the library: requests at any time and from the callback; three geometries of one factory | no request is lost, one with a check point ahead ends the operation, once, and never after `cancel`; a due interruption is served; the factory dies after its last geometry and its owner, is never used again and never leaked |

**References.** Results are compared with definitions that share nothing with the
algorithm: for polygonize, reachability for bridges, Euler's formula and a flood
fill of grid cells for faces, the greatest core for dangles; for overlay, relate
and validity, sets of grid elements (vertices, unit edges, cells); for buffers
and clips, sample points and rays; for linear references, a walk in unit steps;
for the triangulation, the empty circle and Euler's formula; for the indexes,
the abstract bag; for prepared predicates, a table over the integer points.

**Bounds.** Coordinates are integers and segments meet in integer points, so that
predicates and intersections are exact, as the code assumes; only in the noders
are intersections rounded, to the grid, as the code does. In each instance they
are chosen so that this holds and so that each branch of the code is taken:

* polygonize, overlay, relate, validity: even, axis-parallel coordinates; the odd
  points are the cells and edges between. Shapes share edges, cross, have holes cut
  open and holes in a free position, lines in and along areas, a closed line that
  crosses itself, repeated points, rings that touch in a point inside and outside
  the target envelope. `MaxCalls` = 2 getters: a third meets no state that a second
  one does not.
* buffer: vertices and distances are multiples of 4 (-8 to 8), joins mitred or
  bevelled, caps flat or square, samples off every line a curve can run along;
  207 inputs.
* clip: vertices are multiples of 4, edges axis-parallel or diagonal; rectangles
  with sides at 2, 4, 6, 10, 14, 16 and 20, compared in every integer point strictly
  inside. Rectangles that have a corner and another point of an adjacent side on a
  ring are left out where polygons are kept, because of the flaw under "Findings".
* union: up to eight polygons that are not empty, in nodes of four as in the code, give a
  tree of two levels with groups that are halved twice; lines have vertices one unit
  apart, so that they meet in vertices. No slice of the tree is empty at these sizes.
* linear references: axis-parallel segments whose lengths divide 12, so that
  fractions are whole twelfths; lengths from below the minus total to above the
  total.
* triangulation: sites with even coordinates on {0,2,4}^2 and {0,2,6} x {0,2,4}, of
  which many are cocircular; tolerance 0, and one that joins neighbours (its
  square is 5).
* indexes: `nodeCapacity` = 2 with five insertions gives trees of three levels;
  `MaxLevel` bounds the growth of the quadtree above what these boxes need.
* retries: `MaxScale` and the digits 12 to 6 of the code bound the precision loop.
* capi: the caller keeps the rules of the header and destroys nothing that something else
  still points to (`Destroy`), so what is shown is what the library does with the
  pointers it is given, not what becomes of callers who break the rules. Five calls reach "make two, compose, borrow, destroy" with one failure
  anywhere; a function is known by its family, so few calls of each suffice.
* interrupt: two check points reach "one passed, one ahead".

**Fairness.** `Polygonizer` assumes weak fairness of `deleteDangles`, `Interrupt` of
each thread's steps inside an operation, `Noders` (and MCLinework with it), `Retries`
and MCRetries of the steps of a call: all are straight-line code or loops that run
to their end once called. Nothing is assumed of the client.

**Deadlock.** Where a behaviour is one operation that returns, or a bound is reached
(polygonize, overlay, linework, retries, indexes, runtime, capi), a run may stop
and does not check for deadlock; the others do.

## Proofs

Each proof module EXTENDS the module it is about. The properties are seldom
inductive; each module states the invariant that is, shows that the initial states
have it and that every action keeps it, and derives the properties. The instances
of the runs satisfy the hypotheses; those named are the only ones.

* **PolygonizerProofs** - for every finite set of lines and every order of pops,
  `DanglesCorrect` (`DanglesAreTheNonCore`), `DanglesReported`
  (`DangleReportedOnce`) and `FlagsCorrect` (the typed part of the graph flags).
  That a finished loop leaves a core needs to know, during the loop, that every node
  of remaining degree one is on the stack and that what is deleted meets no core.
  `DangleInv` adds this (`DangleLoop`). `CoreSurvivesPop` is the heart: a popped node
  has one line left, so no core contains it. `EndOfLoop` turns an empty stack into
  "the rest is a core".
  `TypeCorrect` (`TypeOK`) and `RingsCorrect` rest on `PolygonizeInv`, which holds
  through every run: from `deleteCutEdges` on, the next pointers lead each edge left to
  an edge that leaves where it arrives, no two to the same (`Links`). `StarsAreInOrder`:
  turns compose among directions of one quadrant, so `compareDirection` with a tie-break
  is a strict total order, each star has one successor per edge, and
  `computeNextCWEdges` is a bijection (`CWLinks`). Labels stay constant along the
  pointers and hence turn around the nodes (`LabelsTurn`): between two edges of a label
  that arrive, one leaves, so `computeNextCCWEdges` is a bijection again
  (`ConversionLinks`; its assertion is `CCWLink`). On finitely many edges a walk along
  such pointers closes on its start (`RingsClose`) and two of them are equal or
  disjoint. `RingsCorrect` is `EdgesInOneRing`, the first part of
  `RingsPartitionTheEdges`; the second, that no ring passes twice through a node,
  needs planarity and stays with TLC. `AssertionsHold`: no walk of the first
  run meets an edge that is in a ring already. Assumptions: `LineAssumption` (finitely
  many numbered lines), `PtsAssumption` (integer coordinates).
* **RuntimeProofs** - what is global or shared. *Interrupt*: `TypeCorrect`;
  `RequestsAreKept` for any number of threads (inductive as it stands, given the
  types); under `SingleThread`, `OneThreadIsTerminated` and `RequestsInterruptOnce`
  (`NoSpuriousInterrupt`). `DueInv`: what interrupts was requested, a due operation has
  the flag up and a test ahead or is already past the test, and the callback tested is
  the one called, so no call crashes. Both need `SingleThread`: with two threads the one
  that sees the flag first takes it from the other. *GeometryFactory*: under
  `SingleUser`, for any finite set of geometries, `FactoryLivesAsLongAsNeeded` and
  `FactoryIsFreedOnce` (`FreedWhenUnused`). `CountInv`: the count is the number of
  geometries whose base part exists, what a thread has loaded is the count, and an
  unowned factory without geometries is deleted or about to be. Two threads break it (a
  lost update of `_refCount`, or `destroy()` between decrement and test; see "Findings").
* **RetriesProofs** - the chains of attempts, for any operands and any outcome of
  every attempt: `FirstExceptionIsThrown` (`ExceptionIsTheOriginal`), `ResultsBelong`
  (`ResultBelongsToOperands`), `ScaleStaysWithin` (`ScaleWithinInput`) and
  `FirstBufferAnswersTheCall` (`BufferAnswersTheCall`). `ExceptionInv` says for each
  place of the chain what has been saved, `ResultInv` what a result was made with,
  `ScaleInv` how far the digits have fallen, `BufferInv` which members a failed
  attempt may have set. Hypotheses: operands are shapes (a fixed model has a positive
  scale); for the scale, no grid is coarser than a unit, since `BinaryOp` tries a
  finer one then (see "Findings"); for the buffer, one call per object, since a second
  call may return the first one's result.
* **CApiProofs** - for any heap that calls can build, any arguments and any failure:
  `CallersPointersAreSound` (`PointersAreSound`), `NothingIsLost` (`NothingOwnedIsLost`)
  and `FailuresTellTheLatestHandler` (`FailuresAreTold`). `ApiInv`: the heap is sound
  (parts form trees, one owner each, references go to geometries), what the caller
  owns are roots, what was borrowed lies below them, what was handed out is reachable
  or deleted, nothing was deleted twice. A lemma for each way in which the functions
  change the heap: build from parts, copy a tree, delete a tree, refer, hand over.
  The first needs `PointArguments` within {1}: `createPoint` deletes any other
  sequence twice (see "Findings").
* **QuadtreeProofs** - under `EntriesFit`, which TLC checks for the instance
  (`BoxesFit`): entries have extents within the largest quads and not of exactly one
  step of the grid, because the bound on levels does not exist in the code and half a
  step is not on the grid. `TreeIsSound`: the quads are aligned cells of power-of-two
  size, each in one quadrant; a quadrant is empty or has one top quad that covers the
  others; every entry is listed once, in the root or in a quad that covers it.
  `QuadsStayConnected` (`QuadsAreConnected`): growth upwards, the walk down to place an
  item and pruning leave no quad cut off. `QuadtreeIsASpatialIndex`: the quadtree
  implements `SpatialIndex` (entries numbered by insertion), so that `query` returns
  every matching entry, no entry twice and none that is not stored, and `remove`
  takes out one entry. Below them: cells of the grid do not cross; `keySize` finds a
  cell that covers an envelope; the walk down ends after at most `MaxLevel` + 1
  levels.
* **STRtreeProofs** - under `EntriesFit`, which TLC checks for the instance
  (`TreeEntriesFit`): a node may hold two children or more, envelopes have integer sides
  and are null in both directions or in none. `STRtreeIsASpatialIndex`: as long as nothing is inserted after the tree has
  been built (`InsertsFirst`), the STRtree implements `SpatialIndex`, through lazy
  building, packing, searches, removals that prune and nearest neighbours.
  `AssertionsForbidLateInserts`: in a build with assertions `InsertsFirst` is no
  hypothesis, the assertion of `insert` gives it. `PackingNeverCrashes`
  (`OnlyEmptyTreesCrash`): only searching an empty tree reads a null root. `TreeInv` ties
  items to the root: every item that is stored has a chain of nodes up to the root, each
  in the child list of the next and inside its envelope, and no item or node is in two
  lists. The argument has four parts. Packing: slices and groups cut a sorted level into
  consecutive pieces, none empty, all of at most `nodeCapacity`, so that a level of nodes
  holds every node of the level below once, and levels shrink until one node is left
  (`TreeIsSound`). Searching: what matches has only matching envelopes on its chain, so a
  descent that has not visited it still has one of its ancestors to visit. Removing: an
  item leaves one list, and pruning drops only nodes without children, on no chain.
  Nearest neighbours: a distance does not shrink down a chain, so the item found first is
  nearest.
* **Listings** - lemmas that the Quadtree, STRtree, Retries and Polygonizer proofs use: induction, iteration and least
  elements over the naturals in a form with sets instead of predicates, which the
  provers can use; lists that name each element once, their concatenations, removals and
  selections.
* **PreparedProofs** - under `SingleThread`, for any geometries and any sequence of
  questions, `AnswersDependOnNoCache`: an answer is the one that a geometry prepared for
  this question alone would give (`decision`). `PreparedIsRight` (`PreparedAgrees`) adds
  what the tests themselves decide, `TestsDecide`, a fact about pairs of geometries
  that TLC checks for the instance (`TestsAgree`). `CacheInv` says at each step of a
  call which caches it has just replaced: the detector is set before the chains, the
  chains are those of this question when they are intersected. With two threads this
  fails (see "Findings").

Only model-checked: liveness (`DeleteDanglesEnds`, `DueIsServed`, `CallEnds`), and the
properties not named here. Recursion over the naturals can be proved about with the
set form of induction of `Listings`, but not recursive operators and not what the
library's sorting operators do (`SortSet`, `SortSeq`); stars that are proved about are
described by their order (`pdeLessThan`, `front`, `back`). A proof of what overlay,
relate, validity, buffer or clip compute, of which lines are bridges or that polygons
tile an area would have to start from the plane (two rings cross an even number of
times), which no module states. The refinements of `SpatialIndex` by `Bintree` and
`IntervalRTree` are checked, not proved.

## Findings

Four runs end in a violation of what the sources say:

* `snap_rounder` - MCIndexSnapRounder makes hot pixels of all vertices of a string
  but the last, and `MCIndexPointSnapper` overwrites `isNodeAdded`, so its output is
  not "fully noded" (`MCIndexSnapRounder.h:55`)*.
* `prepared_threads` - a const prepared geometry stores the question in the finder it
  shares, without a lock (`PreparedPolygon.cpp:63`).
* `polygonize_once` - polygonize() is not to run if it "has already been carried out"
  (`Polygonizer.h:97`), which it reads off `polyList`. After `getPolygons()` the next
  getter runs it again, over the rings of the first run: it aborts, or finds nothing if
  assertions are compiled out*, where `Polygonizer.h:179` says NULL. The property also
  forbids what happens after an interruption: the next getter returns what was left.
* `sequence_exists` - a theta graph throws "path not contiguos"*, although it has but
  two nodes of odd degree (`LineSequencer.h:94`). With assertions compiled in the
  property also fails on lines that collapse to a point: they are counted in `lineCount`
  but dropped, so the assertion of `computeSequence` fails (`LineSequencer.cpp:193`).

The others are kept as text; where an instance would meet one, it says what it
leaves out. Findings marked * were also reproduced with the library.

* *Clip*: `close_boundary` and `distance` (`RectangleIntersectionBuilder.cpp`) take two
  points to be on the same edge if any edge is shared, and compare their order on
  another edge, so that a piece between a corner and another point of an edge can be
  closed the wrong way round*. Rings of the result may touch themselves on the
  rectangle*. `RectangleIntersection.h` says NULL and polylines where the code
  returns an empty collection and intact rings stay polygons.
* *Relate*: `MultiLineString::getBoundaryDimension` looks at each line alone, so lines
  that close a ring together get a boundary in the matrix when the envelopes do not
  meet and none when they do*. `PointLocator` on a point shared by the boundaries of
  two polygons counts modulo two and answers INTERIOR, which relate does not see.
* *Overlay*: the envelope shortcut of `insertUniqueEdges` drops edges that meet kept
  edges at a node, and an intersection of valid polygons that touch themselves throws
  "side location conflict"* (`OverlayOp.h:95`). `TopologyLocation::merge` widens a
  line location without filling the sides (`Label.h:130`); `computeLabelsFromDepths`
  repairs it later.
* *Union*: lines that are all empty make `UnaryUnionOp` dereference a null pointer
  (`UnaryUnionOp.cpp:96`)*, and points that are all empty beside a line or a polygon
  throw `std::bad_cast`*, although the header says that a collection may be
  heterogeneous. `ResultIsSetOperation` holds but for these.
* *Polygonizer*: rings that are not noded become polygons (`Polygonizer.h:61`).
* *Line sequencing*: of nothing but empty or collapsed lines a null pointer is read;
  lines added after `computeSequence` are ignored; `isSequenced` misses a line that
  touches a run which ends right before it.
* *Indexes*: an empty SortedPackedIntervalRTree is built for ever*, so that a search of it
  does not end (`SortedPackedIntervalRTree.h:78`), and querying an empty STRtree
  dereferences a null root*; `SIRtree::createParentBoundables`
  overfills nodes and may leave one empty*; `STRtree.h` names the wrong coordinate
  and forbids removal; `Bintree::iterator()` is always empty.
* *Retries*: an operand on a grid coarser
  than a unit is reduced to a finer one (`BinaryOp.h:464`); `PrecisionModel(Type)` gives
  a floating model the scale 1; EnhancedPrecisionOp catches every GEOSException, also
  an interruption, and rethrows a slice; a validity check between attempts throws an
  exception of its own. When a second call of `BufferOp::getResultGeometry` fails at
  first, the first call's result is returned (`BufferOp.h:235`).
* *Buffer*: `LineSegment::orientationIndex` uses `std::max` on both sides
  (`LineSegment.cpp:175`); RightmostEdgeFinder does not look at last vertices although
  its comment says so; `BufferSubgraph::addReachable` may add a node twice. No
  effect was found on a result.
* *Linear references*: `indicesOf` of a subline that ends at the end of a component but
  the last gives the total length; extracting backwards over a component boundary
  adds a zero-length line; `indexOfAfter` throws or returns the smaller end where the
  header says `minIndex`; next to a zero-length component a fraction is NaN.
* *Triangulation*: with tolerance 0 `Vertex::equals` and `isOnEdge` are never true;
  sites set after a result are ignored; the user data of Voronoi cells point to a
  local variable; flat triangles of the hull can be lost to the frame, which is only
  ten times the extent.
* *C API and geom*: `createPoint` of a sequence of more or fewer coordinates than one
  deletes it twice*; `createPolygon` and `createCollection` of the C API lose the
  vector when the constructor throws, `GEOSSTRtree_nearest_r` an envelope;
  `GEOSGeomGetX_r` and `GEOSGeomGetY_r` return 0 on failure (the header says -1);
  `GEOS_setWKBOutputDims_r` reports a bad dimension, but stores it
  (`geos_ts_c.cpp:3870`).
* *Interrupt*: a callback that another thread removes between the test and the call is
  called through a null pointer (`Interrupt.cpp:47`). No header says whether callbacks
  may be exchanged while an operation runs. With two threads in the library a request
  ends one of two running operations, where `Interrupt.h:33` says "operations will be
  terminated".
* *GeometryFactory*: two threads that use one factory delete it under a geometry
  (`GeometryFactory.h:407`); nothing guards its counter, which also the functions on
  const geometries change.

## Not modelled

Floating-point rounding, Z values and elevation, message texts and output formats,
what an overlay inside a unary union may throw, monotone chains and sweep lines
(abstracted to "every pair of segments with meeting envelopes"), and the debug-only
validators. Of the components:

* `operation/distance`, `sharedpaths`, `simplify`, hulls, centroids, minimum circles -
  functions of floating-point distances without state: TLC has no reals, and on a
  grid little of them is left.
* `io` - parsing and writing of streams, a sequential pass without state between calls.
* round joins and caps of buffers, circumcentres of Voronoi diagrams - trigonometry
  and division.
* headers of `geom` - accessors and declarations; what operations read of them is in
  the modules of those operations.
* `swig/` - wrappers generated by SWIG.

## Plan

1. **Proofs** next: the refinement of `SpatialIndex` by `IntervalRTree` and `Bintree`,
   whose descents are those of STRtreeProofs and QuadtreeProofs; `flip` is an involution
   and `merge` never overwrites in the labels of `GeometryGraph`; the quad-edge algebra
   of `Delaunay` (`splice` is an involution, the ring pointers stay a permutation); that
   `Noders` counts an iteration only while nodes are created.
2. **Models**: `LineStringSnapper`; topology-preserving simplification on a
   grid.
