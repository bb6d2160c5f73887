----------------------------- MODULE UnaryUnion -----------------------------
(***************************************************************************)
(* operation/union: UnaryUnionOp, with CascadedPolygonUnion and            *)
(* CascadedUnion, which pack the parts of a collection into an STR-tree    *)
(* and unite the children of each of its nodes by halves, and              *)
(* PointGeometryUnion.                                                     *)
(*                                                                         *)
(* What is at stake is which parts are handed to an overlay at all: parts  *)
(* whose envelopes show that they cannot meet are put side by side.  The   *)
(* overlay of two geometries is exact here.  A geometry is the sequence of *)
(* its parts [kind, is]: a polygon is the set of its grid cells, named by  *)
(* their lower left corners, a line its vertices, one unit apart, a point  *)
(* its coordinates.  Any part may be empty.                                *)
(***************************************************************************)
EXTENDS Envelopes, Sequences, SequencesExt, FiniteSetsExt, TLC

CONSTANTS Collections,              \* the geometries to unite
          STRTREE_NODE_CAPACITY, NULL

VARIABLES pc, args,
          cascade,   \* a running cascade: the unions so far, the groups to unite
          unionPoints, unionLines, unionPolygons, ret
unionVars == <<pc, args, cascade, unionPoints, unionLines, unionPolygons, ret>>

isEmptyPart(c) == IF c.kind = "polygon" THEN c.is = {} ELSE c.is = <<>>
isEmpty(g) == \A k \in DOMAIN g : isEmptyPart(g[k])
ofKind(g, kind) == SelectSeq(g, LAMBDA c : c.kind = kind)

cornersOf(cell) == {<<cell[1] + i, cell[2] + j>> : i, j \in {0, 1}}
envelopeOf(c) ==
    LET ps == IF c.kind = "polygon" THEN UNION {cornersOf(x) : x \in c.is} ELSE ToSet(c.is)
        xs == {p[1] : p \in ps}
        ys == {p[2] : p \in ps}
    IN  IF isEmptyPart(c) THEN NullEnvelope ELSE Rect(Min(xs), Max(xs), Min(ys), Max(ys))
getEnvelope(g) == FoldLeft(LAMBDA e, c : expandToInclude(e, envelopeOf(c)), NullEnvelope, g)

-----------------------------------------------------------------------------
(* The overlay of two geometries, given as the parts of both: polygons are *)
(* the connected sets of cells, lines are cut where they meet anything and *)
(* kept once, where no polygon covers them.                                *)
cellsOf(g) == UNION {c.is : c \in ToSet(ofKind(g, "polygon"))}
pathsOf(g) == LET ls == SelectSeq(g, LAMBDA c : c.kind = "line" /\ c.is # <<>>)
              IN  [k \in DOMAIN ls |-> ls[k].is]

around(p) == {<<p[1] - i, p[2] - j>> : i, j \in {0, 1}}
besides(c) == {<<c[1] + 1, c[2]>>, <<c[1] - 1, c[2]>>, <<c[1], c[2] + 1>>, <<c[1], c[2] - 1>>}

regions(cells) ==
    FoldSet(LAMBDA c, rs : LET near == {r \in rs : r \cap besides(c) # {}}
                           IN  (rs \ near) \cup {{c} \cup UNION near}, {}, cells)

isNode(v, paths, cells) ==
    \/ \E l \in ToSet(paths) : v \in {Head(l), Last(l)}
    \/ Cardinality(UNION {{<<k, i>> : i \in {j \in DOMAIN paths[k] : paths[k][j] = v}} : k \in DOMAIN paths}) > 1
    \/ around(v) \cap cells # {} /\ ~(around(v) \subseteq cells)

noded(paths, cells) ==
    LET cuts(l) == SetToSortSeq({i \in DOMAIN l : isNode(l[i], paths, cells)}, <)
        pieces(l, at) == [j \in 1..(Len(at) - 1) |-> SubSeq(l, at[j], at[j + 1])]
        free == SelectSeq(FlattenSeq([k \in DOMAIN paths |-> pieces(paths[k], cuts(paths[k]))]),
                          LAMBDA p : around(p[1]) \cap around(p[2]) \cap cells = {})
    IN  FoldLeft(LAMBDA ls, p : IF {p, Reverse(p)} \cap ToSet(ls) # {} THEN ls ELSE Append(ls, p), <<>>, free)

overlayUnion(g) ==
    LET polygons == SetToSeq(regions(cellsOf(g)))
        lines == noded(pathsOf(g), cellsOf(g))
    IN  [k \in DOMAIN polygons |-> [kind |-> "polygon", is |-> polygons[k]]]
          \o [k \in DOMAIN lines |-> [kind |-> "line", is |-> lines[k]]]

\* Geometry::Union
Union(g0, g1) ==
    IF isEmpty(g0) THEN g1
    ELSE IF isEmpty(g1) THEN g0
    ELSE IF ~intersects(getEnvelope(g0), getEnvelope(g1)) THEN g0 \o g1
    ELSE overlayUnion(g0 \o g1)

-----------------------------------------------------------------------------
(* CascadedUnion and CascadedPolygonUnion, which keeps polygons only       *)
Tree == INSTANCE STRtree WITH
    nodeCapacity <- STRTREE_NODE_CAPACITY, Entries <- {}, Searches <- {}, NDEBUG <- FALSE, MaxInserts <- 0,
    built <- FALSE, itemBoundables <- <<>>, nodes <- <<>>, root <- NULL, removed <- {}, call <- NULL,
    list <- <<>>, priQ <- {}, minPair <- NULL, answer <- NULL

unionActual(kind, g0, g1) ==
    IF kind = "polygon" THEN ofKind(Union(g0, g1), "polygon") ELSE Union(g0, g1)

intersection(e, f) == [minx |-> Most(e.minx, f.minx), maxx |-> Least(e.maxx, f.maxx),
                       miny |-> Most(e.miny, f.miny), maxy |-> Least(e.maxy, f.maxy)]

\* Mutant: only what lies in the common envelope as a whole.
isExtracted_Within(c, env) == covers(env, envelopeOf(c))
\* extractByEnvelope keeps the parts that meet the common envelope.
isExtracted(c, env) == intersects(envelopeOf(c), env)

unionUsingEnvelopeIntersection(kind, g0, g1, common) ==
    LET extractByEnvelope(g) == SelectSeq(g, LAMBDA c : isExtracted(c, common))
        disjointPolys(g) == SelectSeq(g, LAMBDA c : ~isExtracted(c, common))
    IN  disjointPolys(g0) \o disjointPolys(g1)
          \o unionActual(kind, extractByEnvelope(g0), extractByEnvelope(g1))

unionOptimized(kind, g0, g1) ==
    LET e0 == getEnvelope(g0)
        e1 == getEnvelope(g1)
    IN  IF ~intersects(e0, e1) THEN g0 \o g1
        ELSE IF Len(g0) <= 1 /\ Len(g1) <= 1 THEN unionActual(kind, g0, g1)
        ELSE unionUsingEnvelopeIntersection(kind, g0, g1, intersection(e0, e1))

\* Mutant: the middle one is skipped.
binaryUnion_SkipsOne(kind, geoms) ==
    LET u[r \in (0..Len(geoms)) \X (0..Len(geoms))] ==
            LET mid == (r[1] + r[2]) \div 2
            IN  IF r[2] - r[1] <= 1 THEN geoms[r[1] + 1]
                ELSE unionOptimized(kind, u[<<r[1], mid>>], u[<<IF mid + 1 < r[2] THEN mid + 1 ELSE mid, r[2]>>])
    IN  u[<<0, Len(geoms)>>]
binaryUnion(kind, geoms) ==
    LET u[r \in (0..Len(geoms)) \X (0..Len(geoms))] ==
            LET mid == (r[1] + r[2]) \div 2
            IN  IF r[2] - r[1] <= 1 THEN geoms[r[1] + 1]
                ELSE unionOptimized(kind, u[<<r[1], mid>>], u[<<mid, r[2]>>])
    IN  u[<<0, Len(geoms)>>]

-----------------------------------------------------------------------------
(* UnaryUnionOp::Union                                                     *)
UnionInit ==
    /\ args \in Collections
    /\ pc = "Union" /\ cascade = NULL
    /\ unionPoints = NULL /\ unionLines = NULL /\ unionPolygons = NULL /\ ret = NULL

\* unionNoOpt of all points: those that are not empty, each once.
unitePoints ==
    /\ pc = "Union" /\ pc' = "line"
    /\ LET points == ofKind(args, "point")
       IN  unionPoints' = IF points = <<>> THEN NULL
                          ELSE SetToSeq({c \in ToSet(points) : ~isEmptyPart(c)})
    /\ UNCHANGED <<args, cascade, unionLines, unionPolygons, ret>>

following(kind) == IF kind = "line" THEN "polygon" ELSE "ret"

\* The tree leaves empty parts out.
beginCascade ==
    /\ pc \in {"line", "polygon"}
    /\ LET parts == ofKind(args, pc)
           items == SelectSeq(parts, LAMBDA c : ~isEmptyPart(c))
       IN  IF parts = <<>> THEN pc' = following(pc) /\ cascade' = NULL
           ELSE /\ pc' = "pack"
                /\ cascade' = [kind |-> pc, geoms |-> [k \in DOMAIN items |-> <<items[k]>>], groups |-> <<>>]
    /\ UNCHANGED <<args, unionPoints, unionLines, unionPolygons, ret>>

\* A level of the tree: sorted by their centres, the geometries are cut into groups.
isLower(g0, g1) == LET centreY(e) == e.miny + e.maxy
                   IN  centreY(getEnvelope(g0)) < centreY(getEnvelope(g1))
packLevel ==
    /\ pc = "pack" /\ cascade.geoms # <<>>
    /\ pc' = "unionTree"
    /\ cascade' = [cascade EXCEPT !.geoms = <<>>,
                                  !.groups = Tree!createParentBoundables(SortSeq(cascade.geoms, isLower))]
    /\ UNCHANGED <<args, unionPoints, unionLines, unionPolygons, ret>>

\* Mutant: what is left over is not united with the rest.
unionTree_DropsLast ==
    /\ pc = "unionTree"
    /\ LET groups == IF Len(cascade.groups) > 1 THEN Front(cascade.groups) ELSE cascade.groups
           geoms == Append(cascade.geoms, binaryUnion(cascade.kind, Head(groups)))
       IN  /\ cascade' = [cascade EXCEPT !.geoms = geoms, !.groups = Tail(groups)]
           /\ pc' = IF Len(groups) > 1 THEN "unionTree" ELSE IF Len(geoms) > 1 THEN "pack" ELSE "cascaded"
    /\ UNCHANGED <<args, unionPoints, unionLines, unionPolygons, ret>>
\* The children of a node become one geometry; the root has been reached when
\* there is one node only.
unionTree ==
    /\ pc = "unionTree"
    /\ LET groups == cascade.groups
           geoms == Append(cascade.geoms, binaryUnion(cascade.kind, Head(groups)))
       IN  /\ cascade' = [cascade EXCEPT !.geoms = geoms, !.groups = Tail(groups)]
           /\ pc' = IF Len(groups) > 1 THEN "unionTree" ELSE IF Len(geoms) > 1 THEN "pack" ELSE "cascaded"
    /\ UNCHANGED <<args, unionPoints, unionLines, unionPolygons, ret>>

\* The result of the cascade, NULL from an empty tree: lines are then united once
\* more, to node each line with itself, through a pointer that is not checked.
cascadeEnds ==
    /\ \/ pc = "cascaded"
       \/ pc = "pack" /\ cascade.geoms = <<>>
    /\ LET result == IF cascade.geoms = <<>> THEN NULL ELSE Head(cascade.geoms)
       IN  IF cascade.kind = "line"
           THEN /\ pc' = IF result = NULL THEN "crashed" ELSE "polygon"
                /\ unionLines' = IF result = NULL THEN NULL ELSE overlayUnion(result)
                /\ UNCHANGED unionPolygons
           ELSE pc' = "ret" /\ unionPolygons' = result /\ UNCHANGED unionLines
    /\ cascade' = NULL
    /\ UNCHANGED <<args, unionPoints, ret>>

unionWithNull(g0, g1) == IF g0 = NULL THEN g1 ELSE IF g1 = NULL THEN g0 ELSE Union(g0, g1)

isExterior(p, g) == /\ around(p) \cap cellsOf(g) = {}
                    /\ \A l \in ToSet(pathsOf(g)) : p \notin ToSet(l)

\* Mutant: points on the boundary of an area are kept.
PointGeometryUnion_Boundary(points, g) ==
    SelectSeq(points, LAMBDA c : ~(around(Head(c.is)) \subseteq cellsOf(g))) \o g
\* PointGeometryUnion: the points outside of the other geometry, and that geometry.
PointGeometryUnion(points, g) == SelectSeq(points, LAMBDA c : isExterior(Head(c.is), g)) \o g

\* The union of no points is an empty collection, which is no Puntal.
unionAll ==
    /\ pc = "ret"
    /\ LET unionLA == unionWithNull(unionLines, unionPolygons)
           bothKinds == unionPoints # NULL /\ unionLA # NULL
       IN  /\ pc' = IF bothKinds /\ unionPoints = <<>> THEN "bad_cast" ELSE "united"
           /\ ret' = IF bothKinds THEN PointGeometryUnion(unionPoints, unionLA)
                     ELSE IF unionPoints # NULL THEN unionPoints
                     ELSE IF unionLA # NULL THEN unionLA ELSE <<>>
    /\ UNCHANGED <<args, cascade, unionPoints, unionLines, unionPolygons>>

UnionNext == unitePoints \/ beginCascade \/ packLevel \/ unionTree \/ cascadeEnds \/ unionAll

-----------------------------------------------------------------------------
\* The parts of the result are what a union promises (UnaryUnionOp.h): the areas
\* are merged, lines are fully noded and dissolved, points are kept once, and
\* nothing lies in anything else.  It fails only where all the lines, or all the
\* points beside something else, are empty.
UnionIsTheUnion ==
    /\ pc \in {"crashed", "bad_cast"} =>
          \E kind \in {"line", "point"} : ofKind(args, kind) # <<>> /\ isEmpty(ofKind(args, kind))
    /\ pc = "united" =>
        LET areas == ofKind(ret, "polygon")
            paths == pathsOf(ret)
            given == pathsOf(args)
            edges(l) == {{l[i], l[i + 1]} : i \in 1..(Len(l) - 1)}
            count(e) == Cardinality({<<k, i>> \in UNION {{<<k, i>> : i \in 1..(Len(paths[k]) - 1)} : k \in DOMAIN paths} :
                                        {paths[k][i], paths[k][i + 1]} = e})
            uncovered(e) == \A c \in cellsOf(args) : ~(e \subseteq cornersOf(c))
            points == ofKind(ret, "point")
        IN  /\ cellsOf(ret) = cellsOf(args)
            /\ \A j, k \in DOMAIN areas : j # k =>
                  areas[j].is \cap (areas[k].is \cup UNION {besides(c) : c \in areas[k].is}) = {}
            /\ UNION {edges(paths[k]) : k \in DOMAIN paths}
                 = {e \in UNION {edges(given[k]) : k \in DOMAIN given} : uncovered(e)}
            /\ \A k \in DOMAIN paths : \A e \in edges(paths[k]) : count(e) = 1
            /\ \A k \in DOMAIN paths : \A i \in 2..(Len(paths[k]) - 1) : ~isNode(paths[k][i], given, cellsOf(args))
            /\ \A j, k \in DOMAIN points : points[j] = points[k] => j = k
            /\ {c.is : c \in ToSet(points)}
                 = {c.is : c \in {x \in ToSet(ofKind(args, "point")) : ~isEmptyPart(x) /\ isExterior(Head(x.is), args)}}
            /\ \A c \in ToSet(ret) : ~isEmptyPart(c)
=============================================================================
