---------------------------- MODULE GeometryHeap ----------------------------
(***************************************************************************)
(* The C++ objects geometries are made of and who deletes them: the        *)
(* constructors of the Geometry classes and the create functions of        *)
(* GeometryFactory, in the forms that take over their arguments and in the *)
(* forms that copy them, with what each leaves behind when a constructor   *)
(* throws.                                                                 *)
(*                                                                         *)
(* A heap maps the objects alive to their kind, their size (the number of  *)
(* coordinates of a sequence), the objects they own and the objects they   *)
(* point to without owning them.  An operator that allocates or deletes    *)
(* returns the heap it leaves.                                             *)
(***************************************************************************)
EXTENDS Naturals, FiniteSets, Sequences, SequencesExt

CONSTANTS Object,     \* the addresses
          Sizes,      \* the sizes of coordinate sequences; Closed is that of a closed ring
          Closed,
          NULL

ASSUME HeapAssumption ==
    Object \subseteq Nat /\ Sizes \subseteq Nat /\ Closed >= 4 /\ NULL \notin Object

Single   == {"point", "line", "ring", "polygon"}
Multi    == {"multipoint", "multiline", "multipolygon", "collection"}
Geometry == Single \cup Multi

\* An object of kind k that owns ps.
Made(k, ps) == [kind |-> k, size |-> 0, parts |-> ps, refs |-> {}]
Sequence(n) == [kind |-> "seq", size |-> n, parts |-> {}, refs |-> {}]

Put(h, o, r) == [x \in DOMAIN h \cup {o} |-> IF x = o THEN r ELSE h[x]]
Drop(h, S)   == [x \in DOMAIN h \ S |-> h[x]]

\* What is deleted with S: the objects S owns, and so on.
Tree(h, S) ==
    LET OwnsItsParts(T) == S \cap DOMAIN h \subseteq T /\ \A x \in T : h[x].parts \subseteq T
    IN  {x \in DOMAIN h : \A T \in SUBSET DOMAIN h : OwnsItsParts(T) => x \in T}

\* n addresses nobody uses or remembers; kept are the ones a caller remembers.
Fresh(h, kept, n) ==
    LET at == Injection(1..n, Object \ (kept \cup UNION {{x} \cup h[x].parts \cup h[x].refs : x \in DOMAIN h}))
    IN  IF at = {} THEN <<>> ELSE CHOOSE a \in at : TRUE

\* clone(): the tree of o, copied to the first addresses of at.
Copied(h, o, at) ==
    LET old == Tree(h, {o})
        new == CHOOSE f \in Injection(old, {at[i] : i \in 1..Cardinality(old)}) : TRUE
        orig(y) == CHOOSE x \in old : new[x] = y
        img == {new[x] : x \in old}
    IN  [heap |-> [y \in DOMAIN h \cup img |->
                      IF y \in img
                      THEN [h[orig(y)] EXCEPT !.parts = {new[x] : x \in h[orig(y)].parts}]
                      ELSE h[y]],
         ret  |-> new[o]]

-----------------------------------------------------------------------------
(* What the constructors check.                                            *)
accepts(k, n) ==
    CASE k = "point" -> n = 1
      [] k = "line"  -> n # 1
      [] k = "ring"  -> n \in {0, Closed}

\* Mutant: the check comes before the sequence is held.
construct_ChecksFirst(h, k, cs, o) ==
    [heap |-> IF accepts(k, h[cs].size) THEN Put(h, o, Made(k, {cs})) ELSE h,
     ret  |-> IF accepts(k, h[cs].size) THEN o ELSE NULL]

\* Point, LineString and LinearRing hold the sequence in an auto_ptr member: it
\* is deleted with the half constructed object when the constructor throws.
construct(h, k, cs, o) ==
    IF accepts(k, h[cs].size)
    THEN [heap |-> Put(h, o, Made(k, {cs})), ret |-> o]
    ELSE [heap |-> Drop(h, {cs}), ret |-> NULL]

isEmpty(h, g) == \A s \in h[g].parts : h[s].size = 0

\* Mutant: the shell is held, and deleted, before the holes are checked.
constructPolygon_HoldsShell(h, shell, holes, o) ==
    IF /\ \A x \in holes : h[x].kind = "ring"
       /\ isEmpty(h, shell) => \A x \in holes : isEmpty(h, x)
    THEN [heap |-> Put(h, o, Made("polygon", {shell} \cup holes)), ret |-> o]
    ELSE [heap |-> Drop(h, Tree(h, {shell})), ret |-> NULL]

\* Polygon takes over shell and holes only once it has checked them.
constructPolygon(h, shell, holes, o) ==
    IF /\ \A x \in holes : h[x].kind = "ring"
       /\ isEmpty(h, shell) => \A x \in holes : isEmpty(h, x)
    THEN [heap |-> Put(h, o, Made("polygon", {shell} \cup holes)), ret |-> o]
    ELSE [heap |-> h, ret |-> NULL]

-----------------------------------------------------------------------------
(* GeometryFactory: the forms that copy their argument.                    *)

\* createLineString and createLinearRing of a const CoordinateSequence&: "construction
\* failure will delete newCoords", the copy.
createFromCopy(h, k, cs, at) ==
    LET copy == Copied(h, cs, at)
        made == construct(copy.heap, k, copy.ret, at[2])
    IN  [heap |-> made.heap, ret |-> made.ret, twice |-> FALSE]

\* createPoint of a const CoordinateSequence& deletes newCoords once more.
createPointFromCopy(h, cs, at) ==
    LET made == construct(Copied(h, cs, at).heap, "point", at[1], at[2])
    IN  [heap |-> made.heap, ret |-> made.ret, twice |-> made.ret = NULL]

\* createGeometryCollection, createMultiPolygon and createMultiPoint of a
\* const vector&, for one element: its clone becomes the only part.
createMultiFromCopy(h, k, g, at) ==
    LET copy == Copied(h, g, at)
        o == at[Len(at)]
    IN  [heap |-> Put(copy.heap, o, Made(k, {copy.ret})), ret |-> o]

\* createMultiLineString of a const vector&: an element that is no LineString
\* throws, and the vector allocated before is not deleted.
createMultiLineStringFromCopy(h, g, at) ==
    IF h[g].kind \in {"line", "ring"} THEN createMultiFromCopy(h, "multiline", g, at)
    ELSE [heap |-> Put(h, at[1], Made("vector", {})), ret |-> NULL]

\* The class buildGeometry gives a list of geometries: none for a single one,
\* which is returned itself.
builtClass(h, gs) ==
    LET kinds == {h[g].kind : g \in gs}
    IN  CASE gs = {} -> "collection"
          [] Cardinality(kinds) > 1 \/ kinds \cap Multi # {} -> "collection"
          [] Cardinality(gs) = 1 -> "none"
          [] kinds = {"polygon"} -> "multipolygon"
          [] kinds = {"point"}   -> "multipoint"
          [] OTHER -> "multiline"

\* buildGeometry(vector*): the vector becomes part of the result or is deleted.
buildGeometry(h, gs, o) ==
    IF builtClass(h, gs) = "none" THEN [heap |-> h, ret |-> CHOOSE g \in gs : TRUE]
    ELSE [heap |-> Put(h, o, Made(builtClass(h, gs), gs)), ret |-> o]
=============================================================================
