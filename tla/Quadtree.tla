------------------------------ MODULE Quadtree ------------------------------
(***************************************************************************)
(* index/quadtree: four trees of quads, one per quadrant of the plane, and *)
(* a root list for items that cross an axis.  A tree grows upwards when an *)
(* item does not fit its top quad, and downwards to the smallest quad that *)
(* holds an item.  A quad is its square; as the children of a quad lie in  *)
(* it, the map from the existing quads to their items is the whole tree.   *)
(* The nodes hold items without their envelopes; the names of insertions   *)
(* tell equal items apart here.                                            *)
(***************************************************************************)
EXTENDS Envelopes, PowerOfTwoCells, Sequences, SequencesExt, FiniteSets

CONSTANTS Entries, Searches, MaxInserts

IntRect == [minx : Int, maxx : Int, miny : Int, maxy : Int]

\* Half the size of the largest quads.
Reach == powerOf2[MaxLevel - 1]

\* The bound on the levels does not bite: every item, padded, lies within the
\* largest quads, and no extent is so small that half of it is off the grid.
EntriesFit ==
    /\ MaxInserts \in Nat /\ MaxLevel > 0 /\ Unit > 1
    /\ Searches \subseteq IntRect
    /\ \A e \in Entries :
          /\ e = [env |-> e.env, item |-> e.item] /\ e.env \in IntRect
          /\ e.env.minx <= e.env.maxx /\ e.env.miny <= e.env.maxy
          /\ e.env.maxx - e.env.minx # 1 /\ e.env.maxy - e.env.miny # 1
          /\ -Reach <= e.env.minx - Unit /\ e.env.maxx <= Reach
          /\ -Reach <= e.env.miny - Unit /\ e.env.maxy <= Reach

VARIABLES minExtent,   \* smallest extent seen, used to pad items without extent
          rootItems,   \* items of the root
          quads,       \* the existing quads, each with its items
          entries,     \* what was inserted
          answer       \* what the last call returned

vars == <<minExtent, rootItems, quads, entries, answer>>

Init == /\ minExtent = Unit /\ rootItems = <<>> /\ quads = <<>>
        /\ entries = <<>> /\ answer = <<"none">>

Quad(x, y, size) == [minx |-> x, maxx |-> x + size, miny |-> y, maxy |-> y + size]
sizeOf(q) == q.maxx - q.minx

\* Twice the centre of a quad; the root has its centre at the origin.
centre2(q) == <<q.minx + q.maxx, q.miny + q.maxy>>
Origin == <<0, 0>>

getSubnodeIndex(e, c) ==
    IF 2 * e.maxx <= c[1] THEN (IF 2 * e.maxy <= c[2] THEN 0 ELSE IF 2 * e.miny >= c[2] THEN 2 ELSE -1)
    ELSE IF 2 * e.minx >= c[1] THEN (IF 2 * e.maxy <= c[2] THEN 1 ELSE IF 2 * e.miny >= c[2] THEN 3 ELSE -1)
    ELSE -1

subquad(q, index) ==
    LET h == sizeOf(q) \div 2
    IN  Quad(IF index \in {1, 3} THEN q.minx + h ELSE q.minx,
             IF index \in {2, 3} THEN q.miny + h ELSE q.miny, h)

ensureExtent(e, extent) ==
    LET x == padded(e.minx, e.maxx, extent)
        y == padded(e.miny, e.maxy, extent)
    IN  Rect(x[1], x[2], y[1], y[2])

collectStats(e) ==
    LET seen == {w \in {getWidth(e), getHeight(e)} : w > 0 /\ w < minExtent}
    IN  CHOOSE w \in seen \cup {minExtent} : \A v \in seen : w <= v

-----------------------------------------------------------------------------
(* The tree.                                                               *)

\* The top quads, and the one of the quadrant that holds e.
isTop(q) == \A p \in DOMAIN quads : ~(p # q /\ covers(p, q))
topFor(index) == {q \in DOMAIN quads : isTop(q) /\ getSubnodeIndex(q, Origin) = index}

createNode(e) ==
    LET cell(s) == Quad(cellStart(e.minx, s), cellStart(e.miny, s), s)
    IN  cell(keySize(Most(getWidth(e), getHeight(e)), {s \in PowersOf2 : covers(cell(s), e)}))

\* The quads from q down to the smallest one that holds e.
pathTo(q, e) ==
    LET path[k \in Nat] ==
            IF k = 0 THEN <<q>>
            ELSE LET i == getSubnodeIndex(e, centre2(Last(path[k - 1])))
                 IN  IF i = -1 THEN path[k - 1]
                     ELSE Append(path[k - 1], subquad(Last(path[k - 1]), i))
    IN  path[MaxLevel + 1]

\* Mutant: the larger quad is put on top without the quads in between.
expanded_Direct(index, e) ==
    LET top == topFor(index)
        old == CHOOSE q \in top : TRUE
    IN  IF top = {} THEN {createNode(e)} \cup DOMAIN quads
        ELSE IF covers(old, e) THEN DOMAIN quads
        ELSE {createNode(expandToInclude(e, old))} \cup DOMAIN quads

\* Root::insert with Node::createExpanded: the quads the quadrant has once its top
\* quad holds e.
expanded(index, e) ==
    LET top == topFor(index)
    IN  IF \E q \in top : covers(q, e) THEN DOMAIN quads
        ELSE LET old == CHOOSE q \in top : TRUE
                 larger == createNode(IF top = {} THEN e ELSE expandToInclude(e, old))
             IN  DOMAIN quads \cup
                 (IF top = {} THEN {larger}
                  ELSE {q \in ToSet(pathTo(larger, old)) : covers(q, old)})

\* Root::insertContained: an item of no relative width goes to the smallest quad
\* there is, any other to the smallest that can hold it.
placeIn(qs, e) ==
    LET top  == CHOOSE q \in qs : covers(q, e) /\ \A p \in qs : covers(p, q) => p = q
        path == pathTo(top, e)
        zero == isZeroWidth(e.minx, e.maxx) \/ isZeroWidth(e.miny, e.maxy)
        there == {i \in DOMAIN path : path[i] \in qs}
        deepest == CHOOSE i \in there : \A j \in there : j <= i
    IN  IF zero THEN [at |-> path[deepest], quads |-> qs]
        ELSE [at |-> Last(path), quads |-> qs \cup ToSet(path)]

itemsAt(q) == IF q \in DOMAIN quads THEN quads[q] ELSE <<>>

insert(e) ==
    /\ Len(entries) < MaxInserts
    /\ minExtent' = collectStats(e.env)
    /\ entries' = Append(entries, e)
    /\ LET env == ensureExtent(e.env, minExtent')
           k == Len(entries) + 1
           index == getSubnodeIndex(env, Origin)
       IN  IF index = -1 THEN rootItems' = Append(rootItems, k) /\ UNCHANGED quads
           ELSE LET place == placeIn(expanded(index, env), env)
                IN  /\ quads' = [q \in place.quads |->
                           IF q = place.at THEN Append(itemsAt(q), k) ELSE itemsAt(q)]
                    /\ UNCHANGED rootItems
    /\ answer' = <<"none">>

\* addAllItemsFromOverlapping and visit: every item of the root and of the quads
\* that meet the envelope.
query(env) ==
    /\ answer' = <<"query", env, rootItems \o
                   FlattenSeq(SetToSeq({quads[q] : q \in {p \in DOMAIN quads : intersects(p, env)}} \ {<<>>}))>>
    /\ UNCHANGED <<minExtent, rootItems, quads, entries>>

queryAll ==
    /\ answer' = <<"all", rootItems \o FlattenSeq(SetToSeq({quads[q] : q \in DOMAIN quads} \ {<<>>}))>>
    /\ UNCHANGED <<minExtent, rootItems, quads, entries>>

-----------------------------------------------------------------------------
(* remove                                                                  *)

\* The list ks without the first name of the item.
without(ks, item) == RemoveAt(ks, SelectInSeq(ks, LAMBDA k : entries[k].item = item))
holds(ks, item)   == \E k \in ToSet(ks) : entries[k].item = item

\* Up from q, quads without items and children are deleted.
pruned(q, items) ==
    LET branch == {p \in DOMAIN quads : covers(p, q)}
        idle(p) == IF p = q THEN items = <<>> ELSE quads[p] = <<>>
    IN  {p \in branch : \A r \in DOMAIN quads : covers(p, r) => (r \in branch /\ idle(r))}

\* NodeBase::remove looks into the subquads before the quad itself and into the
\* root's own items last; which of two separate quads comes first is left open.
remove(env, item) ==
    LET pos == ensureExtent(env, minExtent)
        found == {q \in DOMAIN quads : intersects(q, pos) /\ holds(quads[q], item)}
    IN  /\ \/ \E q \in found :
                /\ \A p \in found : covers(q, p) => p = q
                /\ LET left == without(quads[q], item)
                       gone == pruned(q, left)
                   IN  quads' = [p \in DOMAIN quads \ gone |->
                                    IF p = q THEN left ELSE quads[p]]
                /\ answer' = <<"remove", env, item, TRUE>> /\ UNCHANGED rootItems
           \/ /\ found = {} /\ holds(rootItems, item)
              /\ rootItems' = without(rootItems, item)
              /\ answer' = <<"remove", env, item, TRUE>> /\ UNCHANGED quads
           \/ /\ found = {} /\ ~holds(rootItems, item)
              /\ answer' = <<"remove", env, item, FALSE>> /\ UNCHANGED <<rootItems, quads>>
        /\ UNCHANGED <<minExtent, entries>>

Next == \/ \E e \in Entries : insert(e) \/ remove(e.env, e.item)
        \/ \E env \in Searches : query(env)
        \/ queryAll

Spec == Init /\ [][Next]_vars

-----------------------------------------------------------------------------
stored == [k \in ToSet(rootItems) \cup UNION {ToSet(quads[q]) : q \in DOMAIN quads} |-> entries[k]]

\* A quad in the tree for every place between a quad and the top of its quadrant,
\* as wide as its level says, and one top per quadrant: the walk from the top
\* reaches every item, and no two trees of a quadrant come about when one grows
\* upwards (Node::createExpanded).
QuadsAreConnected ==
    \A q \in DOMAIN quads :
        /\ q.minx % sizeOf(q) = 0 /\ q.miny % sizeOf(q) = 0 /\ sizeOf(q) \in PowersOf2
        /\ \A p \in DOMAIN quads :
              (covers(p, q) /\ p # q) => subquad(p, getSubnodeIndex(q, centre2(p))) \in DOMAIN quads
        /\ Cardinality(topFor(getSubnodeIndex(q, Origin))) = 1
=============================================================================
