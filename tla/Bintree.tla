------------------------------ MODULE Bintree -------------------------------
(***************************************************************************)
(* index/bintree: the Quadtree over one dimension, without removal.  An    *)
(* interval is an envelope of which only the x-axis is used; a node is its *)
(* interval <<min, max>>.                                                  *)
(***************************************************************************)
EXTENDS Envelopes, PowerOfTwoCells, Sequences, SequencesExt, TLC

CONSTANTS Entries, Searches, MaxInserts

VARIABLES binExtent,   \* minExtent
          binRoot,     \* items of the root, which contain the origin
          bins,        \* the existing nodes, each with its items
          binEntries,  \* what was inserted
          answer    \* what the last call returned

vars == <<binExtent, binRoot, bins, binEntries, answer>>

Init == /\ binExtent = Unit /\ binRoot = <<>> /\ bins = <<>>
        /\ binEntries = <<>> /\ answer = <<"none">>

contains(a, b) == b[1] >= a[1] /\ b[2] <= a[2]
overlaps(a, b) == ~(a[1] > b[2] \/ a[2] < b[1])

\* c2 is twice the centre of a node; the root has its centre at 0.
getSubnodeIndex(i, c2) == IF 2 * i[2] <= c2 THEN 0 ELSE IF 2 * i[1] >= c2 THEN 1 ELSE -1

createSubnode(n, index) ==
    LET mid == (n[1] + n[2]) \div 2
    IN  IF index = 0 THEN <<n[1], mid>> ELSE <<mid, n[2]>>

createNode(i) ==
    LET cell(s) == <<cellStart(i[1], s), cellStart(i[1], s) + s>>
    IN  cell(keySize(i[2] - i[1], {s \in PowersOf2 : contains(cell(s), i)}))

\* The nodes from n down to the smallest one that holds i.
pathTo(n, i) ==
    LET path[k \in Nat] ==
            IF k = 0 THEN <<n>>
            ELSE LET last == Last(path[k - 1])
                     index == getSubnodeIndex(i, last[1] + last[2])
                 IN  IF index = -1 THEN path[k - 1]
                     ELSE Append(path[k - 1], createSubnode(last, index))
    IN  path[MaxLevel + 1]

topFor(index) ==
    {n \in DOMAIN bins : /\ getSubnodeIndex(n, 0) = index
                         /\ \A m \in DOMAIN bins : contains(m, n) => m = n}

\* Root::insert with Node::createExpanded and Node::insert.
expanded(index, i) ==
    LET top == topFor(index)
        old == CHOOSE n \in top : TRUE
    IN  IF top = {} THEN {createNode(i)} \cup DOMAIN bins
        ELSE IF contains(old, i) THEN DOMAIN bins
        ELSE ToSet(pathTo(createNode(<<Least(old[1], i[1]), Most(old[2], i[2])>>), old))
             \cup DOMAIN bins

\* Root::insertContained, Node::find and Node::getNode.
placeIn(ns, i) ==
    LET top  == CHOOSE n \in ns : contains(n, i) /\ \A m \in ns : contains(m, n) => m = n
        path == pathTo(top, i)
        there == SelectSeq(path, LAMBDA n : n \in ns)
    IN  IF isZeroWidth(i[1], i[2]) THEN [at |-> Last(there), nodes |-> ns]
        ELSE [at |-> Last(path), nodes |-> ns \cup ToSet(path)]

itemsAt(n) == IF n \in DOMAIN bins THEN bins[n] ELSE <<>>

insert(e) ==
    LET width == getWidth(e.env)
        k == Len(binEntries) + 1
        extent == IF width < binExtent /\ width > 0 THEN width ELSE binExtent
        i == padded(e.env.minx, e.env.maxx, extent)
        index == getSubnodeIndex(i, 0)
    IN  /\ k <= MaxInserts
        /\ binExtent' = extent
        /\ binEntries' = Append(binEntries, e)
        /\ IF index = -1 THEN binRoot' = Append(binRoot, k) /\ UNCHANGED bins
           ELSE LET place == placeIn(expanded(index, i), i)
                IN  /\ bins' = [n \in place.nodes |->
                           IF n = place.at THEN Append(itemsAt(n), k) ELSE itemsAt(n)]
                    /\ UNCHANGED binRoot
        /\ answer' = <<"none">>

\* addAllItemsFromOverlapping
query(env) ==
    LET met == {n \in DOMAIN bins : overlaps(<<env.minx, env.maxx>>, n)}
    IN  /\ answer' = <<"query", env, binRoot \o FlattenSeq(SetToSeq({bins[n] : n \in met} \ {<<>>}))>>
        /\ UNCHANGED <<binExtent, binRoot, bins, binEntries>>

Next == \/ \E e \in Entries : insert(e)
        \/ \E env \in Searches : query(env)

stored == [k \in DOMAIN binEntries |-> binEntries[k]]
=============================================================================
