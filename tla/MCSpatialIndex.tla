--------------------------- MODULE MCSpatialIndex ---------------------------
(***************************************************************************)
(* The indexes of the library on small sets of items: Init chooses one of  *)
(* them, and every behaviour of it must be one that SpatialIndex allows.   *)
(***************************************************************************)
EXTENDS Quadtree, FiniteSetsExt

CONSTANTS Kinds,                                \* the indexes to check: tree, quad, bin, interval
          nodeCapacity, NDEBUG, NULL            \* STRtree

\* The boxes are such as the proofs about the quadtree assume.
ASSUME BoxesFit == EntriesFit

VARIABLES kind,                                 \* the index in use; Quadtree's are extended
          built, itemBoundables, nodes, root, removed, pc, call, list, priQ, minPair, \* STRtree
          binExtent, binRoot, bins, binEntries, \* Bintree
          leaves, packed, rPc, rSearch, rList   \* SortedPackedIntervalRTree

quadVars == <<minExtent, rootItems, quads, entries>>
binVars  == <<binExtent, binRoot, bins, binEntries>>
rVars    == <<leaves, packed, rPc, rSearch, rList>>
treeVars == <<built, itemBoundables, nodes, root, removed, pc, call, list, priQ, minPair>>
allVars  == <<kind, answer, treeVars, quadVars, binVars, rVars>>

-----------------------------------------------------------------------------
(* The instance: boxes that share cells, sides and corners, points, one    *)
(* box across the axes, one far away, and one item under two envelopes.    *)
(* The STR-trees get a null envelope and, to grow to three levels, more    *)
(* insertions of fewer entries; the intervals are without height.          *)
treeEntries == {[env |-> Rect(-2, 2, -2, 2), item |-> "a"], [env |-> Rect(8, 12, 6, 8), item |-> "a"],
                [env |-> Rect(4, 4, 4, 4), item |-> "c"],   [env |-> NullEnvelope, item |-> "e"]}
MCEntries == {e \in treeEntries : ~isNull(e.env) /\ e.env.minx < 8} \cup
             {[env |-> Rect(4, 6, 0, 4), item |-> "b"], [env |-> Rect(-10, -8, 2, 2), item |-> "b"]}
Intervals == {[env |-> Rect(e.env.minx, e.env.maxx, 0, 0), item |-> e.item] : e \in MCEntries}

MCSearches == {Rect(4, 4, 4, 4), Rect(-12, -1, 1, 7)}
flatSearches == {Rect(s.minx, s.maxx, 0, 0) : s \in Searches}

MCExponent == -3

T == INSTANCE STRtree WITH Entries <- treeEntries, MaxInserts <- MaxInserts + 1
B == INSTANCE Bintree WITH Entries <- Intervals, Searches <- flatSearches, MaxInserts <- MaxInserts + 1
R == INSTANCE IntervalRTree WITH Entries <- Intervals, Searches <- flatSearches

\* So are those of the STR-tree.
ASSUME TreeEntriesFit == T!EntriesFit

-----------------------------------------------------------------------------
MCInit == kind \in Kinds /\ Init /\ T!Init /\ B!Init /\ R!Init

TreeStep == kind = "tree" /\ T!Next /\ UNCHANGED <<kind, quadVars, binVars, rVars>>
QuadStep == kind = "quad" /\ Next /\ UNCHANGED <<kind, treeVars, binVars, rVars>>
BinStep  == kind = "bin" /\ B!Next /\ UNCHANGED <<kind, treeVars, quadVars, rVars>>
IntvStep == kind = "interval" /\ R!Next /\ UNCHANGED <<kind, treeVars, quadVars, binVars>>

\* Bound: the client stores each entry at most twice.
Twice(s) == \A i, j, k \in DOMAIN s : (i < j /\ j < k) => ~(s[i] = s[j] /\ s[j] = s[k])

MCNext == (TreeStep \/ QuadStep \/ BinStep \/ IntvStep) /\ Twice(itemBoundables') /\ Twice(entries')

MCSpec == MCInit /\ [][MCNext]_allVars

-----------------------------------------------------------------------------
storedNow == CASE kind = "tree" -> T!stored
               [] kind = "quad" -> stored
               [] kind = "bin"  -> B!stored
               [] OTHER         -> R!stored

Index == INSTANCE SpatialIndex
    WITH stored <- storedNow, Id <- 1..(MaxInserts + 1),
         Entries <- treeEntries \cup Entries \cup Intervals, Searches <- Searches \cup flatSearches

\* Whatever the order of insertions, removals and searches: every entry that meets
\* the searched envelope is reported once, nothing is reported that was removed or
\* never inserted, remove takes out one entry of the item and says so, the nearest
\* neighbour is nearest, and the listings are complete (SpatialIndex.h, STRtree.h,
\* Quadtree.h, Bintree.h, SortedPackedIntervalRTree.h).
ImplementsSpatialIndex == Index!Spec

\* What is left to do of a call: its phase, then the size of what it works on.
phase(p) == CASE p = "idle" -> 0 [] p \in {"build", "buildTree"} -> 4
              [] p = "createHigherLevels" -> 3 [] p = "start" -> 2 [] OTHER -> 1

below(bs) ==
    LET down[l \in Nat] == IF l = 0 THEN bs
            ELSE down[l - 1] \cup UNION {ToSet(T!children(b)) : b \in {c \in down[l - 1] : ~T!isItem(c)}}
    IN  down[nodes[root[2]].level + 1]

RECURSIVE branches(_)
branches(n) == IF R!isBranch(n) THEN 1 + branches(n.node1) + branches(n.node2) ELSE 0

height(b) == IF T!isItem(b) THEN 0 ELSE nodes[b[2]].level + 1

size == CASE pc = "createHigherLevels" -> Len(list)
          [] pc = "nearestNeighbour"   -> Cardinality(below(priQ))
          [] OTHER                     -> Max({0} \cup {height(b) : b \in ToSet(list)})
rSize == IF rPc = "buildTree" THEN Len(rList)
         ELSE FoldLeft(LAMBDA n, t : n + branches(t), 0, rList)

less(p, q) == p[1] < q[1] \/ (p[1] = q[1] /\ p[2] < q[2])

\* A call on an index that is not empty comes to its end: each of its steps ends a
\* phase or leaves less to do.  The packing of a level gives fewer nodes, so that
\* one root remains; a descent goes down; the priority queue loses what it expands
\* (AbstractSTRtree::createHigherLevels, STRtree::nearestNeighbour,
\* SortedPackedIntervalRTree::buildTree).
CallsConverge ==
    [][/\ (call # NULL /\ itemBoundables # <<>>) => less(<<phase(pc'), size'>>, <<phase(pc), size>>)
       /\ (rPc # "idle" /\ leaves # <<>>) => less(<<phase(rPc'), rSize'>>, <<phase(rPc), rSize>>)]_allVars
=============================================================================
