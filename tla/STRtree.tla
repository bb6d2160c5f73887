------------------------------ MODULE STRtree -------------------------------
(***************************************************************************)
(* AbstractSTRtree and STRtree: items are collected in a list; the first   *)
(* call that searches packs them into a tree, level by level, and the tree *)
(* stays as it is but for removals.  A call goes through the levels of the *)
(* tree one step per level; all items are at the same depth, so this       *)
(* visits the boundables in the order of the recursive calls.              *)
(*                                                                         *)
(* A boundable is <<"item", k>>, the k-th item inserted, or <<"node", n>>, *)
(* the n-th node created.  The bounds of a node, cached on first use, are  *)
(* those of all its children when it was filled: packing the next level    *)
(* and the test of the root ask for them before anything can be removed.   *)
(***************************************************************************)
EXTENDS Envelopes, Sequences, SequencesExt, FiniteSetsExt, TLC

CONSTANTS Entries,        \* what a client may insert or remove: records [env, item]
          Searches,       \* envelopes a client searches with
          nodeCapacity,   \* children of a node, more than one
          NDEBUG,         \* TRUE: assert() is compiled out
          MaxInserts,     \* bound on the number of insertions
          NULL

Box == [minx : Int, maxx : Int, miny : Int, maxy : Int]

\* Nodes have several children, envelopes have integer sides and are null in both
\* directions or in none, and the null pointer is neither an envelope nor a boundable.
EntriesFit ==
    /\ nodeCapacity \in Nat /\ nodeCapacity > 1 /\ MaxInserts \in Nat
    /\ \A e \in Entries : /\ e = [env |-> e.env, item |-> e.item] /\ e.env \in Box
                          /\ ~isNull(e.env) => e.env.miny <= e.env.maxy
    /\ Searches \subseteq Box
    /\ NULL \notin Box /\ NULL \notin {"item", "node"} \X Nat

VARIABLES built, itemBoundables, nodes, root,   \* members
          removed,  \* history: the items that remove() took out
          pc,       \* idle, or the call or crash the tree is in
          call,     \* the running call: operation, envelope, item
          list,     \* boundables of the level being packed or searched
          priQ, minPair,  \* nearestNeighbour: pairs to expand, best pair of leaves
          answer    \* what the last call returned

vars == <<built, itemBoundables, nodes, root, removed, pc, call, list, priQ, minPair, answer>>

Init ==
    /\ built = FALSE /\ itemBoundables = <<>> /\ nodes = <<>> /\ root = NULL /\ removed = {}
    /\ pc = "idle" /\ call = NULL /\ list = <<>>
    /\ priQ = {} /\ minPair = NULL
    /\ answer = <<"none">>

isItem(b)    == b[1] = "item"
getBounds(b) == IF isItem(b) THEN itemBoundables[b[2]].env ELSE nodes[b[2]].bounds
getItem(b)   == itemBoundables[b[2]].item
children(b)  == nodes[b[2]].children

ItemBoundables == [k \in DOMAIN itemBoundables |-> <<"item", k>>]

\* The answer names the call: its operation, its arguments and its result.
Return(a) == /\ answer' = CASE call.op = "all"    -> <<call.op, a>>
                            [] call.op = "remove" -> <<call.op, call.env, call.item, a>>
                            [] OTHER              -> <<call.op, call.env, a>>
             /\ pc' = "idle" /\ call' = NULL

-----------------------------------------------------------------------------
(* insert                                                                  *)

\* Mutant: a late item is only remembered.
insert_Late(e) ==
    /\ pc = "idle"
    /\ Len(itemBoundables) < MaxInserts /\ ~isNull(e.env)
    /\ itemBoundables' = Append(itemBoundables, e) /\ answer' = <<"none">>
    /\ UNCHANGED <<built, nodes, root, removed, pc, call, list, priQ, minPair>>

insert(e) ==
    /\ pc = "idle"
    /\ Len(itemBoundables) < MaxInserts
    /\ IF isNull(e.env) THEN UNCHANGED vars
       ELSE /\ IF built /\ ~NDEBUG
               THEN pc' = "aborted" /\ UNCHANGED <<itemBoundables, answer>>
               ELSE /\ itemBoundables' = Append(itemBoundables, e)
                    /\ answer' = <<"none">> /\ UNCHANGED pc
            /\ UNCHANGED <<built, nodes, root, removed, call, list, priQ, minPair>>

-----------------------------------------------------------------------------
(* Packing.                                                                *)

centre(b) == LET e == getBounds(b)
             IN  e.miny + e.maxy

\* std::sort leaves equal centres in any order.
sortBoundables(bs) ==
    {s \in SetToSeqs(ToSet(bs)) :
        \A i \in 1..(Len(s) - 1) : centre(s[i]) <= centre(s[i + 1])}

ceilDiv(a, b) == (a + b - 1) \div b
ceilSqrt(n)   == CHOOSE r \in 0..n : r * r >= n /\ \A q \in 0..(r - 1) : q * q < n

\* s cut into runs of n, of which there is at least one; the last may be shorter.
runs(s, n) == [i \in 1..Most(1, ceilDiv(Len(s), n)) |->
                  SubSeq(s, (i - 1) * n + 1, Least(i * n, Len(s)))]

\* STRtree::verticalSlices: exactly sliceCount slices, empty ones included.
verticalSlices(s, sliceCount) ==
    LET capacity == ceilDiv(Len(s), sliceCount)
    IN  [i \in 1..sliceCount |->
            SubSeq(s, Least((i - 1) * capacity, Len(s)) + 1, Least(i * capacity, Len(s)))]

\* Mutant: a node for every child.
createParentBoundables_One(s) == runs(s, 1)

\* STRtree::createParentBoundables: the children of each new node.
createParentBoundables(s) ==
    LET minLeafCount == ceilDiv(Len(s), nodeCapacity)
        slices == verticalSlices(s, ceilSqrt(minLeafCount))
    IN  FlattenSeq([i \in DOMAIN slices |-> runs(slices[i], nodeCapacity)])

computeBounds(bs) ==
    LET es == {getBounds(b) : b \in ToSet(bs)}
    IN  IF bs = <<>> THEN NULL
        ELSE [minx |-> Min({e.minx : e \in es}), maxx |-> Max({e.maxx : e \in es}),
              miny |-> Min({e.miny : e \in es}), maxy |-> Max({e.maxy : e \in es})]

newNodes(groups, level) ==
    [i \in DOMAIN groups |-> [level |-> level, children |-> groups[i],
                              bounds |-> computeBounds(groups[i])]]

\* build: an empty tree gets a root without bounds.
build ==
    /\ pc = "build"
    /\ IF itemBoundables = <<>>
       THEN /\ nodes' = <<[level |-> 0, children |-> <<>>, bounds |-> NULL]>>
            /\ root' = <<"node", 1>> /\ built' = TRUE /\ pc' = "start"
            /\ UNCHANGED list
       ELSE /\ list' = ItemBoundables /\ pc' = "createHigherLevels"
            /\ UNCHANGED <<nodes, root, built>>
    /\ UNCHANGED <<itemBoundables, removed, call, priQ, minPair, answer>>

\* One level: comparing a node without bounds dereferences a null pointer.
createHigherLevels ==
    /\ pc = "createHigherLevels"
    /\ IF Len(list) > 1 /\ \E b \in ToSet(list) : getBounds(b) = NULL
       THEN pc' = "crashed" /\ UNCHANGED <<nodes, root, built, list>>
       ELSE \E s \in sortBoundables(list) :
              LET level  == IF isItem(list[1]) THEN 0 ELSE nodes[list[1][2]].level + 1
                  groups == createParentBoundables(s)
                  parents == [i \in DOMAIN groups |-> <<"node", Len(nodes) + i>>]
              IN  /\ nodes' = nodes \o newNodes(groups, level)
                  /\ IF Len(groups) = 1
                     THEN /\ root' = parents[1] /\ built' = TRUE
                          /\ pc' = "start" /\ list' = <<>>
                     ELSE list' = parents /\ UNCHANGED <<root, built, pc>>
    /\ UNCHANGED <<itemBoundables, removed, call, priQ, minPair, answer>>

-----------------------------------------------------------------------------
(* Calls.                                                                  *)

begin(op, env, item) ==
    /\ pc = "idle"
    /\ call' = [op |-> op, env |-> env, item |-> item]
    /\ pc' = IF built THEN "start" ELSE "build"
    /\ answer' = <<"none">>
    /\ UNCHANGED <<built, itemBoundables, nodes, root, removed, list, priQ, minPair>>

\* query and remove test the bounds of the root first; nearestNeighbour makes
\* a pair of the root and its argument, which throws without bounds.
start ==
    /\ pc = "start"
    /\ \/ /\ call.op \in {"query", "remove"} /\ getBounds(root) = NULL
          /\ pc' = "crashed"
          /\ UNCHANGED <<call, list, priQ, answer>>
       \/ /\ call.op \in {"query", "remove"} /\ getBounds(root) # NULL
          /\ list' = IF intersects(getBounds(root), call.env) THEN <<root>> ELSE <<>>
          /\ pc' = call.op
          /\ UNCHANGED <<call, priQ, answer>>
       \/ /\ call.op = "all"
          /\ list' = <<root>> /\ pc' = call.op
          /\ UNCHANGED <<call, priQ, answer>>
       \/ /\ call.op = "nearestNeighbour" /\ getBounds(root) = NULL
          /\ Return(NULL) /\ UNCHANGED <<list, priQ>>
       \/ /\ call.op = "nearestNeighbour" /\ getBounds(root) # NULL
          /\ priQ' = {root} /\ pc' = call.op
          /\ UNCHANGED <<call, list, answer>>
    /\ UNCHANGED <<built, itemBoundables, nodes, root, removed, minPair>>

isMatch(b) == call.op = "all" \/ intersects(getBounds(b), call.env)

\* Those of bs that are in S, in their order.
only(bs, S) == FlattenSeq([i \in DOMAIN bs |-> IF bs[i] \in S THEN <<bs[i]>> ELSE <<>>])

matches(bs) == {b \in ToSet(bs) : isMatch(b)}

descend(bs) == FlattenSeq([i \in DOMAIN bs |-> only(children(bs[i]), matches(children(bs[i])))])

\* query, and itemsTree (operation "all"), down to the items.
query ==
    /\ pc \in {"query", "all"}
    /\ IF list = <<>> \/ isItem(list[1])
       THEN /\ Return([i \in DOMAIN list |-> list[i][2]])
            /\ list' = <<>>
       ELSE list' = descend(list) /\ UNCHANGED <<pc, call, answer>>
    /\ UNCHANGED <<built, itemBoundables, nodes, root, removed, priQ, minPair>>

\* The nodes that removing leaf n's last child takes away from their parents,
\* up the branch of n; the root stays.
prunedWith(n) ==
    LET gone[l \in Nat] ==
            IF l = 0 THEN {<<"node", n>>}
            ELSE gone[l - 1] \cup
                 {<<"node", m>> : m \in {k \in DOMAIN nodes :
                     nodes[k].children # <<>> /\ ToSet(nodes[k].children) \subseteq gone[l - 1]}}
    IN  gone[nodes[root[2]].level] \ {root}

\* The children of leaf b with the item of the call.
ofItem(b) == {i \in DOMAIN children(b) : getItem(children(b)[i]) = call.item}
holds(b)  == ofItem(b) # {}
lastOfItem(b) == CHOOSE i \in ofItem(b) : \A j \in ofItem(b) : j <= i

\* remove: the first leaf in the order of the search that holds the item loses
\* the last child with this item.
remove ==
    /\ pc = "remove"
    /\ LET holders == {i \in DOMAIN list : holds(list[i])}
           atLeaves == \A i \in DOMAIN list : nodes[list[i][2]].level = 0
       IN  \/ /\ ~atLeaves
              /\ list' = descend(list)
              /\ UNCHANGED <<nodes, removed, pc, call, answer>>
           \/ /\ atLeaves /\ holders = {}
              /\ Return(FALSE) /\ list' = <<>>
              /\ UNCHANGED <<nodes, removed>>
           \/ /\ atLeaves /\ holders # {}
              /\ LET leaf == list[CHOOSE i \in holders : \A j \in holders : i <= j]
                     at   == lastOfItem(leaf)
                     left == RemoveAt(children(leaf), at)
                     gone == IF left = <<>> THEN prunedWith(leaf[2]) ELSE {}
                 IN  /\ nodes' = [m \in DOMAIN nodes |-> [nodes[m] EXCEPT !.children =
                                     IF m = leaf[2] THEN left ELSE only(@, ToSet(@) \ gone)]]
                     /\ removed' = removed \cup {children(leaf)[at][2]}
              /\ Return(TRUE) /\ list' = <<>>
    /\ UNCHANGED <<built, itemBoundables, root, priQ, minPair>>

\* nearestNeighbour: a pair is a boundable and the argument of the call.
pairDistance(b) == distance2(getBounds(b), call.env)
distanceLowerBound == pairDistance(minPair)   \* infinite as long as there is no pair

expandToQueue(b) ==
    {c \in ToSet(children(b)) : minPair = NULL \/ pairDistance(c) < distanceLowerBound}

\* No pair from here on can be nearer than the best one.
beaten(b) == minPair # NULL /\ pairDistance(b) >= distanceLowerBound

nearestNeighbour ==
    /\ pc = "nearestNeighbour"
    /\ IF priQ = {} \/ (minPair # NULL /\ distanceLowerBound = 0)
       THEN /\ Return(IF minPair = NULL THEN NULL ELSE minPair[2])
            /\ priQ' = {} /\ minPair' = NULL
       ELSE \E b \in priQ :
              /\ \A c \in priQ : pairDistance(b) <= pairDistance(c)
              /\ \/ /\ beaten(b)
                    /\ Return(minPair[2]) /\ priQ' = {} /\ minPair' = NULL
                 \/ /\ ~beaten(b)
                    /\ IF isItem(b) THEN minPair' = b /\ priQ' = priQ \ {b}
                       ELSE /\ priQ' = (priQ \ {b}) \cup expandToQueue(b)
                            /\ UNCHANGED minPair
                    /\ UNCHANGED <<pc, call, answer>>
    /\ UNCHANGED <<built, itemBoundables, nodes, root, removed, list>>

\* iterate: the list of items, which removals leave alone.
iterate ==
    /\ pc = "idle"
    /\ answer' = <<"iterate", [k \in DOMAIN itemBoundables |-> k]>>
    /\ UNCHANGED <<built, itemBoundables, nodes, root, removed, pc, call, list, priQ, minPair>>

Step == build \/ createHigherLevels \/ start \/ query \/ remove \/ nearestNeighbour

Next ==
    \/ \E e \in Entries : insert(e)
    \/ \E env \in Searches, op \in {"query", "nearestNeighbour"} : begin(op, env, NULL)
    \/ \E e \in Entries : begin("remove", e.env, e.item)
    \/ begin("all", NULL, NULL)
    \/ iterate
    \/ Step

Spec == Init /\ [][Next]_vars

-----------------------------------------------------------------------------
\* The entries a client has put into the tree and not taken out.
stored == [k \in DOMAIN itemBoundables \ removed |-> itemBoundables[k]]
=============================================================================
