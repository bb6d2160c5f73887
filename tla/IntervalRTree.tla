---------------------------- MODULE IntervalRTree ---------------------------
(***************************************************************************)
(* index/intervalrtree: SortedPackedIntervalRTree.  The first query sorts  *)
(* the leaves and joins them two by two into a binary tree; a leaf without *)
(* partner goes up a level as it is.  A tree is a leaf [min, max, id] or a *)
(* branch [min, max, node1, node2].                                        *)
(***************************************************************************)
EXTENDS Envelopes, Sequences, SequencesExt, TLC

CONSTANTS Entries, Searches, MaxInserts, NULL

VARIABLES leaves,      \* what was inserted
          packed,      \* root: the tree, or NULL until the first query
          rPc,         \* idle, or the loop the running query is in
          rSearch,     \* the interval searched
          rList,       \* src of buildTree, or the nodes the query visits
          answer      \* what the last call returned

vars == <<leaves, packed, rPc, rSearch, rList, answer>>

Init == /\ leaves = <<>> /\ packed = NULL /\ rPc = "idle" /\ rSearch = NULL
        /\ rList = <<>> /\ answer = <<"none">>

isBranch(n) == "node1" \in DOMAIN n
leaf(k) == [min |-> leaves[k].env.minx, max |-> leaves[k].env.maxx, id |-> k]
branch(n, m) == [min |-> Least(n.min, m.min), max |-> Most(n.max, m.max), node1 |-> n, node2 |-> m]

meets(n) == ~(n.min > rSearch.maxx \/ n.max < rSearch.minx)

\* insert throws once there is a root.
insert(e) ==
    /\ rPc = "idle"
    /\ Len(leaves) < MaxInserts
    /\ IF packed # NULL THEN UNCHANGED <<leaves, answer>>
       ELSE leaves' = Append(leaves, e) /\ answer' = <<"none">>
    /\ UNCHANGED <<packed, rPc, rSearch, rList>>

\* query begins with init, which sorts the leaves by falling midpoint, equal
\* ones in any order.
begin(env) ==
    /\ rPc = "idle"
    /\ rSearch' = env
    /\ IF packed # NULL THEN rPc' = "query" /\ rList' = <<packed>>
       ELSE /\ rPc' = "buildTree"
            /\ rList' \in {s \in SetToSeqs({leaf(k) : k \in DOMAIN leaves}) :
                  \A i \in 1..(Len(s) - 1) : s[i].min + s[i].max >= s[i+1].min + s[i+1].max}
    /\ answer' = <<"none">>
    /\ UNCHANGED <<leaves, packed>>

\* buildLevel; the loop ends when one node is left.
buildLevel(src) ==
    [i \in 1..((Len(src) + 1) \div 2) |->
        IF 2 * i <= Len(src) THEN branch(src[2 * i - 1], src[2 * i]) ELSE src[2 * i - 1]]

buildTree ==
    /\ rPc = "buildTree"
    /\ LET dest == buildLevel(rList)
       IN  /\ rList' = dest
           /\ IF Len(dest) = 1 THEN packed' = dest[1] /\ rPc' = "query"
              ELSE UNCHANGED <<packed, rPc>>
    /\ UNCHANGED <<leaves, rSearch, answer>>

\* query of a branch and of a leaf, one step per level.
query ==
    /\ rPc = "query"
    /\ LET met == SelectSeq(rList, meets)
       IN  IF \A i \in DOMAIN met : ~isBranch(met[i])
           THEN /\ answer' = <<"query", rSearch, [i \in DOMAIN met |-> met[i].id]>>
                /\ rPc' = "idle" /\ rList' = <<>> /\ rSearch' = NULL
           ELSE /\ rList' = FlattenSeq([i \in DOMAIN met |->
                       IF isBranch(met[i]) THEN <<met[i].node1, met[i].node2>> ELSE <<met[i]>>])
                /\ UNCHANGED <<answer, rPc, rSearch>>
    /\ UNCHANGED <<leaves, packed>>

Step == buildTree \/ query
Next == \/ \E e \in Entries : insert(e)
        \/ \E env \in Searches : begin(env)
        \/ Step

stored == [k \in DOMAIN leaves |-> leaves[k]]
=============================================================================
