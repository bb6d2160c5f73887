---------------------------- MODULE SpatialIndex ----------------------------
(***************************************************************************)
(* What index::SpatialIndex promises its clients, for every index of the   *)
(* library: a collection of entries, each an opaque item with an envelope, *)
(* and operations that answer from it.  The same item may be stored        *)
(* several times; each insertion is an entry of its own.                   *)
(***************************************************************************)
EXTENDS Envelopes, Sequences, SequencesExt

CONSTANTS Entries,    \* entries: records [env, item]
          Id,         \* names of insertions
          NULL

VARIABLES stored,     \* the entries in the index, by the name of their insertion
          answer      \* the last call and what it returned, until the next call

vars == <<stored, answer>>

Init == stored = <<>> /\ answer = <<"none">>

\* "Adds a spatial item with an extent specified by the given Envelope."
insert ==
    /\ \E e \in Entries, k \in Id \ DOMAIN stored :
          stored' = [j \in DOMAIN stored \cup {k} |-> IF j = k THEN e ELSE stored[j]]
    /\ answer' = <<"none">>

\* A call begins that takes several steps.
begin == answer' = <<"none">> /\ UNCHANGED stored

Matching(env) == {k \in DOMAIN stored : intersects(stored[k].env, env)}

\* "Queries the index for all items whose extents intersect the given search
\* Envelope", each once; others may be returned too, but only stored ones.
query(env) ==
    /\ answer'[1] = "query" /\ answer'[2] = env
    /\ IsInjective(answer'[3])
    /\ Matching(env) \subseteq ToSet(answer'[3])
    /\ ToSet(answer'[3]) \subseteq DOMAIN stored
    /\ UNCHANGED stored

\* "Removes a single item from the tree", "true if the item was found".
remove(env, item) ==
    \/ /\ answer' = <<"remove", env, item, TRUE>>
       /\ \E k \in DOMAIN stored :
             /\ stored[k].item = item
             /\ stored' = [j \in DOMAIN stored \ {k} |-> stored[j]]
    \/ /\ answer' = <<"remove", env, item, FALSE>>
       /\ [env |-> env, item |-> item] \notin {stored[k] : k \in DOMAIN stored}
       /\ UNCHANGED stored

\* The entry nearest to env, or an exception when there is none.
nearestNeighbour(env) ==
    /\ \/ /\ stored = <<>>
          /\ answer' = <<"nearestNeighbour", env, NULL>>
       \/ \E k \in DOMAIN stored :
             /\ answer' = <<"nearestNeighbour", env, k>>
             /\ \A j \in DOMAIN stored :
                   distance2(stored[k].env, env) <= distance2(stored[j].env, env)
    /\ UNCHANGED stored

\* Everything in the index, once.
all ==
    /\ answer'[1] = "all"
    /\ IsInjective(answer'[2]) /\ ToSet(answer'[2]) = DOMAIN stored
    /\ UNCHANGED stored

\* What was ever added; the STR-tree goes on listing what was removed.
iterate ==
    /\ answer'[1] = "iterate"
    /\ IsInjective(answer'[2]) /\ DOMAIN stored \subseteq ToSet(answer'[2])
    /\ UNCHANGED stored

CONSTANT Searches     \* envelopes a client searches with

Next == \/ insert
        \/ begin
        \/ all
        \/ iterate
        \/ \E env \in Searches :
              \/ query(env)
              \/ nearestNeighbour(env)
        \/ \E e \in Entries : remove(e.env, e.item)

Spec == Init /\ [][Next]_vars
=============================================================================
