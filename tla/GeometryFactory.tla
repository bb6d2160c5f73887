-------------------------- MODULE GeometryFactory --------------------------
(***************************************************************************)
(* The life of one GeometryFactory: it is held by a unique_ptr whose end   *)
(* calls destroy(), and every Geometry built on it holds a reference from  *)
(* the constructor of its Geometry part to the destructor of that part.    *)
(* _refCount is a plain int, so ++ and -- are a load and a store, and the  *)
(* tests that decide on "delete this" come after them.                     *)
(*                                                                         *)
(* Threads obey the rules of the header: the factory is reached through    *)
(* its owner or through a live geometry, which nobody destroys meanwhile.  *)
(***************************************************************************)
EXTENDS Integers, FiniteSets
CONSTANTS Users,     \* threads of the client
          Geoms,     \* the Geometry objects that may exist at once
          Owner,     \* the unique_ptr
          NONE
ASSUME GeomsAssumption == IsFiniteSet(Geoms) /\ Owner \notin Geoms /\ NONE \notin Geoms \cup {Owner}

VARIABLES refCount, autoDestroy,
          freed,     \* the factory was deleted
          owned,     \* the unique_ptr still holds the factory
          geoms,     \* geometries whose Geometry part is constructed and not destroyed
          place,     \* the place of each thread
          cur,       \* the geometry it constructs or destroys
          via,       \* where it got the factory from
          reg        \* the count it has loaded
factoryVars == <<refCount, autoDestroy, freed, owned, geoms, place, cur, via, reg>>

Places == {"idle", "addLoad", "addStore", "construct", "dropLoad", "dropStore", "dropTest", "destroyTest"}

\* The types of the variables.
FactoryTypeOK ==
  /\ refCount \in Nat /\ autoDestroy \in BOOLEAN /\ freed \in BOOLEAN /\ owned \in BOOLEAN
  /\ geoms \subseteq Geoms
  /\ place \in [Users -> Places]
  /\ cur \in [Users -> Geoms \cup {NONE}]
  /\ via \in [Users -> Geoms \cup {Owner, NONE}]
  /\ reg \in [Users -> Nat]

\* GeometryFactory::create()
FactoryInit ==
  /\ refCount = 0 /\ autoDestroy = FALSE /\ freed = FALSE /\ owned = TRUE
  /\ geoms = {}
  /\ place = [t \in Users |-> "idle"]
  /\ cur = [t \in Users |-> NONE]
  /\ via = [t \in Users |-> NONE]
  /\ reg = [t \in Users |-> 0]

\* Geometries no thread constructs or destroys.
Live == geoms \ {cur[t] : t \in Users}

goto(t, l) == place' = [place EXCEPT ![t] = l]

----------------------------------------------------------------------------
(* Geometry::Geometry(factory), Geometry::Geometry(geom) and what follows. *)

\* A client creates or clones a geometry.
createGeometry(t) ==
  /\ place[t] = "idle"
  /\ \E g \in Geoms \ (geoms \cup {cur[u] : u \in Users}) : cur' = [cur EXCEPT ![t] = g]
  /\ \E f \in Live \cup (IF owned THEN {Owner} ELSE {}) : via' = [via EXCEPT ![t] = f]
  /\ goto(t, "addLoad")
  /\ UNCHANGED <<refCount, autoDestroy, freed, owned, geoms, reg>>

addLoad(t) ==
  /\ place[t] = "addLoad"
  /\ reg' = [reg EXCEPT ![t] = refCount]
  /\ goto(t, "addStore")
  /\ UNCHANGED <<refCount, autoDestroy, freed, owned, geoms, cur, via>>

addRef(t) ==
  /\ place[t] = "addStore"
  /\ refCount' = reg[t] + 1
  /\ geoms' = geoms \cup {cur[t]}
  /\ via' = [via EXCEPT ![t] = NONE]
  /\ goto(t, "construct")
  /\ UNCHANGED <<autoDestroy, freed, owned, cur, reg>>

\* The constructor of the derived class completes ...
constructed(t) ==
  /\ place[t] = "construct"
  /\ cur' = [cur EXCEPT ![t] = NONE]
  /\ goto(t, "idle")
  /\ UNCHANGED <<refCount, autoDestroy, freed, owned, geoms, via, reg>>

\* Mutant: the reference of a geometry that failed validation is not dropped.
constructorThrows_Leak(t) ==
  /\ place[t] = "construct"
  /\ cur' = [cur EXCEPT ![t] = NONE]
  /\ geoms' = geoms \ {cur[t]}
  /\ goto(t, "idle")
  /\ UNCHANGED <<refCount, autoDestroy, freed, owned, via, reg>>

\* ... or throws IllegalArgumentException, which destroys the Geometry part.
constructorThrows(t) ==
  /\ place[t] = "construct"
  /\ goto(t, "dropLoad")
  /\ UNCHANGED <<refCount, autoDestroy, freed, owned, geoms, cur, via, reg>>

----------------------------------------------------------------------------
(* Geometry::~Geometry *)

\* Nobody destroys the geometry another thread clones or takes the factory from.
destroyGeometry(t) ==
  /\ place[t] = "idle"
  /\ \E g \in Live \ {via[u] : u \in Users} : cur' = [cur EXCEPT ![t] = g]
  /\ goto(t, "dropLoad")
  /\ UNCHANGED <<refCount, autoDestroy, freed, owned, geoms, via, reg>>

dropLoad(t) ==
  /\ place[t] = "dropLoad"
  /\ reg' = [reg EXCEPT ![t] = refCount]
  /\ goto(t, "dropStore")
  /\ UNCHANGED <<refCount, autoDestroy, freed, owned, geoms, cur, via>>

dropRef(t) ==
  /\ place[t] = "dropStore"
  /\ refCount' = reg[t] - 1
  /\ geoms' = geoms \ {cur[t]}
  /\ cur' = [cur EXCEPT ![t] = NONE]
  /\ goto(t, IF reg[t] = 1 THEN "dropTest" ELSE "idle")
  /\ UNCHANGED <<autoDestroy, freed, owned, via, reg>>

\* Mutant: the factory dies with its last geometry even while it is owned.
dropTest_Always(t) ==
  /\ place[t] = "dropTest"
  /\ freed' = TRUE
  /\ goto(t, "idle")
  /\ UNCHANGED <<refCount, autoDestroy, owned, geoms, cur, via, reg>>

\* The last reference is gone: if ( _autoDestroy ) delete this.
dropTest(t) ==
  /\ place[t] = "dropTest"
  /\ freed' = (freed \/ autoDestroy)
  /\ goto(t, "idle")
  /\ UNCHANGED <<refCount, autoDestroy, owned, geoms, cur, via, reg>>

----------------------------------------------------------------------------
(* GeometryFactory::destroy(), called once by the unique_ptr. *)

destroy(t) ==
  /\ place[t] = "idle" /\ owned
  /\ \A u \in Users : via[u] # Owner
  /\ owned' = FALSE
  /\ autoDestroy' = TRUE
  /\ goto(t, "destroyTest")
  /\ UNCHANGED <<refCount, freed, geoms, cur, via, reg>>

\* Mutant: the factory is deleted at once.
destroyTest_Now(t) ==
  /\ place[t] = "destroyTest"
  /\ freed' = TRUE
  /\ goto(t, "idle")
  /\ UNCHANGED <<refCount, autoDestroy, owned, geoms, cur, via, reg>>

\* if ( ! _refCount ) delete this
destroyTest(t) ==
  /\ place[t] = "destroyTest"
  /\ freed' = (freed \/ refCount = 0)
  /\ goto(t, "idle")
  /\ UNCHANGED <<refCount, autoDestroy, owned, geoms, cur, via, reg>>

FactoryNext == \E t \in Users :
  \/ createGeometry(t) \/ addLoad(t) \/ addRef(t) \/ constructed(t) \/ constructorThrows(t)
  \/ destroyGeometry(t) \/ dropLoad(t) \/ dropRef(t) \/ dropTest(t)
  \/ destroy(t) \/ destroyTest(t)

FactorySpec == FactoryInit /\ [][FactoryNext]_factoryVars

----------------------------------------------------------------------------
(* Properties. *)

\* destroy(): "It will really be deleted only after last child Geometry is
\* deleted".
FactoryOutlivesGeometries == freed => geoms = {}

\* A deleted factory is out of reach: its owner has let it go and no thread is
\* inside one of its methods or about to delete it again.  Nor is it leaked: once
\* it is given up, the last geometry is gone and no thread is at work, it is deleted.
FreedWhenUnused ==
  /\ freed => ~owned /\ \A t \in Users : place[t] = "idle"
  /\ autoDestroy /\ geoms = {} /\ (\A t \in Users : place[t] = "idle") => freed
=============================================================================
