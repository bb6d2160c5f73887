----------------------------- MODULE CApiProofs -----------------------------
(***************************************************************************)
(* What a caller of the C interface may rely on, for any number of         *)
(* objects, handlers and calls: its pointers lead to live objects, nothing *)
(* it owns is lost, and a failure is told to the handler it set last.      *)
(***************************************************************************)
EXTENDS CApi, FiniteSetTheorems, TLAPS

-----------------------------------------------------------------------------
(* Objects and what they own.                                              *)

\* No object owns itself: every set of objects has one that none of the set owns.
Acyclic(h) == \A S \in SUBSET DOMAIN h : S # {} => \E x \in S : \A y \in S : x \notin h[y].parts

HeapSound(h) ==
    /\ IsFiniteSet(DOMAIN h) /\ DOMAIN h \subseteq Object
    /\ \A x \in DOMAIN h :
           h[x] = [kind |-> h[x].kind, size |-> h[x].size, parts |-> h[x].parts, refs |-> h[x].refs]
    /\ \A x \in DOMAIN h : h[x].parts \cup h[x].refs \subseteq DOMAIN h
    /\ \A x, y \in DOMAIN h : x # y => h[x].parts \cap h[y].parts = {}
    /\ \A x \in DOMAIN h : h[x].kind = "seq" => h[x].parts = {}
    /\ \A x \in DOMAIN h : \A y \in h[x].refs : h[y].kind \in Geometry
    /\ Acyclic(h)

\* The caller owns m, of which nothing else owns any, and borrows b.
Sound(h, m, b) ==
    /\ HeapSound(h)
    /\ m \cup b \subseteq DOMAIN h /\ m \cap b = {}
    /\ \A x \in DOMAIN h : h[x].parts \cap m = {}

LEMMA TreeIsClosed ==
    ASSUME NEW h, NEW S, \A x \in DOMAIN h : h[x].parts \subseteq DOMAIN h
    PROVE  /\ S \cap DOMAIN h \subseteq Tree(h, S) /\ Tree(h, S) \subseteq DOMAIN h
           /\ \A x \in Tree(h, S) : h[x].parts \subseteq Tree(h, S)
BY DEF Tree

LEMMA TreeIsLeast ==
    ASSUME NEW h, NEW S, NEW T \in SUBSET DOMAIN h,
           S \cap DOMAIN h \subseteq T, \A x \in T : h[x].parts \subseteq T
    PROVE  Tree(h, S) \subseteq T
BY DEF Tree

\* What is in a tree but not its root is part of something in it.
LEMMA TreeHasOwners ==
    ASSUME NEW h, NEW S, \A x \in DOMAIN h : h[x].parts \subseteq DOMAIN h, NEW x \in Tree(h, S), x \notin S
    PROVE  \E y \in Tree(h, S) : x \in h[y].parts
<1> SUFFICES ASSUME \A y \in Tree(h, S) : x \notin h[y].parts PROVE FALSE
  OBVIOUS
<1> DEFINE T == Tree(h, S) \ {x}
<1>1. T \in SUBSET DOMAIN h /\ S \cap DOMAIN h \subseteq T /\ \A y \in T : h[y].parts \subseteq T
  BY TreeIsClosed
<1>2. Tree(h, S) \subseteq T
  <2> HIDE DEF T
  <2> QED
    BY <1>1, TreeIsLeast
<1> QED
  BY <1>2

\* A heap that keeps its objects keeps what they own.
LEMMA GrowthKeepsTrees ==
    ASSUME NEW h, NEW S, NEW g, NEW R,
           \A x \in DOMAIN h : h[x].parts \subseteq DOMAIN h,
           \A x \in DOMAIN g : g[x].parts \subseteq DOMAIN g,
           DOMAIN h \subseteq DOMAIN g, \A x \in DOMAIN h : g[x].parts = h[x].parts,
           S \cap DOMAIN h \subseteq Tree(g, R)
    PROVE  Tree(h, S) \subseteq Tree(g, R)
<1> DEFINE T == Tree(g, R) \cap DOMAIN h
<1>1. T \in SUBSET DOMAIN h /\ S \cap DOMAIN h \subseteq T /\ \A x \in T : h[x].parts \subseteq T
  BY TreeIsClosed
<1>2. Tree(h, S) \subseteq T
  <2> HIDE DEF T
  <2> QED
    BY <1>1, TreeIsLeast
<1> QED
  BY <1>2

\* Nothing in the tree of an object owns that object.
LEMMA RootIsNoPart ==
    ASSUME NEW h, HeapSound(h), NEW o \in DOMAIN h
    PROVE  o \in Tree(h, {o}) /\ \A y \in Tree(h, {o}) : o \notin h[y].parts
<1>0. \A x \in DOMAIN h : h[x].parts \subseteq DOMAIN h
  BY DEF HeapSound
<1>1. o \in Tree(h, {o}) /\ Tree(h, {o}) \subseteq DOMAIN h
  BY <1>0, TreeIsClosed
<1>2. PICK x \in Tree(h, {o}) : \A y \in Tree(h, {o}) : x \notin h[y].parts
  BY <1>1 DEF HeapSound, Acyclic
<1>3. x = o
  BY <1>0, <1>2, TreeHasOwners
<1> QED
  BY <1>1, <1>2, <1>3

\* g, of which the caller owns n, is h, of which it owned m, and more.
Grows(h, m, b, g, n) == Sound(g, n, b) /\ DOMAIN h \subseteq DOMAIN g /\ Tree(h, m) \subseteq Tree(g, n)

Record(k, n, P, R) == [kind |-> k, size |-> n, parts |-> P, refs |-> R]

\* An object of kind k may be put at o, owning objects P of the caller and pointing to R.
Placeable(h, m, b, o, k, P, R) ==
    /\ Sound(h, m, b) /\ o \in Object \ DOMAIN h
    /\ P \subseteq m /\ (k = "seq" => P = {})
    /\ R \subseteq DOMAIN h /\ \A y \in R : h[y].kind \in Geometry

\* What the caller owns then.
Owns(m, P, o) == (m \ P) \cup {o}

LEMMA PuttingIsSound ==
    ASSUME NEW h, NEW m, NEW b, NEW o, NEW k, NEW n, NEW P, NEW R, Placeable(h, m, b, o, k, P, R)
    PROVE  LET g == Put(h, o, Record(k, n, P, R))
           IN  /\ Grows(h, m, b, g, Owns(m, P, o))
               /\ P = {} => Grows(h, m, b, g, m)
<1> DEFINE r == Record(k, n, P, R)
           g == Put(h, o, r)
<1> USE DEF Placeable
<1>1. DOMAIN g = DOMAIN h \cup {o} /\ g[o] = r /\ \A x \in DOMAIN h : g[x] = h[x]
  BY DEF Put
<1>2. r.parts = P /\ r.refs = R /\ r.kind = k /\ r.size = n
  BY DEF Record
<1> HIDE DEF r, g
<1>3. \A x \in DOMAIN h : h[x].parts \subseteq DOMAIN h /\ o \notin h[x].parts /\ h[x].parts \cap m = {}
  BY DEF Sound, HeapSound
<1>a. P \subseteq DOMAIN h /\ m \cup b \subseteq DOMAIN h
  BY DEF Sound
<1>4. HeapSound(g)
  <2>1. IsFiniteSet(DOMAIN g) /\ DOMAIN g \subseteq Object
    BY <1>1, FS_AddElement DEF Sound, HeapSound
  <2>2. \A x \in DOMAIN g :
           g[x] = [kind |-> g[x].kind, size |-> g[x].size, parts |-> g[x].parts, refs |-> g[x].refs]
    BY <1>1, <1>2 DEF Sound, HeapSound, r, Record
  <2>3. \A x \in DOMAIN g : g[x].parts \cup g[x].refs \subseteq DOMAIN g
    BY <1>1, <1>2, <1>a DEF Sound, HeapSound
  <2>4. \A x, y \in DOMAIN g : x # y => g[x].parts \cap g[y].parts = {}
    BY <1>1, <1>2, <1>3 DEF Sound, HeapSound
  <2>5. \A x \in DOMAIN g : g[x].kind = "seq" => g[x].parts = {}
    BY <1>1, <1>2 DEF Sound, HeapSound
  <2>6. \A x \in DOMAIN g : \A y \in g[x].refs : g[y].kind \in Geometry
    BY <1>1, <1>2 DEF Sound, HeapSound
  <2>7. Acyclic(g)
    <3> SUFFICES ASSUME NEW S \in SUBSET DOMAIN g, S # {}
                 PROVE  \E x \in S : \A y \in S : x \notin g[y].parts
      BY DEF Acyclic
    <3>1. CASE o \in S
      BY <1>1, <1>2, <1>3, <1>a, <3>1
    <3>2. CASE o \notin S
      <4>1. S \in SUBSET DOMAIN h
        BY <1>1, <3>2
      <4> QED
        BY <1>1, <4>1 DEF Sound, HeapSound, Acyclic
    <3> QED
      BY <3>1, <3>2
  <2> QED
    BY <2>1, <2>2, <2>3, <2>4, <2>5, <2>6, <2>7 DEF HeapSound
<1>5. Sound(g, (m \ P) \cup {o}, b) /\ Sound(g, m \ P, b)
  <2>1. \A x \in DOMAIN g : g[x].parts \cap ((m \ P) \cup {o}) = {}
    BY <1>1, <1>2, <1>3, <1>a
  <2>2. ((m \ P) \cup {o}) \cup b \subseteq DOMAIN g /\ ((m \ P) \cup {o}) \cap b = {}
    BY <1>1, <1>a DEF Sound
  <2> QED
    BY <1>4, <2>1, <2>2 DEF Sound
<1>6. \A x \in DOMAIN g : g[x].parts \subseteq DOMAIN g
  BY <1>4 DEF HeapSound
<1>7. Tree(h, m) \subseteq Tree(g, (m \ P) \cup {o})
  <2> DEFINE M == (m \ P) \cup {o}
  <2>1. M \cap DOMAIN g \subseteq Tree(g, M) /\ \A x \in Tree(g, M) : g[x].parts \subseteq Tree(g, M)
    BY <1>6, TreeIsClosed
  <2>2. m \cap DOMAIN h \subseteq Tree(g, M)
    BY <1>1, <1>2, <1>a, <2>1
  <2>3. \A x \in DOMAIN h : h[x].parts \subseteq DOMAIN h /\ g[x].parts = h[x].parts
    BY <1>1, <1>3
  <2> HIDE DEF M
  <2>4. Tree(h, m) \subseteq Tree(g, M)
    BY <1>1, <1>6, <2>2, <2>3, GrowthKeepsTrees
  <2> QED
    BY <2>4 DEF M
<1>8. ASSUME P = {} PROVE Tree(h, m) \subseteq Tree(g, m)
  <2> DEFINE T == Tree(g, m)
  <2>1. m \cap DOMAIN g \subseteq T
    BY <1>6, TreeIsClosed
  <2>2. m \cap DOMAIN h \subseteq T
    BY <1>1, <2>1
  <2> HIDE DEF T
  <2> QED
    BY <1>1, <1>3, <1>6, <2>2, GrowthKeepsTrees DEF T
<1>9. P = {} => m \ P = m
  OBVIOUS
<1> QED
  BY <1>1, <1>2, <1>5, <1>7, <1>8, <1>9 DEF g, r, Grows, Owns

\* The tree of an object the caller owns is deleted, if nothing else points into it.
LEMMA DroppingIsSound ==
    ASSUME NEW h, NEW m, NEW b, Sound(h, m, b), NEW o \in m,
           \A y \in DOMAIN h \ Tree(h, {o}) : h[y].refs \cap Tree(h, {o}) = {}
    PROVE  LET g == Drop(h, Tree(h, {o}))
           IN  /\ DOMAIN g = DOMAIN h \ Tree(h, {o})
               /\ Sound(g, m \ {o}, b \ Tree(h, {o}))
               /\ Tree(h, m) \cap DOMAIN g \subseteq Tree(g, m \ {o})
<1> DEFINE D == Tree(h, {o})
           g == Drop(h, D)
<1>0. \A x \in DOMAIN h : h[x].parts \subseteq DOMAIN h /\ h[x].parts \cap m = {}
  BY DEF Sound, HeapSound
<1>1. o \in D /\ D \subseteq DOMAIN h /\ \A x \in D : h[x].parts \subseteq D
  <2>1. o \in DOMAIN h
    BY DEF Sound
  <2> QED
    BY <1>0, <2>1, TreeIsClosed
<1>2. \A x \in D : x # o => \E y \in D : x \in h[y].parts
  BY <1>0, TreeHasOwners
<1> HIDE DEF D
<1>3. DOMAIN g = DOMAIN h \ D /\ \A x \in DOMAIN g : g[x] = h[x]
  BY DEF Drop
<1> HIDE DEF g
<1>4. \A x \in DOMAIN g : h[x].parts \cap D = {}
  <2> SUFFICES ASSUME NEW x \in DOMAIN g, NEW p \in h[x].parts \cap D PROVE FALSE
    OBVIOUS
  <2>1. p # o
    BY <1>0, <1>3
  <2>2. PICK y \in D : p \in h[y].parts
    BY <1>2, <2>1
  <2>3. y \in DOMAIN h /\ x \in DOMAIN h /\ x # y
    BY <1>1, <1>3, <2>2
  <2> QED
    BY <2>2, <2>3 DEF Sound, HeapSound
<1>5. \A x \in DOMAIN g : h[x].refs \cap D = {}
  BY <1>3 DEF D
<1>6. HeapSound(g)
  <2>1. IsFiniteSet(DOMAIN g) /\ DOMAIN g \subseteq Object
    BY <1>3, FS_Subset DEF Sound, HeapSound
  <2>2. \A x \in DOMAIN g :
           g[x] = [kind |-> g[x].kind, size |-> g[x].size, parts |-> g[x].parts, refs |-> g[x].refs]
    BY <1>3 DEF Sound, HeapSound
  <2>3. \A x \in DOMAIN g : g[x].parts \cup g[x].refs \subseteq DOMAIN g
    BY <1>3, <1>4, <1>5 DEF Sound, HeapSound
  <2>4. \A x, y \in DOMAIN g : x # y => g[x].parts \cap g[y].parts = {}
    BY <1>3 DEF Sound, HeapSound
  <2>5. \A x \in DOMAIN g : g[x].kind = "seq" => g[x].parts = {}
    BY <1>3 DEF Sound, HeapSound
  <2>6. \A x \in DOMAIN g : \A y \in g[x].refs : g[y].kind \in Geometry
    BY <1>3, <2>3 DEF Sound, HeapSound
  <2>7. Acyclic(g)
    BY <1>3 DEF Sound, HeapSound, Acyclic
  <2> QED
    BY <2>1, <2>2, <2>3, <2>4, <2>5, <2>6, <2>7 DEF HeapSound
<1>7. Sound(g, m \ {o}, b \ D)
  <2>1. \A x \in m : x \in D => x = o
    BY <1>0, <1>1, <1>2
  <2> QED
    BY <1>3, <1>6, <2>1 DEF Sound
<1>8. Tree(h, m) \cap DOMAIN g \subseteq Tree(g, m \ {o})
  <2> DEFINE T == Tree(g, m \ {o})
  <2>1. (m \ {o}) \cap DOMAIN g \subseteq T /\ T \subseteq DOMAIN g /\ \A x \in T : g[x].parts \subseteq T
    BY <1>6, TreeIsClosed DEF HeapSound
  <2> HIDE DEF T
  <2>2. T \cup D \in SUBSET DOMAIN h /\ m \cap DOMAIN h \subseteq T \cup D
    BY <1>1, <1>3, <2>1
  <2>3. \A x \in T \cup D : h[x].parts \subseteq T \cup D
    BY <1>1, <1>3, <2>1
  <2>4. Tree(h, m) \subseteq T \cup D
    BY <2>2, <2>3, TreeIsLeast
  <2> QED
    BY <1>3, <2>4 DEF T
<1> QED
  BY <1>3, <1>7, <1>8 DEF g, D

\* There is a way to give each object of a finite set an address of its own.
LEMMA AddressesExist ==
    ASSUME NEW T, IsFiniteSet(T), NEW n \in Nat, Cardinality(T) <= n, NEW F, NEW at \in Injection(1..n, F),
           NEW A, \A i \in 1..Cardinality(T) : at[i] \in A
    PROVE  Injection(T, A) # {}
<1> DEFINE c == Cardinality(T)
<1>1. c \in Nat /\ ExistsBijection(1..c, T)
  BY FS_CardinalityType
<1>2. PICK f \in Bijection(1..c, T) : TRUE
  BY <1>1 DEF ExistsBijection
<1> HIDE DEF c
<1>3. f \in [1..c -> T] /\ \A x \in T : \E i \in 1..c : f[i] = x
  BY <1>2 DEF Bijection, Surjection, Injection
<1> DEFINE idx(x) == CHOOSE i \in 1..c : f[i] = x
           new == [x \in T |-> at[idx(x)]]
<1>4. \A x \in T : idx(x) \in 1..c /\ f[idx(x)] = x
  BY <1>3
<1>5. \A i, j \in 1..c : at[i] = at[j] => i = j
  BY <1>1 DEF Injection, IsInjective, c
<1> HIDE DEF idx
<1>6. new \in [T -> A]
  BY <1>4 DEF c
<1>7. \A x, y \in T : new[x] = new[y] => x = y
  BY <1>4, <1>5
<1>8. new \in Injection(T, A)
  BY <1>6, <1>7 DEF Injection, IsInjective
<1> QED
  BY <1>8 DEF c

\* g is h with the tree T copied along new.
IsCopy(h, T, new, g) ==
    /\ new \in Injection(T, Object \ DOMAIN h)
    /\ DOMAIN g = DOMAIN h \cup {new[x] : x \in T}
    /\ \A x \in DOMAIN h : g[x] = h[x]
    /\ \A x \in T : g[new[x]] = [kind |-> h[x].kind, size |-> h[x].size,
                                  parts |-> {new[p] : p \in h[x].parts}, refs |-> h[x].refs]

\* A copy of a tree at addresses nobody uses, owned by the caller.
LEMMA CopyIsSound ==
    ASSUME NEW h, NEW m, NEW b, Sound(h, m, b), NEW o \in DOMAIN h, NEW T, T = Tree(h, {o}),
           NEW new, NEW g, IsCopy(h, T, new, g)
    PROVE  /\ Sound(g, m \cup {new[o]}, b)
           /\ Tree(h, m) \subseteq Tree(g, m \cup {new[o]})
<1>0. \A x \in DOMAIN h : h[x].parts \subseteq DOMAIN h /\ h[x].parts \cap m = {}
  BY DEF Sound, HeapSound
<1>1. T \subseteq DOMAIN h /\ \A x \in T : h[x].parts \subseteq T
  BY <1>0, TreeIsClosed
<1>2. o \in T /\ \A y \in T : o \notin h[y].parts
  BY RootIsNoPart DEF Sound
<1> DEFINE img == {new[x] : x \in T}
<1>3. \A x \in T : new[x] \in Object /\ new[x] \notin DOMAIN h /\ new[x] \in img
  BY DEF IsCopy, Injection
<1>4. \A x, y \in T : new[x] = new[y] => x = y
  BY DEF IsCopy, Injection, IsInjective
<1>a. \A y \in img : \E x \in T : y = new[x]
  OBVIOUS
<1>b. DOMAIN g = DOMAIN h \cup img /\ \A x \in DOMAIN h : g[x] = h[x]
  BY DEF IsCopy
<1>c. new \in Surjection(T, img)
  BY DEF IsCopy, Injection, Surjection
<1>5. ASSUME NEW x \in T
      PROVE  /\ g[new[x]].kind = h[x].kind /\ g[new[x]].refs = h[x].refs
             /\ \A q \in g[new[x]].parts : \E p \in h[x].parts : q = new[p]
             /\ g[new[x]] = [kind |-> g[new[x]].kind, size |-> g[new[x]].size,
                             parts |-> g[new[x]].parts, refs |-> g[new[x]].refs]
  <2> DEFINE P == {new[p] : p \in h[x].parts}
  <2>1. g[new[x]] = [kind |-> h[x].kind, size |-> h[x].size, parts |-> P, refs |-> h[x].refs]
    BY DEF IsCopy
  <2>2. \A q \in P : \E p \in h[x].parts : q = new[p]
    OBVIOUS
  <2> HIDE DEF P
  <2> QED
    BY <2>1, <2>2
<1> HIDE DEF img
<1>e. \A x \in T : g[new[x]].kind = h[x].kind /\ g[new[x]].refs = h[x].refs
  BY <1>5
<1>f. \A x \in T : \A q \in g[new[x]].parts : \E p \in h[x].parts : q = new[p]
  BY <1>5
<1>6. \A x \in DOMAIN g : x \in DOMAIN h \/ \E y \in T : x = new[y]
  BY <1>a, <1>b
<1>7. \A x \in T : g[new[x]].parts \subseteq img
  <2> SUFFICES ASSUME NEW x \in T, NEW q \in g[new[x]].parts PROVE q \in img
    OBVIOUS
  <2>1. PICK p \in h[x].parts : q = new[p]
    BY <1>f
  <2> QED
    BY <1>1, <1>3, <2>1
<1>8. \A x \in T, p \in T : new[p] \in g[new[x]].parts => p \in h[x].parts
  <2> SUFFICES ASSUME NEW x \in T, NEW p \in T, new[p] \in g[new[x]].parts PROVE p \in h[x].parts
    OBVIOUS
  <2>1. PICK q \in h[x].parts : new[p] = new[q]
    BY <1>f
  <2> QED
    BY <1>1, <1>4, <2>1
<1>d. img \cap DOMAIN h = {}
  BY <1>a, <1>3
<1>9. HeapSound(g)
  <2>1. IsFiniteSet(DOMAIN g) /\ DOMAIN g \subseteq Object
    <3>1. IsFiniteSet(DOMAIN h) /\ IsFiniteSet(T)
      BY <1>1, FS_Subset DEF Sound, HeapSound
    <3>2. IsFiniteSet(img)
      BY <1>c, <3>1, FS_Surjection
    <3>3. img \subseteq Object
      BY <1>a, <1>3
    <3>4. IsFiniteSet(DOMAIN h \cup img)
      BY <3>1, <3>2, FS_Union
    <3> QED
      BY <1>b, <3>3, <3>4 DEF Sound, HeapSound
  <2>2. \A x \in DOMAIN g :
           g[x] = [kind |-> g[x].kind, size |-> g[x].size, parts |-> g[x].parts, refs |-> g[x].refs]
    <3>1. \A x \in DOMAIN h :
             g[x] = [kind |-> g[x].kind, size |-> g[x].size, parts |-> g[x].parts, refs |-> g[x].refs]
      BY <1>b DEF Sound, HeapSound
    <3>2. \A x \in T : g[new[x]] = [kind |-> g[new[x]].kind, size |-> g[new[x]].size,
                                     parts |-> g[new[x]].parts, refs |-> g[new[x]].refs]
      BY <1>5
    <3>3. ASSUME NEW x \in DOMAIN g
          PROVE  g[x] = [kind |-> g[x].kind, size |-> g[x].size, parts |-> g[x].parts, refs |-> g[x].refs]
      <4>1. CASE x \in DOMAIN h
        BY <3>1, <4>1
      <4>2. ASSUME NEW y \in T, x = new[y]
            PROVE  g[x] = [kind |-> g[x].kind, size |-> g[x].size, parts |-> g[x].parts, refs |-> g[x].refs]
        BY <3>2, <4>2
      <4> QED
        BY <1>6, <4>1, <4>2
    <3> QED
      BY <3>3
  <2>3. \A x \in DOMAIN g : g[x].parts \cup g[x].refs \subseteq DOMAIN g
    <3>1. \A x \in DOMAIN h : g[x].parts \cup g[x].refs \subseteq DOMAIN g
      BY <1>b DEF Sound, HeapSound
    <3>2. \A x \in T : g[new[x]].parts \cup g[new[x]].refs \subseteq DOMAIN g
      <4>1. \A x \in T : h[x].refs \subseteq DOMAIN h
        BY <1>1 DEF Sound, HeapSound
      <4> QED
        BY <1>7, <1>b, <1>e, <4>1
    <3> QED
      BY <1>6, <3>1, <3>2
  <2>4. \A x, y \in DOMAIN g : x # y => g[x].parts \cap g[y].parts = {}
    <3>1. \A x, y \in DOMAIN h : x # y => g[x].parts \cap g[y].parts = {}
      BY <1>b DEF Sound, HeapSound
    <3>2. \A x \in DOMAIN h, y \in T : g[x].parts \cap g[new[y]].parts = {}
      BY <1>0, <1>b, <1>d, <1>7
    <3>3. ASSUME NEW x \in T, NEW y \in T, x # y PROVE g[new[x]].parts \cap g[new[y]].parts = {}
      <4> SUFFICES ASSUME NEW z \in g[new[x]].parts \cap g[new[y]].parts PROVE FALSE
        OBVIOUS
      <4>1. PICK p \in T : z = new[p]
        BY <1>7, <1>a
      <4>2. p \in h[x].parts /\ p \in h[y].parts
        BY <1>8, <4>1
      <4> QED
        BY <1>1, <3>3, <4>2 DEF Sound, HeapSound
    <3>4. ASSUME NEW x \in DOMAIN g, NEW y \in DOMAIN g, x # y PROVE g[x].parts \cap g[y].parts = {}
      <4>1. CASE x \in DOMAIN h /\ y \in DOMAIN h
        BY <3>1, <3>4, <4>1
      <4>2. ASSUME NEW u \in T, NEW v \in T, x = new[u], y = new[v] PROVE g[x].parts \cap g[y].parts = {}
        BY <3>3, <3>4, <4>2
      <4>3. ASSUME x \in DOMAIN h, NEW v \in T, y = new[v] PROVE g[x].parts \cap g[y].parts = {}
        BY <3>2, <4>3
      <4>4. ASSUME y \in DOMAIN h, NEW u \in T, x = new[u] PROVE g[x].parts \cap g[y].parts = {}
        BY <3>2, <4>4
      <4> QED
        BY <1>6, <4>1, <4>2, <4>3, <4>4
    <3> QED
      BY <3>4
  <2>5. \A x \in DOMAIN g : g[x].kind = "seq" => g[x].parts = {}
    <3>1. \A x \in DOMAIN h : g[x].kind = "seq" => g[x].parts = {}
      BY <1>b DEF Sound, HeapSound
    <3>2. \A x \in T : g[new[x]].kind = "seq" => g[new[x]].parts = {}
      <4> SUFFICES ASSUME NEW x \in T, g[new[x]].kind = "seq", NEW q \in g[new[x]].parts PROVE FALSE
        OBVIOUS
      <4>1. h[x].parts = {}
        BY <1>1, <1>e DEF Sound, HeapSound
      <4> QED
        BY <1>f, <4>1
    <3> QED
      BY <1>6, <3>1, <3>2
  <2>6. \A x \in DOMAIN g : \A y \in g[x].refs : g[y].kind \in Geometry
    <3>1. \A x \in DOMAIN h : \A y \in h[x].refs : y \in DOMAIN h /\ h[y].kind \in Geometry
      BY <1>b DEF Sound, HeapSound
    <3>2. \A x \in T : \A y \in g[new[x]].refs : g[y].kind \in Geometry
      <4> SUFFICES ASSUME NEW x \in T, NEW y \in g[new[x]].refs PROVE g[y].kind \in Geometry
        OBVIOUS
      <4>1. y \in h[x].refs /\ x \in DOMAIN h
        BY <1>1, <1>e
      <4> QED
        BY <1>b, <3>1, <4>1
    <3>3. ASSUME NEW x \in DOMAIN g, NEW y \in g[x].refs PROVE g[y].kind \in Geometry
      <4>1. CASE x \in DOMAIN h
        BY <1>b, <3>1, <4>1
      <4>2. ASSUME NEW z \in T, x = new[z] PROVE g[y].kind \in Geometry
        BY <3>2, <4>2
      <4> QED
        BY <1>6, <4>1, <4>2
    <3> QED
      BY <3>3
  <2>7. Acyclic(g)
    <3> SUFFICES ASSUME NEW S \in SUBSET DOMAIN g, S # {}
                 PROVE  \E x \in S : \A y \in S : x \notin g[y].parts
      BY DEF Acyclic
    <3>1. CASE S \cap DOMAIN h # {}
      <4>1. PICK x \in S \cap DOMAIN h : \A y \in S \cap DOMAIN h : x \notin h[y].parts
        BY <3>1 DEF Sound, HeapSound, Acyclic
      <4>2. \A y \in T : x \notin g[new[y]].parts
        BY <1>d, <1>7
      <4>3. \A y \in S : x \notin g[y].parts
        BY <1>6, <1>b, <4>1, <4>2
      <4> QED
        BY <4>3
    <3>2. CASE S \cap DOMAIN h = {}
      <4> DEFINE S0 == {x \in T : new[x] \in S}
      <4>0. PICK z \in S : z \notin DOMAIN h
        BY <3>2
      <4>1. S0 \in SUBSET DOMAIN h /\ S0 # {}
        <5>1. PICK y \in T : z = new[y]
          BY <1>6, <4>0
        <5> QED
          BY <1>1, <5>1
      <4>2. PICK x \in S0 : \A y \in S0 : x \notin h[y].parts
        BY <4>1 DEF Sound, HeapSound, Acyclic
      <4>3. \A y \in T : new[y] \in S => new[x] \notin g[new[y]].parts
        BY <1>8, <4>2
      <4>4. \A y \in S : new[x] \notin g[y].parts
        <5> SUFFICES ASSUME NEW y \in S PROVE new[x] \notin g[y].parts
          OBVIOUS
        <5>1. PICK w \in T : y = new[w]
          BY <1>6, <3>2
        <5> QED
          BY <4>3, <5>1
      <4> QED
        BY <4>2, <4>4
    <3> QED
      BY <3>1, <3>2
  <2> QED
    BY <2>1, <2>2, <2>3, <2>4, <2>5, <2>6, <2>7 DEF HeapSound
<1>10. Sound(g, m \cup {new[o]}, b)
  <2>1. \A x \in T : new[o] \notin g[new[x]].parts
    BY <1>2, <1>8
  <2>2. \A x \in DOMAIN h : g[x].parts \cap (m \cup {new[o]}) = {}
    BY <1>0, <1>2, <1>3, <1>b
  <2>3. m \cup b \subseteq DOMAIN h /\ m \cap b = {}
    BY DEF Sound
  <2>4. \A x \in T : g[new[x]].parts \cap m = {}
    BY <1>d, <1>7, <2>3
  <2>5. \A x \in DOMAIN g : g[x].parts \cap (m \cup {new[o]}) = {}
    <3> SUFFICES ASSUME NEW x \in DOMAIN g PROVE g[x].parts \cap (m \cup {new[o]}) = {}
      OBVIOUS
    <3>1. CASE x \in DOMAIN h
      BY <2>2, <3>1
    <3>2. ASSUME NEW y \in T, x = new[y] PROVE g[x].parts \cap (m \cup {new[o]}) = {}
      BY <2>1, <2>4, <3>2
    <3> QED
      BY <1>6, <3>1, <3>2
  <2>6. (m \cup {new[o]}) \cup b \subseteq DOMAIN g /\ (m \cup {new[o]}) \cap b = {}
    BY <1>2, <1>3, <1>b, <2>3
  <2> QED
    BY <1>9, <2>5, <2>6 DEF Sound
<1>11. Tree(h, m) \subseteq Tree(g, m \cup {new[o]})
  <2> DEFINE M == m \cup {new[o]}
  <2>1. M \cap DOMAIN g \subseteq Tree(g, M) /\ \A x \in DOMAIN g : g[x].parts \subseteq DOMAIN g
    BY <1>9, TreeIsClosed DEF HeapSound
  <2>2. m \cap DOMAIN h \subseteq Tree(g, M)
    BY <1>b, <2>1
  <2>3. DOMAIN h \subseteq DOMAIN g /\ \A x \in DOMAIN h : g[x].parts = h[x].parts
    BY <1>b
  <2> HIDE DEF M
  <2>4. Tree(h, m) \subseteq Tree(g, M)
    BY <1>0, <2>1, <2>2, <2>3, GrowthKeepsTrees
  <2> QED
    BY <2>4 DEF M
<1> QED
  BY <1>10, <1>11

\* The addresses of a call are as many as it asks for and lead nowhere.
LEMMA FreshAddresses ==
    ASSUME NEW h, NEW kept, NEW n \in Nat, NEW at, at = Fresh(h, kept, n), at # <<>>
    PROVE  at \in Injection(1..n, Object \ DOMAIN h)
<1> DEFINE used == kept \cup UNION {{x} \cup h[x].parts \cup h[x].refs : x \in DOMAIN h}
<1>1. at \in Injection(1..n, Object \ used)
  BY DEF Fresh
<1>2. DOMAIN h \subseteq used
  OBVIOUS
<1> HIDE DEF used
<1> QED
  BY <1>1, <1>2 DEF Injection

\* Copied follows new, which takes the first addresses of at.
CopyAt(h, o, T, at, new) ==
    /\ IsCopy(h, T, new, Copied(h, o, at).heap) /\ Copied(h, o, at).ret = new[o]
    /\ \A x \in T : \E i \in 1..Cardinality(T) : new[x] = at[i]

\* What clone() makes is a copy, at the first of the addresses.
LEMMA CopiedIsCopy ==
    ASSUME NEW h, HeapSound(h), NEW o \in DOMAIN h, NEW T, T = Tree(h, {o}),
           NEW n \in Nat, Cardinality(T) <= n, NEW at \in Injection(1..n, Object \ DOMAIN h)
    PROVE  /\ Cardinality(T) \in Nat
           /\ \E w : CopyAt(h, o, T, at, w)
<1> DEFINE c == Cardinality(T)
           A == {at[i] : i \in 1..c}
           new == CHOOSE f \in Injection(T, A) : TRUE
           orig(y) == CHOOSE x \in T : new[x] = y
           img == {new[x] : x \in T}
           g == Copied(h, o, at).heap
<1>0. \A x \in DOMAIN h : h[x].parts \subseteq DOMAIN h
  BY DEF HeapSound
<1>1. T \subseteq DOMAIN h /\ o \in T
  BY <1>0, RootIsNoPart, TreeIsClosed
<1>2. IsFiniteSet(T)
  BY <1>1, FS_Subset DEF HeapSound
<1>3. Cardinality(T) \in Nat
  BY <1>2, FS_CardinalityType
<1>4. Injection(T, A) # {}
  <2>1. \A i \in 1..Cardinality(T) : at[i] \in A
    OBVIOUS
  <2> HIDE DEF A
  <2> QED
    BY <1>2, <2>1, AddressesExist
<1>5. new \in Injection(T, A)
  BY <1>4
<1>6. \A y : orig(y) = CHOOSE x \in T : new[x] = y
  OBVIOUS
<1>7. g = [y \in DOMAIN h \cup img |->
             IF y \in img THEN [h[orig(y)] EXCEPT !.parts = {new[x] : x \in h[orig(y)].parts}] ELSE h[y]]
  BY DEF Copied
<1>8. Copied(h, o, at).ret = new[o]
  BY DEF Copied
<1>9. \A a \in A : \E i \in 1..c : a = at[i]
  OBVIOUS
<1>10. \A i \in 1..c : at[i] \in Object \ DOMAIN h
  BY <1>3 DEF Injection
<1> HIDE DEF A, g, new, orig, c
<1>11. A \subseteq Object \ DOMAIN h
  BY <1>9, <1>10
<1>12. \A x \in T : new[x] \in A /\ orig(new[x]) = x /\ new[x] \in img
  BY <1>5, <1>6 DEF Injection, IsInjective
<1>13. new \in Injection(T, Object \ DOMAIN h)
  BY <1>5, <1>11 DEF Injection
<1>14. \A y \in img : \E x \in T : y = new[x]
  OBVIOUS
<1> HIDE DEF img
<1>15. DOMAIN g = DOMAIN h \cup img /\ \A x \in DOMAIN h : x \notin img
  BY <1>7, <1>11, <1>12, <1>14
<1>16. \A x \in DOMAIN h : g[x] = h[x]
  BY <1>7, <1>15
<1>17. ASSUME NEW x \in T
       PROVE  g[new[x]] = [kind |-> h[x].kind, size |-> h[x].size,
                           parts |-> {new[p] : p \in h[x].parts}, refs |-> h[x].refs]
  <2>1. g[new[x]] = [h[x] EXCEPT !.parts = {new[p] : p \in h[x].parts}]
    BY <1>7, <1>12
  <2>2. h[x] = [kind |-> h[x].kind, size |-> h[x].size, parts |-> h[x].parts, refs |-> h[x].refs]
    BY <1>1 DEF HeapSound
  <2> DEFINE P == {new[p] : p \in h[x].parts}
  <2> HIDE DEF P
  <2>3. [h[x] EXCEPT !.parts = P] = [kind |-> h[x].kind, size |-> h[x].size, parts |-> P, refs |-> h[x].refs]
    BY <2>2
  <2> QED
    BY <2>1, <2>3 DEF P
<1>18. IsCopy(h, T, new, g)
  BY <1>13, <1>15, <1>16, <1>17 DEF IsCopy, img
<1>19. \A x \in T : \E i \in 1..c : new[x] = at[i]
  BY <1>9, <1>12
<1> QED
  <2>1. IsCopy(h, T, new, Copied(h, o, at).heap)
    BY <1>18 DEF g
  <2>2. \A x \in T : \E i \in 1..Cardinality(T) : new[x] = at[i]
    BY <1>19 DEF c
  <2>3. CopyAt(h, o, T, at, new)
    BY <1>8, <2>1, <2>2 DEF CopyAt
  <2> QED
    BY <1>3, <2>3 DEF c

\* A sequence owns nothing and nothing points to it but its owner.
LEMMA SequencesStandAlone ==
    ASSUME NEW h, HeapSound(h), NEW s \in DOMAIN h, h[s].kind = "seq"
    PROVE  Tree(h, {s}) = {s} /\ \A y \in DOMAIN h : s \notin h[y].refs
<1>1. h[s].parts = {} /\ \A x \in DOMAIN h : h[x].parts \subseteq DOMAIN h
  BY DEF HeapSound
<1>2. Tree(h, {s}) \subseteq {s}
  <2> DEFINE T == {s}
  <2>1. T \in SUBSET DOMAIN h /\ {s} \cap DOMAIN h \subseteq T /\ \A x \in T : h[x].parts \subseteq T
    BY <1>1
  <2> HIDE DEF T
  <2>2. Tree(h, {s}) \subseteq T
    BY <2>1, TreeIsLeast
  <2> QED
    BY <2>2 DEF T
<1>3. s \in Tree(h, {s})
  BY RootIsNoPart
<1> QED
  BY <1>2, <1>3 DEF HeapSound, Geometry, Single, Multi

\* An object may come to point to a geometry.
LEMMA ReferringIsSound ==
    ASSUME NEW h, NEW m, NEW b, Sound(h, m, b), NEW x \in DOMAIN h,
           NEW g \in DOMAIN h, h[g].kind \in Geometry
    PROVE  LET k == [h EXCEPT ![x].refs = @ \cup {g}]
           IN  DOMAIN k = DOMAIN h /\ Sound(k, m, b) /\ Tree(h, m) \subseteq Tree(k, m)
<1> DEFINE k == [h EXCEPT ![x].refs = @ \cup {g}]
<1>0. h[x] = [kind |-> h[x].kind, size |-> h[x].size, parts |-> h[x].parts, refs |-> h[x].refs]
  BY DEF Sound, HeapSound
<1>1. /\ DOMAIN k = DOMAIN h
      /\ k[x] = [kind |-> h[x].kind, size |-> h[x].size, parts |-> h[x].parts, refs |-> h[x].refs \cup {g}]
      /\ \A y \in DOMAIN h : y # x => k[y] = h[y]
  BY <1>0
<1> HIDE DEF k
<1>2. \A y \in DOMAIN h : k[y].kind = h[y].kind /\ k[y].parts = h[y].parts
  BY <1>1
<1>3. k[x].refs = h[x].refs \cup {g}
  BY <1>1
<1>4. HeapSound(k)
  <2>1. IsFiniteSet(DOMAIN k) /\ DOMAIN k \subseteq Object
    BY <1>1 DEF Sound, HeapSound
  <2>2. \A y \in DOMAIN k :
           k[y] = [kind |-> k[y].kind, size |-> k[y].size, parts |-> k[y].parts, refs |-> k[y].refs]
    BY <1>1 DEF Sound, HeapSound
  <2>3. \A y \in DOMAIN k : k[y].parts \cup k[y].refs \subseteq DOMAIN k
    BY <1>1, <1>2, <1>3 DEF Sound, HeapSound
  <2>4. \A y, z \in DOMAIN k : y # z => k[y].parts \cap k[z].parts = {}
    BY <1>1, <1>2 DEF Sound, HeapSound
  <2>5. \A y \in DOMAIN k : k[y].kind = "seq" => k[y].parts = {}
    BY <1>1, <1>2 DEF Sound, HeapSound
  <2>6. \A y \in DOMAIN k : \A z \in k[y].refs : k[z].kind \in Geometry
    <3>1. \A z \in k[x].refs : k[z].kind \in Geometry
      BY <1>2, <1>3 DEF Sound, HeapSound
    <3>2. \A y \in DOMAIN h : y # x => \A z \in k[y].refs : k[z].kind \in Geometry
      BY <1>1, <1>2 DEF Sound, HeapSound
    <3> QED
      BY <1>1, <3>1, <3>2
  <2>7. Acyclic(k)
    <3>1. Acyclic(h)
      BY DEF Sound, HeapSound
    <3>2. DOMAIN k = DOMAIN h /\ \A y \in DOMAIN h : k[y].parts = h[y].parts
      BY <1>1, <1>2
    <3> QED
      BY <3>1, <3>2 DEF Acyclic
  <2> QED
    BY <2>1, <2>2, <2>3, <2>4, <2>5, <2>6, <2>7 DEF HeapSound
<1>5. Sound(k, m, b)
  BY <1>1, <1>2, <1>4 DEF Sound
<1>6. Tree(h, m) \subseteq Tree(k, m)
  <2> DEFINE T == Tree(k, m)
  <2>1. \A y \in DOMAIN k : k[y].parts \subseteq DOMAIN k
    BY <1>4 DEF HeapSound
  <2>2. m \cap DOMAIN k \subseteq T
    BY <2>1, TreeIsClosed
  <2> HIDE DEF T
  <2>3. m \cap DOMAIN h \subseteq T
    BY <1>1, <2>2
  <2> QED
    BY <1>1, <1>2, <2>1, <2>3, GrowthKeepsTrees DEF T
<1> QED
  BY <1>1, <1>5, <1>6 DEF k

-----------------------------------------------------------------------------
(* The calls.                                                              *)

NotTwice == PointArguments \subseteq {1} => twice = FALSE

ApiInv == Sound(heap, mine, borrowed) /\ NothingOwnedIsLost /\ NotTwice

\* The heap h, of which the caller owns os, keeps what it owned.
Keeps(h, os) == Sound(h, os, borrowed) /\ Tree(heap, mine) \cap DOMAIN h \subseteq Tree(h, os)

LEMMA ObjectsKeepTrees ==
    ASSUME ApiInv, NEW h, NEW os, Keeps(h, os), Objects(h, os), NotTwice'
    PROVE  ApiInv'
<1>1. os \subseteq DOMAIN h /\ \A x \in DOMAIN h : h[x].parts \subseteq DOMAIN h
  BY DEF Keeps, Sound, HeapSound
<1>2. os \subseteq Tree(h, os)
  BY <1>1, TreeIsClosed
<1>3. (known \cup os) \cap DOMAIN h \subseteq Tree(h, os)
  BY <1>2 DEF ApiInv, NothingOwnedIsLost, Keeps
<1> QED
  BY <1>3 DEF ApiInv, NothingOwnedIsLost, Objects, Keeps

LEMMA ObjectsKeepInv ==
    ASSUME ApiInv, NEW h, NEW os, Keeps(h, os), Objects(h, os), UNCHANGED twice
    PROVE  ApiInv'
<1>1. NotTwice'
  BY DEF ApiInv, NotTwice
<1> QED
  BY <1>1, ObjectsKeepTrees

LEMMA AnswerKeepsInv == ASSUME ApiInv, NEW o, Answer(o) PROVE ApiInv'
  BY DEF ApiInv, NothingOwnedIsLost, NotTwice, Answer

LEMMA QueryKeepsInv == ASSUME ApiInv, NEW args, Query(args) PROVE ApiInv'
  BY AnswerKeepsInv DEF Query

LEMMA QueryOnlyKeepsInv == ASSUME ApiInv, NEW kinds, QueryOnly(kinds) PROVE ApiInv'
  BY AnswerKeepsInv, QueryKeepsInv DEF QueryOnly

LEMMA ContextKeepsInv == ASSUME ApiInv, NEW c, NEW h, Context(c, h) PROVE ApiInv'
  BY DEF ApiInv, NothingOwnedIsLost, NotTwice, Context

LEMMA BorrowKeepsInv == ASSUME ApiInv, NEW p \in DOMAIN heap, Borrow(p) PROVE ApiInv'
<1>1. Sound(heap, mine, borrowed \cup ({p} \ mine))
  BY DEF ApiInv, Sound
<1> QED
  BY <1>1 DEF ApiInv, NothingOwnedIsLost, NotTwice, Borrow

LEMMA DestroyKeepsInv == ASSUME ApiInv, NEW x, Destroy(x) PROVE ApiInv'
<1> DEFINE D == Tree(heap, {x})
           g == Drop(heap, D)
<1>1. Sound(heap, mine, borrowed) /\ x \in mine
  BY DEF ApiInv, Destroy
<1>2. x \in DOMAIN heap
  BY <1>1 DEF Sound
<1>3. /\ DOMAIN g = DOMAIN heap \ D /\ Sound(g, mine \ {x}, borrowed \ D)
      /\ Tree(heap, mine) \cap DOMAIN g \subseteq Tree(g, mine \ {x})
  BY <1>1, DroppingIsSound DEF Destroy, Unreferenced
<1>4. /\ heap' = g /\ mine' = mine \ {x} /\ borrowed' = borrowed \ D
      /\ known' = known \cap DOMAIN heap' /\ NotTwice'
  BY <1>2 DEF Destroy, ApiInv, NotTwice
<1> HIDE DEF D, g
<1> QED
  BY <1>3, <1>4 DEF ApiInv, NothingOwnedIsLost

LEMMA GrowthIsTransitive ==
    ASSUME NEW h, NEW m, NEW b, NEW g, NEW n, NEW i, NEW k, Grows(h, m, b, g, n), Grows(g, n, b, i, k)
    PROVE  Grows(h, m, b, i, k)
BY DEF Grows

LEMMA GrowthKeepsInv ==
    ASSUME ApiInv, NEW h, NEW os, Grows(heap, mine, borrowed, h, os), Objects(h, os), UNCHANGED twice
    PROVE  ApiInv'
BY ObjectsKeepInv DEF Grows, Keeps

\* A new object owns the objects P of the caller.
LEMMA MakingGrows ==
    ASSUME NEW h, NEW m, NEW b, Sound(h, m, b), NEW o \in Object \ DOMAIN h, NEW k, k # "seq",
           NEW P \in SUBSET m
    PROVE  Grows(h, m, b, Put(h, o, Made(k, P)), Owns(m, P, o))
<1> DEFINE R == {}
           g == Put(h, o, Record(k, 0, P, R))
<1>1. Placeable(h, m, b, o, k, P, R)
  BY DEF Placeable
<1>2. g = Put(h, o, Made(k, P))
  BY DEF Made, Record
<1> HIDE DEF R
<1>3. Grows(h, m, b, g, Owns(m, P, o))
  BY <1>1, PuttingIsSound
<1> QED
  BY <1>2, <1>3

\* An object nobody owns may appear; a new object with nothing in it may be the caller's.
LEMMA AppearingGrows ==
    ASSUME NEW h, NEW m, NEW b, Sound(h, m, b), NEW o \in Object \ DOMAIN h, NEW k, NEW n,
           NEW R \in SUBSET DOMAIN h, \A y \in R : h[y].kind \in Geometry
    PROVE  LET g == Put(h, o, Record(k, n, {}, R))
           IN  Grows(h, m, b, g, Owns(m, {}, o)) /\ Grows(h, m, b, g, m)
<1> DEFINE P == {}
<1>1. Placeable(h, m, b, o, k, P, R) /\ P = {} /\ m \ P = m
  BY DEF Placeable
<1> HIDE DEF P
<1> DEFINE g == Put(h, o, Record(k, n, P, R))
<1>2. Grows(h, m, b, g, Owns(m, P, o)) /\ (P = {} => Grows(h, m, b, g, m))
  BY <1>1, PuttingIsSound
<1> QED
  BY <1>1, <1>2

\* The forms the calls use.
LEMMA AppearingObjectGrows ==
    ASSUME NEW h, NEW m, NEW b, Sound(h, m, b), NEW o \in Object \ DOMAIN h, NEW k, NEW n
    PROVE  /\ Grows(h, m, b, Put(h, o, Made(k, {})), Owns(m, {}, o))
           /\ Grows(h, m, b, Put(h, o, Made(k, {})), m)
           /\ Grows(h, m, b, Put(h, o, Sequence(n)), Owns(m, {}, o))
<1> DEFINE R == {}
<1>1. R \in SUBSET DOMAIN h /\ \A y \in R : h[y].kind \in Geometry
  OBVIOUS
<1>2. Made(k, {}) = Record(k, 0, {}, R) /\ Sequence(n) = Record("seq", n, {}, R)
  BY DEF Made, Sequence, Record
<1> HIDE DEF R
<1>3. Grows(h, m, b, Put(h, o, Record(k, 0, {}, R)), Owns(m, {}, o))
  BY <1>1, AppearingGrows
<1>4. Grows(h, m, b, Put(h, o, Record(k, 0, {}, R)), m)
  BY <1>1, AppearingGrows
<1>5. Grows(h, m, b, Put(h, o, Record("seq", n, {}, R)), Owns(m, {}, o))
  BY <1>1, AppearingGrows
<1> QED
  BY <1>2, <1>3, <1>4, <1>5

LEMMA NewKeepsInv ==
    ASSUME ApiInv, NEW k, New(k)
    PROVE  ApiInv'
<1>0. Sound(heap, mine, borrowed)
  BY DEF ApiInv
<1>1. CASE k = "line"
  <2> DEFINE at == Fresh(heap, Kept, 2)
             g == Put(heap, at[1], Sequence(0))
             i == Put(g, at[2], Made(k, {at[1]}))
  <2>1. at # <<>> /\ Objects(i, mine \cup {at[2]}) /\ UNCHANGED twice
    BY <1>1 DEF New
  <2>2. at \in Injection(1..2, Object \ DOMAIN heap)
    BY <2>1, FreshAddresses
  <2> HIDE DEF at
  <2>3. at[1] \in Object \ DOMAIN heap /\ at[2] \in Object \ DOMAIN heap /\ at[1] # at[2]
    BY <2>2 DEF Injection, IsInjective
  <2>4. Grows(heap, mine, borrowed, g, Owns(mine, {}, at[1]))
    BY <1>0, <2>3, AppearingObjectGrows
  <2>5. at[2] \in Object \ DOMAIN g
    BY <2>3 DEF Put
  <2> HIDE DEF g
  <2>6. Grows(g, Owns(mine, {}, at[1]), borrowed, i, Owns(Owns(mine, {}, at[1]), {at[1]}, at[2]))
    <3>1. {at[1]} \in SUBSET Owns(mine, {}, at[1])
      BY DEF Owns
    <3>2. Sound(g, Owns(mine, {}, at[1]), borrowed)
      BY <2>4 DEF Grows
    <3> QED
      BY <1>1, <2>5, <3>1, <3>2, MakingGrows
  <2> HIDE DEF i
  <2>7. mine \subseteq DOMAIN heap
    BY <1>0 DEF Sound
  <2>8. Owns(Owns(mine, {}, at[1]), {at[1]}, at[2]) = mine \cup {at[2]}
    BY <2>3, <2>7 DEF Owns
  <2>9. Grows(heap, mine, borrowed, i, mine \cup {at[2]})
    BY <2>4, <2>6, <2>8, GrowthIsTransitive
  <2> QED
    BY <2>1, <2>9, GrowthKeepsInv
<1>2. CASE k # "line"
  <2> DEFINE at == Fresh(heap, Kept, 1)
             g == Put(heap, at[1], Made(k, {}))
  <2>1. at # <<>> /\ Objects(g, mine \cup {at[1]}) /\ UNCHANGED twice
    BY <1>2 DEF New
  <2>2. at \in Injection(1..1, Object \ DOMAIN heap)
    BY <2>1, FreshAddresses
  <2> HIDE DEF at
  <2>3. at[1] \in Object \ DOMAIN heap
    BY <2>2 DEF Injection, IsInjective
  <2>4. Grows(heap, mine, borrowed, g, Owns(mine, {}, at[1]))
    BY <1>0, <2>3, AppearingObjectGrows
  <2>5. Owns(mine, {}, at[1]) = mine \cup {at[1]}
    BY DEF Owns
  <2> HIDE DEF g
  <2> QED
    BY <2>1, <2>4, <2>5, GrowthKeepsInv
<1> QED
  BY <1>1, <1>2

LEMMA GiveKeepsInv ==
    ASSUME ApiInv, NEW args, NEW kinds, Give(args, kinds)
    PROVE  ApiInv'
BY NewKeepsInv, AnswerKeepsInv DEF Give

\* A sequence of the caller is deleted alone.
LEMMA SequenceDropped ==
    ASSUME NEW h, NEW m, NEW b, Sound(h, m, b), NEW s \in m, h[s].kind = "seq"
    PROVE  LET g == Drop(h, {s})
           IN  Sound(g, m \ {s}, b) /\ Tree(h, m) \ {s} \subseteq Tree(g, m \ {s})
<1> DEFINE D == Tree(h, {s})
           g == Drop(h, D)
<1>1. s \in DOMAIN h /\ HeapSound(h) /\ s \notin b
  BY DEF Sound
<1>2. D = {s} /\ \A y \in DOMAIN h : s \notin h[y].refs
  BY <1>1, SequencesStandAlone
<1>3. \A y \in DOMAIN h \ D : h[y].refs \cap D = {}
  BY <1>2
<1>4. DOMAIN g = DOMAIN h \ D
  BY DEF Drop
<1>5. Sound(g, m \ {s}, b \ D) /\ Tree(h, m) \cap DOMAIN g \subseteq Tree(g, m \ {s})
  BY <1>3, DroppingIsSound
<1>6. Tree(h, m) \subseteq DOMAIN h
  BY TreeIsClosed DEF Sound, HeapSound
<1> HIDE DEF D
<1>7. b \ D = b /\ Drop(h, {s}) = g
  BY <1>1, <1>2
<1> HIDE DEF g
<1> QED
  BY <1>2, <1>4, <1>5, <1>6, <1>7

LEMMA TakeOverKeepsInv ==
    ASSUME ApiInv, NEW S, NEW lost, NEW r, TakeOver(S, lost, r),
           r.ret = NULL => Keeps(r.heap, mine \ lost),
           r.ret # NULL => Keeps(r.heap, (mine \ S) \cup {r.ret})
    PROVE  ApiInv'
BY ObjectsKeepInv DEF TakeOver

\* An object is made of objects P of the caller and given to it.
LEMMA MakingKeeps ==
    ASSUME ApiInv, NEW o \in Object \ DOMAIN heap, NEW k, k # "seq", NEW P \in SUBSET mine
    PROVE  o # NULL /\ Keeps(Put(heap, o, Made(k, P)), (mine \ P) \cup {o})
<1>1. Sound(heap, mine, borrowed)
  BY DEF ApiInv
<1>2. Grows(heap, mine, borrowed, Put(heap, o, Made(k, P)), Owns(mine, P, o))
  BY <1>1, MakingGrows
<1> QED
  BY <1>2, HeapAssumption DEF Owns, Keeps, Grows

\* One address for a call that makes one object.
LEMMA OneAddress ==
    ASSUME NEW at, at = Fresh(heap, Kept, 1), at # <<>>
    PROVE  at[1] \in Object \ DOMAIN heap
BY FreshAddresses DEF Injection

LEMMA createFromSeqKeepsInv == ASSUME ApiInv, createFromSeq PROVE ApiInv'
<1>1. PICK cs \in mine \cap Of({"seq"}), k \in {"point", "line", "ring"} :
         IF handle = NULL THEN Answer(refused)
         ELSE LET at == Fresh(heap, Kept, 1)
              IN  at # <<>> /\ TakeOver({cs}, {cs}, construct(heap, k, cs, at[1]))
  BY DEF createFromSeq
<1>2. CASE handle = NULL
  BY <1>1, <1>2, AnswerKeepsInv
<1>3. CASE handle # NULL
  <2> DEFINE at == Fresh(heap, Kept, 1)
             r == construct(heap, k, cs, at[1])
  <2>1. at # <<>> /\ TakeOver({cs}, {cs}, r)
    BY <1>1, <1>3
  <2>2. at[1] \in Object \ DOMAIN heap
    BY <2>1, OneAddress
  <2> HIDE DEF at
  <2>3. cs \in mine /\ heap[cs].kind = "seq"
    BY <1>1 DEF Of
  <2>4. CASE accepts(k, heap[cs].size)
    <3>1. r.heap = Put(heap, at[1], Made(k, {cs})) /\ r.ret = at[1]
      BY <2>4 DEF construct
    <3>2. at[1] # NULL /\ Keeps(Put(heap, at[1], Made(k, {cs})), (mine \ {cs}) \cup {at[1]})
      <4> DEFINE P == {cs}
      <4>1. P \in SUBSET mine
        BY <2>3
      <4> HIDE DEF P
      <4>2. at[1] # NULL /\ Keeps(Put(heap, at[1], Made(k, P)), (mine \ P) \cup {at[1]})
        BY <1>1, <2>2, <4>1, MakingKeeps
      <4> QED
        BY <4>2 DEF P
    <3> HIDE DEF r
    <3> QED
      BY <2>1, <3>1, <3>2, TakeOverKeepsInv
  <2>5. CASE ~accepts(k, heap[cs].size)
    <3>1. r.heap = Drop(heap, {cs}) /\ r.ret = NULL
      BY <2>5 DEF construct
    <3>2. Sound(heap, mine, borrowed)
      BY DEF ApiInv
    <3>3. /\ Sound(Drop(heap, {cs}), mine \ {cs}, borrowed)
          /\ Tree(heap, mine) \ {cs} \subseteq Tree(Drop(heap, {cs}), mine \ {cs})
      BY <2>3, <3>2, SequenceDropped
    <3>4. cs \notin DOMAIN Drop(heap, {cs})
      BY DEF Drop
    <3>5. Keeps(Drop(heap, {cs}), mine \ {cs})
      BY <3>3, <3>4 DEF Keeps
    <3> HIDE DEF r
    <3> QED
      BY <2>1, <3>1, <3>5, TakeOverKeepsInv
  <2> QED
    BY <2>4, <2>5
<1> QED
  BY <1>2, <1>3

LEMMA createPolygonKeepsInv == ASSUME ApiInv, createPolygon PROVE ApiInv'
<1>0. PICK shell \in mine \cap Of(Geometry) :
      \E holes \in SUBSET ((mine \cap Of(Geometry)) \ {shell}) :
         IF handle = NULL THEN Answer(refused)
         ELSE IF heap[shell].kind # "ring" THEN Answer(thrown)
         ELSE LET at == Fresh(heap, Kept, 1)
              IN  at # <<>> /\ TakeOver({shell} \cup holes, {}, constructPolygon(heap, shell, holes, at[1]))
  BY DEF createPolygon
<1>1. PICK holes \in SUBSET ((mine \cap Of(Geometry)) \ {shell}) :
         IF handle = NULL THEN Answer(refused)
         ELSE IF heap[shell].kind # "ring" THEN Answer(thrown)
         ELSE LET at == Fresh(heap, Kept, 1)
              IN  at # <<>> /\ TakeOver({shell} \cup holes, {}, constructPolygon(heap, shell, holes, at[1]))
  BY <1>0
<1>2. CASE handle = NULL \/ heap[shell].kind # "ring"
  BY <1>1, <1>2, AnswerKeepsInv
<1>3. CASE ~(handle = NULL \/ heap[shell].kind # "ring")
  <2> DEFINE at == Fresh(heap, Kept, 1)
             P == {shell} \cup holes
             r == constructPolygon(heap, shell, holes, at[1])
  <2>1. at # <<>> /\ TakeOver(P, {}, r)
    BY <1>1, <1>3
  <2>2. at[1] \in Object \ DOMAIN heap
    BY <2>1, OneAddress
  <2>3. P \in SUBSET mine
    BY <1>1
  <2>4. \/ r.heap = Put(heap, at[1], Made("polygon", P)) /\ r.ret = at[1]
        \/ r.heap = heap /\ r.ret = NULL
    BY DEF constructPolygon
  <2> HIDE DEF at, P, r
  <2>5. at[1] # NULL /\ Keeps(Put(heap, at[1], Made("polygon", P)), (mine \ P) \cup {at[1]})
    BY <2>2, <2>3, MakingKeeps
  <2>6. Keeps(heap, mine \ {})
    <3>1. mine \ {} = mine
      OBVIOUS
    <3> QED
      BY <3>1 DEF Keeps, ApiInv
  <2> QED
    BY <2>1, <2>4, <2>5, <2>6, TakeOverKeepsInv
<1> QED
  BY <1>2, <1>3

LEMMA createCollectionKeepsInv == ASSUME ApiInv, createCollection PROVE ApiInv'
<1>1. PICK gs \in SUBSET (mine \cap Of(Geometry)), k \in Classes \cup {"unsupported"} :
         IF handle = NULL THEN Answer(refused)
         ELSE IF k = "unsupported" THEN Answer(thrown)
         ELSE LET at == Fresh(heap, Kept, 1)
              IN  /\ at # <<>>
                  /\ TakeOver(gs, {}, [heap |-> Put(heap, at[1], Made(k, gs)), ret |-> at[1]])
  BY DEF createCollection
<1>2. CASE handle = NULL \/ k = "unsupported"
  BY <1>1, <1>2, AnswerKeepsInv
<1>3. CASE ~(handle = NULL \/ k = "unsupported")
  <2> DEFINE at == Fresh(heap, Kept, 1)
             r == [heap |-> Put(heap, at[1], Made(k, gs)), ret |-> at[1]]
  <2>1. at # <<>> /\ TakeOver(gs, {}, r)
    BY <1>1, <1>3
  <2>2. at[1] \in Object \ DOMAIN heap
    BY <2>1, OneAddress
  <2>3. gs \in SUBSET mine /\ k # "seq"
    BY <1>1, <1>3, ApiAssumption DEF Multi
  <2>4. r.heap = Put(heap, at[1], Made(k, gs)) /\ r.ret = at[1]
    OBVIOUS
  <2> HIDE DEF at, r
  <2>5. at[1] # NULL /\ Keeps(Put(heap, at[1], Made(k, gs)), (mine \ gs) \cup {at[1]})
    BY <2>2, <2>3, MakingKeeps
  <2> QED
    BY <2>1, <2>4, <2>5, TakeOverKeepsInv
<1> QED
  BY <1>2, <1>3

LEMMA buildsGeometryKeepsInv == ASSUME ApiInv, buildsGeometry PROVE ApiInv'
<1>1. PICK gs \in SUBSET (mine \cap Of(Geometry)) :
         LET at == Fresh(heap, Kept, 1)
         IN  handle # NULL /\ at # <<>> /\ TakeOver(gs, {}, buildGeometry(heap, gs, at[1]))
  BY DEF buildsGeometry
<1> DEFINE at == Fresh(heap, Kept, 1)
           r == buildGeometry(heap, gs, at[1])
           k == builtClass(heap, gs)
<1>2. at # <<>> /\ TakeOver(gs, {}, r)
  BY <1>1
<1>3. at[1] \in Object \ DOMAIN heap
  BY <1>2, OneAddress
<1>4. gs \in SUBSET mine /\ gs \subseteq DOMAIN heap
  BY <1>1 DEF Of
<1> HIDE DEF at
<1>5. CASE k # "none"
  <2>1. r.heap = Put(heap, at[1], Made(k, gs)) /\ r.ret = at[1]
    BY <1>5 DEF buildGeometry
  <2>2. k # "seq"
    BY DEF builtClass
  <2> HIDE DEF k, r
  <2>3. at[1] # NULL /\ Keeps(Put(heap, at[1], Made(k, gs)), (mine \ gs) \cup {at[1]})
    BY <1>3, <1>4, <2>2, MakingKeeps
  <2> QED
    BY <1>2, <2>1, <2>3, TakeOverKeepsInv
<1>6. CASE k = "none"
  <2>1. Cardinality(gs) = 1
    <3> DEFINE kinds == {heap[g].kind : g \in gs}
    <3>1. k = CASE gs = {} -> "collection"
                [] Cardinality(kinds) > 1 \/ kinds \cap Multi # {} -> "collection"
                [] Cardinality(gs) = 1 -> "none"
                [] kinds = {"polygon"} -> "multipolygon"
                [] kinds = {"point"}   -> "multipoint"
                [] OTHER -> "multiline"
      BY DEF builtClass
    <3> HIDE DEF k, kinds
    <3> QED
      BY <1>6, <3>1
  <2>2. IsFiniteSet(gs)
    BY <1>4, FS_Subset DEF ApiInv, Sound, HeapSound
  <2>3. PICK g : gs = {g}
    BY <2>1, <2>2, FS_Singleton
  <2>4. r.heap = heap /\ r.ret = g
    BY <1>6, <2>3 DEF buildGeometry
  <2>5. g # NULL /\ (mine \ gs) \cup {g} = mine
    BY <1>4, <2>3, HeapAssumption DEF ApiInv, Sound, HeapSound
  <2>6. Keeps(heap, mine)
    BY DEF Keeps, ApiInv
  <2> HIDE DEF r
  <2> QED
    BY <1>2, <2>4, <2>5, <2>6, TakeOverKeepsInv
<1> QED
  BY <1>5, <1>6

LEMMA TreesAreFinite ==
    ASSUME NEW h, HeapSound(h), NEW o \in DOMAIN h
    PROVE  Cardinality(Tree(h, {o})) \in Nat
<1>1. Tree(h, {o}) \subseteq DOMAIN h
  BY TreeIsClosed DEF HeapSound
<1> QED
  BY <1>1, FS_Subset, FS_CardinalityType DEF HeapSound

\* What a caller of Copied may rely on.
CopyMade(h, m, b, o, at, n) ==
    LET copy == Copied(h, o, at)
    IN  /\ Grows(h, m, b, copy.heap, m \cup {copy.ret})
        /\ copy.ret \in Object \ DOMAIN h
        /\ copy.heap[copy.ret].kind = h[o].kind /\ copy.heap[copy.ret].size = h[o].size
        /\ \A i \in 1..n : i > Cardinality(Tree(h, {o})) => at[i] \in Object \ DOMAIN copy.heap

LEMMA CopyingGrows ==
    ASSUME NEW h, NEW m, NEW b, Sound(h, m, b), NEW o \in DOMAIN h, NEW n \in Nat,
           Cardinality(Tree(h, {o})) <= n, NEW at \in Injection(1..n, Object \ DOMAIN h)
    PROVE  CopyMade(h, m, b, o, at, n)
<1> DEFINE T == Tree(h, {o})
           copy == Copied(h, o, at)
<1>0. HeapSound(h)
  BY DEF Sound
<1>1. o \in T
  BY <1>0, RootIsNoPart
<1>2. Cardinality(T) <= n /\ T = Tree(h, {o})
  OBVIOUS
<1> HIDE DEF T
<1>3. Cardinality(T) \in Nat /\ \E w : CopyAt(h, o, T, at, w)
  BY <1>0, <1>2, CopiedIsCopy
<1>4. PICK w : CopyAt(h, o, T, at, w)
  BY <1>3
<1>5. IsCopy(h, T, w, copy.heap) /\ copy.ret = w[o]
  BY <1>4 DEF CopyAt
<1> HIDE DEF copy
<1>6. Sound(copy.heap, m \cup {w[o]}, b) /\ Tree(h, m) \subseteq Tree(copy.heap, m \cup {w[o]})
  BY <1>2, <1>5, CopyIsSound
<1>7. Grows(h, m, b, copy.heap, m \cup {copy.ret})
  BY <1>5, <1>6 DEF Grows, IsCopy
<1>8. copy.ret \in Object \ DOMAIN h
  BY <1>1, <1>5 DEF IsCopy, Injection
<1>9. copy.heap[copy.ret].kind = h[o].kind /\ copy.heap[copy.ret].size = h[o].size
  <2> DEFINE P == {w[p] : p \in h[o].parts}
  <2>1. copy.heap[w[o]] = [kind |-> h[o].kind, size |-> h[o].size, parts |-> P, refs |-> h[o].refs]
    BY <1>1, <1>5 DEF IsCopy
  <2> HIDE DEF P
  <2> QED
    BY <1>5, <2>1
<1>10. ASSUME NEW i \in 1..n, i > Cardinality(T) PROVE at[i] \in Object \ DOMAIN copy.heap
  <2>1. at[i] \in Object \ DOMAIN h
    BY DEF Injection
  <2>2. \A x \in T : w[x] # at[i]
    <3> SUFFICES ASSUME NEW x \in T, w[x] = at[i] PROVE FALSE
      OBVIOUS
    <3>1. PICK j \in 1..Cardinality(T) : w[x] = at[j]
      BY <1>4 DEF CopyAt
    <3>2. j \in 1..n /\ j # i /\ at[j] = at[i]
      BY <1>2, <1>3, <1>10, <3>1
    <3> QED
      BY <3>2 DEF Injection, IsInjective
  <2>3. \A y \in DOMAIN copy.heap : y \in DOMAIN h \/ \E x \in T : y = w[x]
    BY <1>5 DEF IsCopy
  <2> QED
    BY <2>1, <2>2, <2>3
<1> QED
  BY <1>7, <1>8, <1>9, <1>10 DEF CopyMade, copy, T

LEMMA cloneKeepsInv == ASSUME ApiInv, clone PROVE ApiInv'
<1>1. PICK g \in Of(Geometry \cup {"seq"}) :
        \/ /\ handle # NULL
           /\ LET at == Fresh(heap, Kept, Cardinality(Tree(heap, {g})))
              IN  at # <<>> /\ TakeOver({}, {}, Copied(heap, g, at))
        \/ Query({{heap[g].kind}}) /\ outcome'.failed
  BY DEF clone
<1>2. CASE Query({{heap[g].kind}})
  BY <1>2, QueryKeepsInv
<1>3. CASE ~Query({{heap[g].kind}})
  <2> DEFINE n == Cardinality(Tree(heap, {g}))
             at == Fresh(heap, Kept, n)
             r == Copied(heap, g, at)
  <2>1. at # <<>> /\ TakeOver({}, {}, r)
    BY <1>1, <1>3
  <2>2. g \in DOMAIN heap /\ Sound(heap, mine, borrowed)
    BY DEF Of, ApiInv
  <2>3. n \in Nat /\ Cardinality(Tree(heap, {g})) <= n
    BY <2>2, TreesAreFinite DEF Sound
  <2> HIDE DEF n
  <2>4. at \in Injection(1..n, Object \ DOMAIN heap)
    BY <2>1, <2>3, FreshAddresses
  <2> HIDE DEF at
  <2>5. CopyMade(heap, mine, borrowed, g, at, n)
    BY <2>2, <2>3, <2>4, CopyingGrows
  <2>6. Grows(heap, mine, borrowed, r.heap, mine \cup {r.ret}) /\ r.ret \in Object
    BY <2>5 DEF CopyMade
  <2> HIDE DEF r
  <2>7. (mine \ {}) \cup {r.ret} = mine \cup {r.ret}
    OBVIOUS
  <2>8. r.ret # NULL /\ Keeps(r.heap, (mine \ {}) \cup {r.ret})
    BY <2>6, <2>7, HeapAssumption DEF Keeps, Grows
  <2> QED
    BY <2>1, <2>8, TakeOverKeepsInv
<1> QED
  BY <1>2, <1>3

LEMMA createMultiCopiesKeepsInv == ASSUME ApiInv, createMultiCopies PROVE ApiInv'
<1>1. PICK g \in Of(Geometry), k \in Classes :
        LET at == Fresh(heap, Kept, Cardinality(Tree(heap, {g})) + 1)
        IN  /\ handle # NULL /\ at # <<>>
            /\ TakeOver({}, {}, IF k = "multiline" THEN createMultiLineStringFromCopy(heap, g, at)
                            ELSE createMultiFromCopy(heap, k, g, at))
  BY DEF createMultiCopies
<1> DEFINE c == Cardinality(Tree(heap, {g}))
           at == Fresh(heap, Kept, c + 1)
           copy == Copied(heap, g, at)
           r == IF k = "multiline" THEN createMultiLineStringFromCopy(heap, g, at)
                ELSE createMultiFromCopy(heap, k, g, at)
<1>2. at # <<>> /\ TakeOver({}, {}, r)
  BY <1>1
<1>3. g \in DOMAIN heap /\ Sound(heap, mine, borrowed)
  BY DEF Of, ApiInv
<1>4. c \in Nat /\ c <= c + 1 /\ c + 1 \in Nat /\ c = Cardinality(Tree(heap, {g}))
  BY <1>3, TreesAreFinite DEF Sound
<1> HIDE DEF c
<1>5. at \in Injection(1..(c + 1), Object \ DOMAIN heap)
  BY <1>2, <1>4, FreshAddresses
<1> HIDE DEF at
<1>6. CopyMade(heap, mine, borrowed, g, at, c + 1)
  BY <1>3, <1>4, <1>5, CopyingGrows
<1>7. Len(at) = c + 1
  BY <1>4, <1>5 DEF Injection
<1>8. /\ Grows(heap, mine, borrowed, copy.heap, mine \cup {copy.ret})
      /\ copy.ret \in Object \ DOMAIN heap /\ at[c + 1] \in Object \ DOMAIN copy.heap
  <2>1. /\ Grows(heap, mine, borrowed, copy.heap, mine \cup {copy.ret})
        /\ copy.ret \in Object \ DOMAIN heap
        /\ \A i \in 1..(c + 1) : i > c => at[i] \in Object \ DOMAIN copy.heap
    BY <1>6, <1>4 DEF CopyMade
  <2>2. c + 1 \in 1..(c + 1) /\ c + 1 > c
    BY <1>4
  <2> QED
    BY <2>1, <2>2
<1>9. k \in Multi /\ k # "seq"
  BY ApiAssumption DEF Multi
<1> DEFINE g2 == Put(copy.heap, at[c + 1], Made(k, {copy.ret}))
<1>10. (mine \ {}) \cup {at[c + 1]} = Owns(mine \cup {copy.ret}, {copy.ret}, at[c + 1])
  BY <1>3, <1>8 DEF Owns, Sound
<1>11. Grows(heap, mine, borrowed, g2, (mine \ {}) \cup {at[c + 1]})
  <2> DEFINE P == {copy.ret}
             m == mine \cup P
  <2>1. P \in SUBSET m /\ Sound(copy.heap, m, borrowed)
    BY <1>8 DEF Grows
  <2> HIDE DEF P, m, copy
  <2>2. Grows(copy.heap, m, borrowed, Put(copy.heap, at[c + 1], Made(k, P)), Owns(m, P, at[c + 1]))
    BY <1>8, <1>9, <2>1, MakingGrows
  <2>3. Grows(heap, mine, borrowed, copy.heap, m)
    BY <1>8 DEF m, P
  <2>4. Grows(heap, mine, borrowed, Put(copy.heap, at[c + 1], Made(k, P)), Owns(m, P, at[c + 1]))
    BY <2>2, <2>3, GrowthIsTransitive
  <2> QED
    BY <1>10, <2>4 DEF m, P
<1>12. at[c + 1] # NULL
  BY <1>8, HeapAssumption
<1>13. ASSUME r = createMultiFromCopy(heap, k, g, at) PROVE ApiInv'
  <2>0. /\ createMultiFromCopy(heap, k, g, at).heap = g2
        /\ createMultiFromCopy(heap, k, g, at).ret = at[c + 1]
    BY <1>7 DEF createMultiFromCopy
  <2> HIDE DEF r, g2
  <2>1. r.heap = g2 /\ r.ret = at[c + 1]
    BY <1>13, <2>0
  <2>2. Keeps(r.heap, (mine \ {}) \cup {r.ret})
    BY <1>11, <2>1 DEF Keeps, Grows
  <2> QED
    BY <1>2, <1>12, <2>1, <2>2, TakeOverKeepsInv
<1>14. ASSUME r = [heap |-> Put(heap, at[1], Made("vector", {})), ret |-> NULL] PROVE ApiInv'
  <2>1. at[1] \in Object \ DOMAIN heap
    <3>1. 1 \in 1..(c + 1)
      BY <1>4
    <3> HIDE DEF r
    <3> QED
      BY <1>5, <3>1 DEF Injection
  <2>2. Grows(heap, mine, borrowed, Put(heap, at[1], Made("vector", {})), mine)
    BY <1>3, <2>1, AppearingObjectGrows
  <2>3. r.heap = Put(heap, at[1], Made("vector", {})) /\ r.ret = NULL
    BY <1>14
  <2> HIDE DEF r
  <2>4. mine \ {} = mine
    OBVIOUS
  <2>5. Keeps(r.heap, mine \ {})
    BY <2>2, <2>3, <2>4 DEF Keeps, Grows
  <2> QED
    BY <1>2, <2>3, <2>5, TakeOverKeepsInv
<1> QED
  <2> HIDE DEF at
  <2>1. \/ r = createMultiFromCopy(heap, k, g, at)
        \/ r = [heap |-> Put(heap, at[1], Made("vector", {})), ret |-> NULL]
    BY DEF createMultiLineStringFromCopy
  <2> QED
    BY <1>13, <1>14, <2>1

\* The copy of a sequence becomes part of what is made of it or is deleted with it.
LEMMA createCopiesKeepsInv ==
    ASSUME ApiInv, createCopies
    PROVE  ApiInv'
<1>1. PICK cs \in Of({"seq"}), k \in {"point", "line", "ring"} :
        LET at == Fresh(heap, Kept, 2)
            made == IF k = "point" THEN createPointFromCopy(heap, cs, at)
                    ELSE createFromCopy(heap, k, cs, at)
        IN  /\ handle # NULL /\ at # <<>>
            /\ k = "point" => heap[cs].size \in PointArguments
            /\ Objects(made.heap, IF made.ret = NULL THEN mine ELSE mine \cup {made.ret})
            /\ outcome' = (IF made.ret = NULL THEN thrown ELSE ok)
            /\ twice' = (twice \/ made.twice)
  BY DEF createCopies
<1> DEFINE at == Fresh(heap, Kept, 2)
           made == IF k = "point" THEN createPointFromCopy(heap, cs, at)
                   ELSE createFromCopy(heap, k, cs, at)
           copy == Copied(heap, cs, at)
           r == construct(copy.heap, k, copy.ret, at[2])
<1>2. /\ at # <<>> /\ (k = "point" => heap[cs].size \in PointArguments)
      /\ Objects(made.heap, IF made.ret = NULL THEN mine ELSE mine \cup {made.ret})
      /\ twice' = (twice \/ made.twice)
  BY <1>1
<1>3. cs \in DOMAIN heap /\ heap[cs].kind = "seq" /\ Sound(heap, mine, borrowed)
  BY DEF Of, ApiInv
<1>4. Tree(heap, {cs}) = {cs}
  BY <1>3, SequencesStandAlone DEF Sound
<1>5. Cardinality(Tree(heap, {cs})) = 1
  BY <1>4, FS_Singleton
<1>6. at \in Injection(1..2, Object \ DOMAIN heap)
  BY <1>2, FreshAddresses
<1> HIDE DEF at
<1>7. at[1] \in Object /\ at[1] # NULL /\ at[2] \in Object /\ at[2] # NULL
  BY <1>6, HeapAssumption DEF Injection
<1>8. CopyMade(heap, mine, borrowed, cs, at, 2)
  <2> DEFINE n == 2
  <2>1. n \in Nat /\ Cardinality(Tree(heap, {cs})) <= n /\ at \in Injection(1..n, Object \ DOMAIN heap)
    BY <1>5, <1>6
  <2> HIDE DEF n
  <2>2. CopyMade(heap, mine, borrowed, cs, at, n)
    BY <1>3, <2>1, CopyingGrows
  <2> QED
    BY <2>2 DEF n
<1>9. /\ Grows(heap, mine, borrowed, copy.heap, mine \cup {copy.ret})
      /\ copy.ret \in Object \ DOMAIN heap /\ at[2] \in Object \ DOMAIN copy.heap
      /\ copy.heap[copy.ret].kind = "seq" /\ copy.heap[copy.ret].size = heap[cs].size
  BY <1>3, <1>5, <1>8 DEF CopyMade
<1>10. copy.ret = at[1]
  <2> DEFINE n == 2
  <2>0. n \in Nat /\ Cardinality(Tree(heap, {cs})) <= n /\ at \in Injection(1..n, Object \ DOMAIN heap)
    BY <1>5, <1>6
  <2> HIDE DEF n
  <2>1. PICK w : CopyAt(heap, cs, Tree(heap, {cs}), at, w)
    BY <1>3, <2>0, CopiedIsCopy DEF Sound
  <2>2. PICK i \in 1..1 : w[cs] = at[i]
    BY <1>4, <1>5, <2>1 DEF CopyAt
  <2> QED
    BY <2>1, <2>2 DEF CopyAt
<1>11. /\ made.heap = r.heap /\ made.ret = r.ret
       /\ made.twice = (k = "point" /\ r.ret = NULL)
  <2>1. CASE k = "point"
    <3>1. made = [heap |-> r.heap, ret |-> r.ret, twice |-> r.ret = NULL]
      BY <1>10, <2>1 DEF createPointFromCopy
    <3> HIDE DEF made, r
    <3> QED
      BY <2>1, <3>1
  <2>2. CASE k # "point"
    <3>1. made = [heap |-> r.heap, ret |-> r.ret, twice |-> FALSE]
      BY <2>2 DEF createFromCopy
    <3> HIDE DEF made, r
    <3> QED
      BY <2>2, <3>1
  <2> QED
    BY <2>1, <2>2
<1> HIDE DEF made
<1>12. CASE accepts(k, heap[cs].size)
  <2>1. r.heap = Put(copy.heap, at[2], Made(k, {copy.ret})) /\ r.ret = at[2]
    BY <1>9, <1>12 DEF construct
  <2>2. Grows(heap, mine, borrowed, r.heap, mine \cup {at[2]})
    <3> DEFINE P == {copy.ret}
               m == mine \cup P
    <3>1. P \in SUBSET m /\ Sound(copy.heap, m, borrowed) /\ Grows(heap, mine, borrowed, copy.heap, m)
      BY <1>9 DEF Grows
    <3>2. Owns(m, P, at[2]) = mine \cup {at[2]}
      BY <1>3, <1>9 DEF Owns, Sound
    <3>3. r.heap = Put(copy.heap, at[2], Made(k, P))
      BY <2>1
    <3>4. k # "seq"
      OBVIOUS
    <3> HIDE DEF P, m, copy, r
    <3>5. Grows(copy.heap, m, borrowed, Put(copy.heap, at[2], Made(k, P)), Owns(m, P, at[2]))
      BY <1>9, <3>1, <3>4, MakingGrows
    <3> QED
      BY <3>1, <3>2, <3>3, <3>5, GrowthIsTransitive
  <2> HIDE DEF r
  <2>3. Objects(r.heap, mine \cup {at[2]}) /\ NotTwice'
    BY <1>2, <1>7, <1>11, <2>1 DEF ApiInv, NotTwice
  <2>4. Keeps(r.heap, mine \cup {at[2]})
    BY <2>2 DEF Keeps, Grows
  <2> QED
    BY <2>3, <2>4, ObjectsKeepTrees
<1>13. CASE ~accepts(k, heap[cs].size)
  <2>1. r.heap = Drop(copy.heap, {copy.ret}) /\ r.ret = NULL
    BY <1>9, <1>13 DEF construct
  <2>2. PointArguments \subseteq {1} => k # "point"
    BY <1>2, <1>13 DEF accepts
  <2> HIDE DEF r, copy
  <2>3. Keeps(r.heap, mine)
    <3> DEFINE s == copy.ret
               m == mine \cup {s}
               g == Drop(copy.heap, {s})
    <3>1. s \in m /\ Sound(copy.heap, m, borrowed) /\ copy.heap[s].kind = "seq"
      BY <1>9 DEF Grows
    <3>2. m \ {s} = mine
      BY <1>3, <1>9 DEF Sound
    <3>3. s \notin DOMAIN g
      BY DEF Drop
    <3> HIDE DEF m, s
    <3>4. Sound(g, m \ {s}, borrowed) /\ Tree(copy.heap, m) \ {s} \subseteq Tree(g, m \ {s})
      BY <3>1, SequenceDropped
    <3>5. Tree(heap, mine) \subseteq Tree(copy.heap, m)
      BY <1>9 DEF Grows, m, s
    <3> QED
      BY <2>1, <3>2, <3>3, <3>4, <3>5 DEF Keeps, s
  <2>4. Objects(r.heap, mine) /\ NotTwice'
    BY <1>2, <1>11, <2>1, <2>2 DEF ApiInv, NotTwice
  <2> QED
    BY <2>3, <2>4, ObjectsKeepTrees
<1> QED
  BY <1>12, <1>13

LEMMA CoordSeq_createKeepsInv == ASSUME ApiInv, CoordSeq_create PROVE ApiInv'
<1>1. CASE \E o \in {refused, thrown} : Answer(o)
  BY <1>1, AnswerKeepsInv
<1>2. CASE ~\E o \in {refused, thrown} : Answer(o)
  <2> DEFINE at == Fresh(heap, Kept, 1)
  <2>1. PICK n \in Sizes : /\ at # <<>> /\ Objects(Put(heap, at[1], Sequence(n)), mine \cup {at[1]})
                           /\ UNCHANGED twice
    BY <1>2 DEF CoordSeq_create
  <2>2. at[1] \in Object \ DOMAIN heap /\ Sound(heap, mine, borrowed)
    BY <2>1, OneAddress DEF ApiInv
  <2> HIDE DEF at
  <2>3. Grows(heap, mine, borrowed, Put(heap, at[1], Sequence(n)), Owns(mine, {}, at[1]))
    BY <2>2, AppearingObjectGrows
  <2>4. Owns(mine, {}, at[1]) = mine \cup {at[1]}
    BY DEF Owns
  <2> QED
    BY <2>1, <2>3, <2>4, GrowthKeepsInv
<1> QED
  BY <1>1, <1>2

LEMMA isValidDetailKeepsInv == ASSUME ApiInv, isValidDetail PROVE ApiInv'
<1>1. CASE Query({Geometry})
  BY <1>1, QueryKeepsInv
<1>2. CASE ~Query({Geometry})
  <2> DEFINE at == Fresh(heap, Kept, 2)
             g == Put(heap, at[1], Made("text", {}))
             i == Put(g, at[2], Made("point", {}))
  <2>1. at # <<>> /\ Objects(i, mine \cup ToSet(at)) /\ UNCHANGED twice
    BY <1>2 DEF isValidDetail
  <2>2. at \in Injection(1..2, Object \ DOMAIN heap)
    BY <2>1, FreshAddresses
  <2> HIDE DEF at
  <2>3. at[1] \in Object \ DOMAIN heap /\ at[2] \in Object \ DOMAIN heap /\ at[1] # at[2]
    BY <2>2 DEF Injection, IsInjective
  <2>4. Owns(Owns(mine, {}, at[1]), {}, at[2]) = mine \cup ToSet(at)
    <3>1. DOMAIN at = {1, 2}
      BY <2>2 DEF Injection
    <3>2. ToSet(at) = {at[1], at[2]}
      BY <3>1 DEF ToSet
    <3> QED
      BY <3>2 DEF Owns
  <2>5. at[2] \in Object \ DOMAIN g /\ Sound(heap, mine, borrowed)
    BY <2>3 DEF Put, ApiInv
  <2> DEFINE m == Owns(mine, {}, at[1])
  <2>6. Grows(heap, mine, borrowed, g, m)
    BY <2>3, <2>5, AppearingObjectGrows
  <2>7. Sound(g, m, borrowed)
    BY <2>6 DEF Grows
  <2> HIDE DEF g, m
  <2>8. Grows(g, m, borrowed, i, Owns(m, {}, at[2]))
    BY <2>5, <2>7, AppearingObjectGrows
  <2> HIDE DEF i
  <2>9. Grows(heap, mine, borrowed, i, mine \cup ToSet(at))
    BY <2>4, <2>6, <2>8, GrowthIsTransitive DEF m
  <2> QED
    BY <2>1, <2>9, GrowthKeepsInv
<1> QED
  BY <1>1, <1>2

LEMMA PrepareKeepsInv == ASSUME ApiInv, Prepare PROVE ApiInv'
<1>1. PICK g \in Of(Geometry) :
        \/ /\ handle # NULL
           /\ LET at == Fresh(heap, Kept, 1)
              IN  /\ at # <<>>
                  /\ Objects(Put(heap, at[1], [Made("prepared", {}) EXCEPT !.refs = {g}]), mine \cup {at[1]})
           /\ outcome' = ok /\ UNCHANGED twice
        \/ Query({{heap[g].kind}}) /\ outcome'.failed
  BY DEF Prepare
<1>2. CASE Query({{heap[g].kind}})
  BY <1>2, QueryKeepsInv
<1>3. CASE ~Query({{heap[g].kind}})
  <2> DEFINE at == Fresh(heap, Kept, 1)
             R == {g}
             i == Put(heap, at[1], Record("prepared", 0, {}, R))
  <2>1. at # <<>> /\ UNCHANGED twice
    BY <1>1, <1>3
  <2>2. [Made("prepared", {}) EXCEPT !.refs = {g}] = Record("prepared", 0, {}, R)
    BY DEF Made, Record
  <2>3. Objects(i, mine \cup {at[1]})
    BY <1>1, <1>3, <2>2
  <2>4. at[1] \in Object \ DOMAIN heap /\ Sound(heap, mine, borrowed)
    BY <2>1, OneAddress DEF ApiInv
  <2>5. R \in SUBSET DOMAIN heap /\ \A y \in R : heap[y].kind \in Geometry
    BY DEF Of
  <2> HIDE DEF at, R
  <2>6. Grows(heap, mine, borrowed, i, Owns(mine, {}, at[1]))
    BY <2>4, <2>5, AppearingGrows
  <2>7. Owns(mine, {}, at[1]) = mine \cup {at[1]}
    BY DEF Owns
  <2> HIDE DEF i
  <2> QED
    BY <2>1, <2>3, <2>6, <2>7, GrowthKeepsInv
<1> QED
  BY <1>2, <1>3

LEMMA STRtree_insertKeepsInv == ASSUME ApiInv, STRtree_insert PROVE ApiInv'
<1>1. PICK t \in Of({"tree"}), g \in Of(Geometry) : Objects(Refers(t, {g}), mine) /\ UNCHANGED twice
  BY DEF STRtree_insert
<1> DEFINE k == [heap EXCEPT ![t].refs = @ \cup {g}]
<1>2. Refers(t, {g}) = k
  BY DEF Refers
<1>3. t \in DOMAIN heap /\ g \in DOMAIN heap /\ heap[g].kind \in Geometry /\ Sound(heap, mine, borrowed)
  BY DEF Of, ApiInv
<1>4. DOMAIN k = DOMAIN heap /\ Sound(k, mine, borrowed) /\ Tree(heap, mine) \subseteq Tree(k, mine)
  BY <1>3, ReferringIsSound
<1> HIDE DEF k
<1>5. Grows(heap, mine, borrowed, k, mine)
  BY <1>4 DEF Grows
<1> QED
  BY <1>1, <1>2, <1>5, GrowthKeepsInv

LEMMA STRtree_nearestKeepsInv == ASSUME ApiInv, STRtree_nearest PROVE ApiInv'
<1> DEFINE at == Fresh(heap, Kept, 1)
           g == Put(heap, at[1], Made("polygon", {}))
<1>1. at # <<>> /\ Objects(g, mine) /\ UNCHANGED twice
  BY DEF STRtree_nearest
<1>2. at[1] \in Object \ DOMAIN heap /\ Sound(heap, mine, borrowed)
  BY <1>1, OneAddress DEF ApiInv
<1> HIDE DEF at
<1>3. Grows(heap, mine, borrowed, g, mine)
  BY <1>2, AppearingObjectGrows
<1> HIDE DEF g
<1> QED
  BY <1>1, <1>3, GrowthKeepsInv

LEMMA BorrowingKeepsInv == ASSUME ApiInv, GetGeometryN \/ Rings \/ getCoordSeq PROVE ApiInv'
<1>1. \A g \in Of(Geometry) : g \in DOMAIN heap /\ heap[g].parts \subseteq DOMAIN heap
  BY DEF Of, ApiInv, Sound, HeapSound
<1>2. CASE GetGeometryN
  BY <1>1, <1>2, BorrowKeepsInv, QueryKeepsInv DEF GetGeometryN
<1>3. CASE Rings
  BY <1>1, <1>3, BorrowKeepsInv, AnswerKeepsInv DEF Rings
<1>4. CASE getCoordSeq
  BY <1>1, <1>4, BorrowKeepsInv, AnswerKeepsInv DEF getCoordSeq
<1> QED
  BY <1>2, <1>3, <1>4

LEMMA Polygonize_fullKeepsInv == ASSUME ApiInv, Polygonize_full PROVE ApiInv'
BY GiveKeepsInv, NewKeepsInv DEF Polygonize_full

LEMMA InitApiInv == Init => ApiInv
<1> SUFFICES ASSUME Init PROVE ApiInv
  OBVIOUS
<1>1. DOMAIN heap = {} /\ mine = {} /\ borrowed = {} /\ known = {} /\ twice = FALSE
  BY DEF Init
<1>2. HeapSound(heap)
  BY <1>1, FS_EmptySet DEF HeapSound, Acyclic
<1> QED
  BY <1>1, <1>2 DEF ApiInv, Sound, NothingOwnedIsLost, NotTwice

LEMMA NextKeepsInv ==
    ASSUME ApiInv, Next
    PROVE  ApiInv'
<1>1. CASE ContextCalls
  BY <1>1, ContextKeepsInv DEF ContextCalls, initGEOS, GEOSContext_setErrorHandler,
     GEOSContext_setErrorMessageHandler, finishGEOS
<1>2. CASE Relations
  <2>1. NearestPoints => ApiInv'
    BY GiveKeepsInv, AnswerKeepsInv DEF NearestPoints
  <2> QED
    BY <1>2, <2>1, QueryKeepsInv, GiveKeepsInv, isValidDetailKeepsInv
    DEF Relations, DisjointTouchesIntersectsCrosses, WithinContainsOverlapsCovers, RelatePatterns,
        RelateText, isValid, ValidReason, Equals, AreaLengthDistance, HausdorffDistance, FromText,
        ToText, EmptySimpleRing, GeomType
<1>3. CASE Operations
  BY <1>3, GiveKeepsInv, Polygonize_fullKeepsInv
  DEF Operations, EnvelopeIntersection, Buffers, HullsAndCentroids, DifferenceBoundaryUnion,
      UnaryUnionsAndNode, PointOnSurfaceAndClip, Polygonize, LineMerge, setPrecision, Simplify
<1>4. CASE Accessors
  <2>1. Geom_destroy => ApiInv'
    BY DestroyKeepsInv DEF Geom_destroy
  <2>2. LinePoints => ApiInv'
    BY GiveKeepsInv DEF LinePoints
  <2>3. WKBSettings => ApiInv'
    BY AnswerKeepsInv DEF WKBSettings
  <2>4. GetGeometryN \/ Rings => ApiInv'
    BY BorrowingKeepsInv
  <2> QED
    BY <1>4, <2>1, <2>2, <2>3, <2>4, QueryKeepsInv, QueryOnlyKeepsInv
    DEF Accessors, Counts, isClosed, LineLengthAndPoints, PointXY, UserDataAndSRID,
        PrecisionAndDimensions
<1>5. CASE Construction
  <2>1. CoordSeq_destroy => ApiInv'
    BY DestroyKeepsInv DEF CoordSeq_destroy
  <2>2. CoordSeq_access => ApiInv'
    BY QueryKeepsInv DEF CoordSeq_access
  <2> QED
    BY <1>5, <2>1, <2>2, CoordSeq_createKeepsInv, BorrowingKeepsInv, createFromSeqKeepsInv,
       createPolygonKeepsInv, createCollectionKeepsInv, cloneKeepsInv, createCopiesKeepsInv,
       createMultiCopiesKeepsInv, buildsGeometryKeepsInv
    DEF Construction
<1>6. CASE ReadersAndWriters
  BY <1>6, QueryKeepsInv, GiveKeepsInv
  DEF ReadersAndWriters, createReader, createWriter, setTool, read, write
<1>7. CASE PreparedAndTrees
  <2>1. OtherDestroy => ApiInv'
    BY DestroyKeepsInv DEF OtherDestroy
  <2> QED
    BY <1>7, <2>1, PrepareKeepsInv, STRtree_insertKeepsInv, STRtree_nearestKeepsInv,
       QueryKeepsInv, GiveKeepsInv
    DEF PreparedAndTrees, PreparedContainsToDisjoint, PreparedIntersectsToWithin, STRtree_create,
        STRtree_query, STRtree_iterateAndRemove
<1>8. CASE Others
  <2>1. OrientationIndex => ApiInv'
    BY AnswerKeepsInv DEF OrientationIndex
  <2> QED
    BY <1>8, <2>1, QueryOnlyKeepsInv, GiveKeepsInv
    DEF Others, Project, Interpolate, UniquePoints, EmptyGeometries, SharedPaths, Snap,
        createBufferParams, BufferWithParams, Triangulate
<1> QED
  BY <1>1, <1>2, <1>3, <1>4, <1>5, <1>6, <1>7, <1>8 DEF Next

LEMMA ApiInvHolds == Spec => []ApiInv
<1>1. ASSUME ApiInv, [Next]_vars PROVE ApiInv'
  <2>1. CASE UNCHANGED vars
    BY <1>1, <2>1 DEF ApiInv, NothingOwnedIsLost, NotTwice, vars
  <2>2. CASE Next
    BY <1>1, <2>2, NextKeepsInv
  <2> QED
    BY <1>1, <2>1, <2>2
<1> QED
  BY <1>1, InitApiInv, PTL DEF Spec

\* No call leaves a pointer to a deleted object in the caller's hands or inside
\* an object, gives an object two owners or deletes one twice - except the
\* createPoint that copies its argument, when the sequence is not of one point.
THEOREM CallersPointersAreSound ==
    ASSUME PointArguments \subseteq {1}
    PROVE  Spec => []PointersAreSound
<1>1. ApiInv => PointersAreSound
  BY DEF ApiInv, NotTwice, Sound, HeapSound, PointersAreSound
<1> QED
  BY <1>1, ApiInvHolds, PTL

\* An object the caller was given or gave away is its own, or part of something
\* that is, until it is deleted, also when the call that was to take it over fails.
THEOREM NothingIsLost == Spec => []NothingOwnedIsLost
<1>1. ApiInv => NothingOwnedIsLost
  BY DEF ApiInv
<1> QED
  BY <1>1, ApiInvHolds, PTL

-----------------------------------------------------------------------------
(* The error handler.                                                      *)
ToldInv == (handle # NULL => ERROR_MESSAGE = <<latest>>) /\ FailuresAreTold

\* A call that leaves the context alone and fails with one tells its handler.
Tells == UNCHANGED contextVars /\ (outcome'.failed /\ handle # NULL => outcome'.told = ERROR_MESSAGE)

LEMMA ContextIsSet ==
    ASSUME NEW h \in Handlers, NEW c, c \in {setErrorHandler(h), setErrorMessageHandler(h)}, Context(c, h)
    PROVE  ToldInv'
<1>1. h # NULL
  BY ApiAssumption
<1>2. handle' = c /\ latest' = h /\ ~outcome'.failed
  BY DEF Context, ok
<1>3. ERROR_MESSAGE' = <<latest'>>
  BY <1>1, <1>2 DEF ERROR_MESSAGE, setErrorHandler, setErrorMessageHandler
<1> QED
  BY <1>2, <1>3 DEF ToldInv, FailuresAreTold

LEMMA AnswerTells ==
    ASSUME NEW o, Answer(o), o \in {ok, thrown} \/ (o = refused /\ handle = NULL)
    PROVE  Tells
BY DEF Answer, ok, thrown, Tells

LEMMA QueryTells == ASSUME NEW args, Query(args) PROVE Tells
  BY AnswerTells DEF Query

LEMMA QueryOnlyTells == ASSUME NEW kinds, QueryOnly(kinds) PROVE Tells
  BY AnswerTells, QueryTells DEF QueryOnly

LEMMA ObjectsTell ==
    ASSUME NEW h, NEW os, Objects(h, os),
           outcome' \in {ok, thrown} \/ (outcome' = refused /\ handle = NULL)
    PROVE  Tells
BY DEF Objects, ok, thrown, Tells

LEMMA NewTells == ASSUME NEW k, New(k), outcome' \in {ok, thrown} PROVE Tells
  BY ObjectsTell DEF New

LEMMA GiveTells == ASSUME NEW args, NEW kinds, Give(args, kinds) PROVE Tells
  BY AnswerTells, NewTells DEF Give

LEMMA TakeOverTells == ASSUME NEW S, NEW lost, NEW r, TakeOver(S, lost, r) PROVE Tells
  BY ObjectsTell DEF TakeOver

LEMMA BorrowTells == ASSUME NEW p, Borrow(p) PROVE Tells
  BY DEF Borrow, ok, Tells

LEMMA DestroyTells == ASSUME NEW x, Destroy(x) PROVE Tells
  BY DEF Destroy, ok, Tells

LEMMA ConstructionTells == ASSUME Construction PROVE Tells
<1>1. CoordSeq_create => Tells
  BY AnswerTells, ObjectsTell DEF CoordSeq_create
<1>2. createFromSeq => Tells
  BY AnswerTells, TakeOverTells DEF createFromSeq
<1>3. createPolygon => Tells
  BY AnswerTells, TakeOverTells DEF createPolygon
<1>4. createCollection => Tells
  BY AnswerTells, TakeOverTells DEF createCollection
<1>5. clone => Tells
  BY QueryTells, TakeOverTells DEF clone
<1>6. createCopies => Tells
  BY ObjectsTell DEF createCopies
<1>7. createMultiCopies => Tells
  BY TakeOverTells DEF createMultiCopies
<1>8. buildsGeometry => Tells
  BY TakeOverTells DEF buildsGeometry
<1>9. getCoordSeq => Tells
  BY AnswerTells, BorrowTells DEF getCoordSeq
<1> QED
  BY <1>1, <1>2, <1>3, <1>4, <1>5, <1>6, <1>7, <1>8, <1>9, DestroyTells, QueryTells
  DEF Construction, CoordSeq_destroy, CoordSeq_access

LEMMA CallsTell == ASSUME Next, ~ContextCalls PROVE Tells
<1>1. CASE Relations
  <2>1. NearestPoints => Tells
    BY GiveTells, AnswerTells DEF NearestPoints
  <2>2. isValidDetail => Tells
    BY QueryTells, ObjectsTell DEF isValidDetail
  <2> QED
    BY <1>1, <2>1, <2>2, QueryTells, GiveTells
    DEF Relations, DisjointTouchesIntersectsCrosses, WithinContainsOverlapsCovers, RelatePatterns,
        RelateText, isValid, ValidReason, Equals, AreaLengthDistance, HausdorffDistance, FromText,
        ToText, EmptySimpleRing, GeomType
<1>2. CASE Operations
  <2>1. Polygonize_full => Tells
    BY GiveTells, NewTells DEF Polygonize_full
  <2> QED
    BY <1>2, <2>1, GiveTells
    DEF Operations, EnvelopeIntersection, Buffers, HullsAndCentroids, DifferenceBoundaryUnion,
        UnaryUnionsAndNode, PointOnSurfaceAndClip, Polygonize, LineMerge, setPrecision, Simplify
<1>3. CASE Accessors
  <2>1. Geom_destroy => Tells
    BY DestroyTells DEF Geom_destroy
  <2>2. LinePoints => Tells
    BY GiveTells DEF LinePoints
  <2>3. WKBSettings => Tells
    BY AnswerTells DEF WKBSettings, Answer, ok, Tells
  <2>4. GetGeometryN => Tells
    BY BorrowTells, QueryTells DEF GetGeometryN
  <2>5. Rings => Tells
    BY AnswerTells, BorrowTells DEF Rings
  <2> QED
    BY <1>3, <2>1, <2>2, <2>3, <2>4, <2>5, QueryTells, QueryOnlyTells
    DEF Accessors, Counts, isClosed, LineLengthAndPoints, PointXY, UserDataAndSRID,
        PrecisionAndDimensions
<1>4. CASE ReadersAndWriters
  BY <1>4, QueryTells, GiveTells DEF ReadersAndWriters, createReader, createWriter, setTool, read, write
<1>5. CASE PreparedAndTrees
  <2>1. OtherDestroy => Tells
    BY DestroyTells DEF OtherDestroy
  <2>2. Prepare => Tells
    BY QueryTells, ObjectsTell DEF Prepare
  <2>3. STRtree_insert => Tells
    BY ObjectsTell DEF STRtree_insert
  <2>4. STRtree_nearest => Tells
    BY ObjectsTell DEF STRtree_nearest
  <2> QED
    BY <1>5, <2>1, <2>2, <2>3, <2>4, QueryTells, GiveTells
    DEF PreparedAndTrees, PreparedContainsToDisjoint, PreparedIntersectsToWithin, STRtree_create,
        STRtree_query, STRtree_iterateAndRemove
<1>6. CASE Others
  <2>1. OrientationIndex => Tells
    BY AnswerTells DEF OrientationIndex
  <2> QED
    BY <1>6, <2>1, QueryOnlyTells, GiveTells
    DEF Others, Project, Interpolate, UniquePoints, EmptyGeometries, SharedPaths, Snap,
        createBufferParams, BufferWithParams, Triangulate
<1> QED
  BY <1>1, <1>2, <1>3, <1>4, <1>5, <1>6, ConstructionTells DEF Next

\* A call that fails with a context tells exactly one handler, the one the
\* caller set last, whichever of the two styles of handler it was.
THEOREM FailuresTellTheLatestHandler == Spec => []FailuresAreTold
<1>1. Init => ToldInv
  BY DEF Init, ToldInv, FailuresAreTold
<1>2. ASSUME ToldInv, [Next]_vars PROVE ToldInv'
  <2>1. CASE UNCHANGED vars
    BY <1>2, <2>1 DEF ToldInv, FailuresAreTold, ERROR_MESSAGE, vars
  <2>2. CASE ContextCalls
    <3>1. finishGEOS => ToldInv'
      BY DEF finishGEOS, Context, ToldInv, FailuresAreTold
    <3> QED
      BY <2>2, <3>1, ContextIsSet
      DEF ContextCalls, initGEOS, GEOSContext_setErrorHandler, GEOSContext_setErrorMessageHandler
  <2>3. CASE Next /\ ~ContextCalls
    <3>1. Tells
      BY <2>3, CallsTell
    <3> QED
      BY <1>2, <3>1 DEF Tells, ToldInv, FailuresAreTold, ERROR_MESSAGE, contextVars
  <2> QED
    BY <1>2, <2>1, <2>2, <2>3
<1>3. ToldInv => FailuresAreTold
  BY DEF ToldInv
<1> QED
  BY <1>1, <1>2, <1>3, PTL DEF Spec
=============================================================================
