------------------------------ MODULE Listings ------------------------------
(***************************************************************************)
(* What the proofs about the indexes and the retries share: least elements *)
(* and induction on the naturals, iterations, and lists without repetition *)
(* (their joins, parts and the lists they make when they are flattened).   *)
(***************************************************************************)
EXTENDS Integers, Sequences, SequencesExt, FiniteSets, FiniteSetTheorems, WellFoundedInduction, TLAPS

-----------------------------------------------------------------------------
(* Natural numbers: least elements, induction and iteration.               *)

LEMMA LeastOfNaturals ==
    ASSUME NEW T \in SUBSET Nat, T # {}
    PROVE  \E n \in T : \A m \in T : n <= m
<1> DEFINE R == {ss \in Nat \X Nat : ss[1] < ss[2]}
<1>1. \E x \in T : \A y \in T : ~ (<<y, x>> \in R)
  <2>1. IsWellFoundedOn(R, Nat)
    BY NatLessThanWellFounded DEF OpToRel
  <2> HIDE DEF R
  <2> QED
    BY <2>1, WFMin
<1>2. PICK x \in T : \A y \in T : ~ (<<y, x>> \in R)
  BY <1>1
<1>3. ASSUME NEW y \in T PROVE x <= y
  <2>1. x \in Nat /\ y \in Nat
    OBVIOUS
  <2>2. ~ (<<y, x>> \in R)
    BY <1>2
  <2> QED
    BY <2>1, <2>2
<1> QED
  BY <1>3

LEMMA InductionOnSets ==
    ASSUME NEW S, 0 \in S, \A n \in Nat : n \in S => n + 1 \in S
    PROVE  \A n \in Nat : n \in S
<1> SUFFICES ASSUME Nat \ S # {} PROVE FALSE
  OBVIOUS
<1>1. PICK n \in Nat \ S : \A m \in Nat \ S : n <= m
  BY LeastOfNaturals
<1>2. n # 0 /\ n - 1 \in Nat /\ n - 1 \in S
  BY <1>1
<1> QED
  BY <1>1, <1>2

\* Sequences of iterates: every prefix exists and is unique, so all exist.
Iterates(f, s, F, n) == f[0] = s /\ \A k \in 0..(n - 1) : f[k + 1] = F[f[k]]

LEMMA PrefixOfIterates ==
    ASSUME NEW S, NEW s \in S, NEW F \in [S -> S], NEW n \in Nat
    PROVE  \E f \in [0..n -> S] : Iterates(f, s, F, n)
<1> DEFINE T == {m \in Nat : \E f \in [0..m -> S] : Iterates(f, s, F, m)}
<1>1. 0 \in T
  <2> DEFINE f == [k \in 0..0 |-> s]
  <2>1. f \in [0..0 -> S] /\ Iterates(f, s, F, 0)
    BY DEF Iterates
  <2> QED
    BY <2>1
<1>2. ASSUME NEW m \in Nat, m \in T PROVE m + 1 \in T
  <2>1. PICK f \in [0..m -> S] : Iterates(f, s, F, m)
    BY <1>2
  <2> DEFINE g == [k \in 0..(m + 1) |-> IF k = m + 1 THEN F[f[m]] ELSE f[k]]
  <2>2. g \in [0..(m + 1) -> S]
    OBVIOUS
  <2>3. Iterates(g, s, F, m + 1)
    BY <2>1 DEF Iterates
  <2> QED
    BY <2>2, <2>3
<1>3. \A m \in Nat : m \in T
  <2> HIDE DEF T
  <2> QED
    BY <1>1, <1>2, InductionOnSets
<1> QED
  BY <1>3

LEMMA IteratesAgree ==
    ASSUME NEW S, NEW s \in S, NEW F \in [S -> S], NEW m \in Nat, NEW n \in Nat,
           NEW f \in [0..m -> S], Iterates(f, s, F, m), NEW g \in [0..n -> S], Iterates(g, s, F, n),
           m <= n
    PROVE  \A k \in 0..m : f[k] = g[k]
<1> DEFINE T == {k \in Nat : k <= m => f[k] = g[k]}
<1>1. 0 \in T
  BY DEF Iterates
<1>2. ASSUME NEW k \in Nat, k \in T PROVE k + 1 \in T
  <2> SUFFICES ASSUME k + 1 <= m PROVE f[k + 1] = g[k + 1]
    OBVIOUS
  <2>1. k \in 0..(m - 1) /\ k \in 0..(n - 1)
    OBVIOUS
  <2>2. f[k] = g[k]
    BY <1>2, <2>1
  <2> QED
    BY <2>1, <2>2 DEF Iterates
<1>3. \A k \in Nat : k \in T
  <2> HIDE DEF T
  <2> QED
    BY <1>1, <1>2, InductionOnSets
<1> QED
  BY <1>3

IsIteration(f, s, F) == f = [k \in Nat |-> IF k = 0 THEN s ELSE F[f[k - 1]]]

LEMMA IterationExists ==
    ASSUME NEW S, NEW s \in S, NEW F \in [S -> S]
    PROVE  \E f \in [Nat -> S] : IsIteration(f, s, F)
<1> DEFINE upTo(n) == CHOOSE f \in [0..n -> S] : Iterates(f, s, F, n)
           f == [k \in Nat |-> upTo(k)[k]]
<1>1. ASSUME NEW n \in Nat PROVE upTo(n) \in [0..n -> S] /\ Iterates(upTo(n), s, F, n)
  BY PrefixOfIterates
<1>2. f \in [Nat -> S]
  BY <1>1
<1>3. f[0] = s
  BY <1>1 DEF Iterates
<1>4. ASSUME NEW k \in Nat, k # 0 PROVE f[k] = F[f[k - 1]]
  <2> DEFINE n == k - 1
  <2>1. n \in Nat /\ k = n + 1 /\ n <= k /\ n \in 0..n /\ n \in 0..(k - 1)
    BY <1>4
  <2>2. upTo(n)[n] = upTo(k)[n]
    <3> DEFINE a == upTo(n)
               b == upTo(k)
    <3>1. a \in [0..n -> S] /\ Iterates(a, s, F, n) /\ b \in [0..k -> S] /\ Iterates(b, s, F, k)
      BY <1>1, <2>1
    <3> HIDE DEF a, b, upTo, n
    <3>2. n \in Nat /\ n <= k
      BY <2>1
    <3>3. \A j \in 0..n : a[j] = b[j]
      BY <3>1, <3>2, IteratesAgree
    <3>4. a[n] = b[n]
      BY <3>3, <2>1
    <3> QED
      BY <3>4 DEF a, b
  <2>3. upTo(k)[k] = F[upTo(k)[n]]
    BY <1>1, <2>1 DEF Iterates
  <2> QED
    BY <2>1, <2>2, <2>3
<1> HIDE DEF f
<1>5. f = [k \in Nat |-> IF k = 0 THEN s ELSE F[f[k - 1]]]
  <2> DEFINE g == [k \in Nat |-> IF k = 0 THEN s ELSE F[f[k - 1]]]
  <2>1. \A k \in Nat : f[k] = g[k]
    BY <1>3, <1>4
  <2>2. f = [k \in Nat |-> f[k]]
    BY <1>2
  <2> QED
    BY <2>1, <2>2
<1> QED
  BY <1>2, <1>5 DEF IsIteration

\* The image of a finite set is finite.
LEMMA ImageIsFinite ==
    ASSUME NEW D, IsFiniteSet(D), NEW f
    PROVE  IsFiniteSet({f[x] : x \in D})
<1> DEFINE T == {f[x] : x \in D}
           g == [x \in D |-> f[x]]
<1>1. g \in Surjection(D, T)
  BY DEF Surjection
<1> HIDE DEF g, T
<1>2. IsFiniteSet(T)
  BY <1>1, FS_Surjection
<1> QED
  BY <1>2 DEF T

-----------------------------------------------------------------------------
(* Lists without repetition.                                               *)

\* A list of members of T, each once.
Listing(s, T) == s \in Seq(T) /\ IsInjective(s)

LEMMA ListingsJoin ==
    ASSUME NEW T, NEW s, Listing(s, T), NEW t, Listing(t, T), ToSet(s) \cap ToSet(t) = {}
    PROVE  Listing(s \o t, T) /\ ToSet(s \o t) = ToSet(s) \cup ToSet(t)
<1> DEFINE r == s \o t
           m == Len(s)
           n == Len(t)
<1>1. /\ s \in Seq(T) /\ t \in Seq(T) /\ m \in Nat /\ n \in Nat
      /\ DOMAIN s = 1..m /\ DOMAIN t = 1..n
  BY DEF Listing
<1>2. /\ r \in Seq(T) /\ Len(r) = m + n /\ DOMAIN r = 1..(m + n)
      /\ \A i \in 1..(m + n) : r[i] = IF i <= m THEN s[i] ELSE t[i - m]
  BY <1>1
<1> HIDE DEF r, m, n
<1>3. ToSet(r) = ToSet(s) \cup ToSet(t)
  <2>1. ASSUME NEW x \in ToSet(r) PROVE x \in ToSet(s) \cup ToSet(t)
    <3>1. PICK i \in 1..(m + n) : x = r[i]
      BY <1>2 DEF ToSet
    <3>2. CASE i <= m
      BY <1>1, <1>2, <3>1, <3>2 DEF ToSet
    <3>3. CASE ~(i <= m)
      <4>1. i - m \in 1..n /\ x = t[i - m]
        BY <1>1, <1>2, <3>1, <3>3
      <4> QED
        BY <1>1, <4>1 DEF ToSet
    <3> QED
      BY <3>2, <3>3
  <2>2. ASSUME NEW x \in ToSet(s) PROVE x \in ToSet(r)
    <3>1. PICK i \in 1..m : x = s[i]
      BY <1>1 DEF ToSet
    <3>2. i \in 1..(m + n) /\ x = r[i]
      BY <1>1, <1>2, <3>1
    <3> QED
      BY <1>2, <3>2 DEF ToSet
  <2>3. ASSUME NEW x \in ToSet(t) PROVE x \in ToSet(r)
    <3>1. PICK i \in 1..n : x = t[i]
      BY <1>1 DEF ToSet
    <3>2. i + m \in 1..(m + n) /\ x = r[i + m]
      BY <1>1, <1>2, <3>1
    <3> QED
      BY <1>2, <3>2 DEF ToSet
  <2> QED
    BY <2>1, <2>2, <2>3
<1>4. ASSUME NEW i \in 1..(m + n), NEW j \in 1..(m + n), r[i] = r[j] PROVE i = j
  <2>1. \A a, b \in 1..m : s[a] = s[b] => a = b
    BY <1>1 DEF Listing, IsInjective
  <2>2. \A a, b \in 1..n : t[a] = t[b] => a = b
    BY <1>1 DEF Listing, IsInjective
  <2>3. \A a \in 1..m, b \in 1..n : s[a] # t[b]
    BY <1>1 DEF ToSet
  <2>4. CASE i <= m /\ j <= m
    BY <1>1, <1>2, <1>4, <2>1, <2>4
  <2>5. CASE i <= m /\ ~(j <= m)
    <3>1. j - m \in 1..n /\ i \in 1..m
      BY <1>1, <2>5
    <3> QED
      BY <1>1, <1>2, <1>4, <2>3, <2>5, <3>1
  <2>6. CASE ~(i <= m) /\ j <= m
    <3>1. i - m \in 1..n /\ j \in 1..m
      BY <1>1, <2>6
    <3> QED
      BY <1>1, <1>2, <1>4, <2>3, <2>6, <3>1
  <2>7. CASE ~(i <= m) /\ ~(j <= m)
    <3>1. i - m \in 1..n /\ j - m \in 1..n
      BY <1>1, <2>7
    <3>2. i - m = j - m
      BY <1>2, <1>4, <2>2, <2>7, <3>1
    <3> QED
      BY <1>1, <3>2
  <2> QED
    BY <2>4, <2>5, <2>6, <2>7
<1> QED
  BY <1>2, <1>3, <1>4 DEF Listing, IsInjective, r

LEMMA ListingGrows ==
    ASSUME NEW T, NEW s, Listing(s, T), NEW x \in T, x \notin ToSet(s)
    PROVE  Listing(Append(s, x), T) /\ ToSet(Append(s, x)) = ToSet(s) \cup {x}
<1>1. Listing(<<x>>, T) /\ ToSet(<<x>>) = {x}
  BY DEF Listing, IsInjective, ToSet
<1>2. Append(s, x) = s \o <<x>>
  BY DEF Listing
<1> QED
  BY <1>1, <1>2, ListingsJoin

\* Lists of which no two share a member.
Apart(seqs, T) == /\ seqs \in Seq(Seq(T))
                  /\ \A i \in 1..Len(seqs) : Listing(seqs[i], T)
                  /\ \A i, j \in 1..Len(seqs) : i # j => ToSet(seqs[i]) \cap ToSet(seqs[j]) = {}

\* The recursion of FlattenSeq.
Flattens(f, seqs) == f = [i \in 1..Len(seqs) |-> IF i = 1 THEN seqs[i] ELSE f[i - 1] \o seqs[i]]

\* The same up to m.
FlattensTo(f, seqs, m) == f[1] = seqs[1] /\ \A i \in 1..(m - 1) : f[i + 1] = f[i] \o seqs[i + 1]

LEMMA FlatteningExists ==
    ASSUME NEW T, NEW seqs \in Seq(Seq(T)), Len(seqs) > 0
    PROVE  \E f \in [1..Len(seqs) -> Seq(T)] : Flattens(f, seqs)
<1> DEFINE n == Len(seqs)
           S == Seq(T)
           P == {m \in Nat : m < n => \E f \in [1..(m + 1) -> S] : FlattensTo(f, seqs, m + 1)}
<1>1. n \in Nat \ {0} /\ \A i \in 1..n : seqs[i] \in S
  OBVIOUS
<1>2. 0 \in P
  <2> DEFINE f == [i \in 1..(0 + 1) |-> seqs[1]]
  <2>1. f \in [1..(0 + 1) -> S] /\ f[1] = seqs[1]
    BY <1>1
  <2> HIDE DEF f
  <2>2. 1..((0 + 1) - 1) = {}
    OBVIOUS
  <2>3. FlattensTo(f, seqs, 0 + 1)
    BY <2>1, <2>2 DEF FlattensTo
  <2> HIDE DEF S, n
  <2> QED
    BY <2>1, <2>3
<1>3. ASSUME NEW m \in Nat, m \in P PROVE m + 1 \in P
  <2> DEFINE k == m + 1
  <2> SUFFICES ASSUME k < n PROVE \E f \in [1..(k + 1) -> S] : FlattensTo(f, seqs, k + 1)
    OBVIOUS
  <2>1. k \in Nat \ {0} /\ m < n /\ k + 1 \in 1..n
    BY <1>1
  <2>2. PICK f \in [1..k -> S] : FlattensTo(f, seqs, k)
    BY <1>3, <2>1
  <2> HIDE DEF k
  <2>3. f[k] \in S /\ seqs[k + 1] \in S
    BY <1>1, <2>1
  <2> DEFINE last == f[k] \o seqs[k + 1]
             g == [i \in 1..(k + 1) |-> IF i = k + 1 THEN last ELSE f[i]]
  <2>4. last \in S
    BY <2>3
  <2>9. last = f[k] \o seqs[k + 1]
    OBVIOUS
  <2> HIDE DEF S, last
  <2>5. g \in [1..(k + 1) -> S]
    BY <2>1, <2>2, <2>4
  <2>6. \A i \in 1..k : g[i] = f[i]
    BY <2>1
  <2>7. g[k + 1] = last
    BY <2>1
  <2> HIDE DEF g
  <2>8. FlattensTo(g, seqs, k + 1)
    <3>1. g[1] = seqs[1]
      BY <2>1, <2>2, <2>6 DEF FlattensTo
    <3>2. ASSUME NEW i \in 1..((k + 1) - 1) PROVE g[i + 1] = g[i] \o seqs[i + 1]
      <4>1. CASE i = k
        <5>1. g[k] = f[k]
          BY <2>1, <2>6
        <5>2. g[k + 1] = g[k] \o seqs[k + 1]
          BY <2>9, <2>7, <5>1
        <5> QED
          BY <4>1, <5>2
      <4>2. CASE i # k
        <5>1. i \in 1..(k - 1) /\ i \in 1..k /\ i + 1 \in 1..k
          BY <2>1, <4>2
        <5>2. f[i + 1] = f[i] \o seqs[i + 1]
          BY <2>2, <5>1 DEF FlattensTo
        <5> QED
          BY <2>6, <5>1, <5>2
      <4> QED
        BY <4>1, <4>2
    <3> QED
      BY <3>1, <3>2 DEF FlattensTo
  <2> QED
    BY <2>5, <2>8
<1>4. \A m \in Nat : m \in P
  <2> HIDE DEF P
  <2> QED
    BY <1>2, <1>3, InductionOnSets
<1>5. PICK f \in [1..n -> S] : FlattensTo(f, seqs, n)
  <2>1. n - 1 \in Nat /\ (n - 1) + 1 = n /\ n - 1 < n
    BY <1>1
  <2> HIDE DEF n, S
  <2> QED
    BY <1>4, <2>1
<1>6. ASSUME NEW i \in 1..n PROVE f[i] = IF i = 1 THEN seqs[i] ELSE f[i - 1] \o seqs[i]
  <2>1. CASE i = 1
    BY <1>5, <2>1 DEF FlattensTo
  <2>2. CASE i # 1
    <3> DEFINE k == i - 1
    <3>1. k \in 1..(n - 1) /\ k + 1 = i
      BY <1>1, <2>2
    <3>2. f[k + 1] = f[k] \o seqs[k + 1]
      BY <1>5, <3>1 DEF FlattensTo
    <3> QED
      BY <2>2, <3>1, <3>2
  <2> QED
    BY <2>1, <2>2
<1>7. f = [i \in 1..n |-> f[i]]
  OBVIOUS
<1>8. f = [i \in 1..n |-> IF i = 1 THEN seqs[i] ELSE f[i - 1] \o seqs[i]]
  BY <1>6, <1>7
<1> QED
  BY <1>8 DEF Flattens

\* What the first i lists hold.
HeldBy(seqs, i) == UNION {ToSet(seqs[j]) : j \in 1..i}

LEMMA FlattenHolds ==
    ASSUME NEW T, NEW seqs, Apart(seqs, T)
    PROVE  /\ Listing(FlattenSeq(seqs), T)
           /\ ToSet(FlattenSeq(seqs)) = HeldBy(seqs, Len(seqs))
<1> DEFINE n == Len(seqs)
<1>1. seqs \in Seq(Seq(T)) /\ n \in Nat /\ \A i \in 1..n : Listing(seqs[i], T)
  BY DEF Apart
<1>2. CASE n = 0
  <2>1. FlattenSeq(seqs) = seqs /\ seqs = <<>>
    BY <1>1, <1>2 DEF FlattenSeq
  <2>2. Listing(<<>>, T) /\ ToSet(<<>>) = {}
    BY DEF Listing, IsInjective, ToSet
  <2>3. HeldBy(seqs, n) = {}
    BY <1>2 DEF HeldBy
  <2> QED
    BY <2>1, <2>2, <2>3
<1>3. CASE n # 0
  <2> DEFINE f == CHOOSE g : Flattens(g, seqs)
  <2>1. Flattens(f, seqs)
    BY <1>1, <1>3, FlatteningExists
  <2>2. FlattenSeq(seqs) = f[n]
    BY <1>3 DEF FlattenSeq, Flattens
  <2> HIDE DEF f
  <2>3. \A i \in 1..n : f[i] = IF i = 1 THEN seqs[i] ELSE f[i - 1] \o seqs[i]
    BY <2>1 DEF Flattens
  <2> HIDE DEF n
  <2> DEFINE P == {i \in Nat : i + 1 <= n => Listing(f[i + 1], T) /\ ToSet(f[i + 1]) = HeldBy(seqs, i + 1)}
  <2>4. 0 \in P
    <3>1. f[1] = seqs[1] /\ 1 \in 1..n
      BY <1>1, <1>3, <2>3
    <3>2. HeldBy(seqs, 1) = ToSet(seqs[1])
      BY DEF HeldBy
    <3>3. 0 + 1 = 1 /\ Listing(seqs[1], T)
      BY <1>1, <3>1
    <3> QED
      BY <3>1, <3>2, <3>3
  <2>5. ASSUME NEW i \in Nat, i \in P PROVE i + 1 \in P
    <3> DEFINE k == i + 1
    <3> SUFFICES ASSUME k + 1 <= n PROVE Listing(f[k + 1], T) /\ ToSet(f[k + 1]) = HeldBy(seqs, k + 1)
      OBVIOUS
    <3>1. k \in Nat \ {0} /\ k \in 1..n /\ k + 1 \in 1..n /\ k + 1 # 1 /\ (k + 1) - 1 = k /\ k <= n
      BY <1>1
    <3>2. Listing(f[k], T) /\ ToSet(f[k]) = HeldBy(seqs, k)
      BY <2>5, <3>1
    <3> HIDE DEF k
    <3>3. f[k + 1] = f[k] \o seqs[k + 1]
      BY <2>3, <3>1
    <3>4. HeldBy(seqs, k) \cap ToSet(seqs[k + 1]) = {}
      <4>1. ASSUME NEW j \in 1..k PROVE ToSet(seqs[j]) \cap ToSet(seqs[k + 1]) = {}
        <5>1. j \in 1..n /\ j # k + 1
          BY <1>1, <3>1
        <5> QED
          BY <3>1, <5>1 DEF Apart, n
      <4> QED
        BY <4>1 DEF HeldBy
    <3>5. HeldBy(seqs, k + 1) = HeldBy(seqs, k) \cup ToSet(seqs[k + 1])
      <4>1. 1..(k + 1) = (1..k) \cup {k + 1}
        BY <3>1
      <4> QED
        BY <4>1 DEF HeldBy
    <3>6. Listing(seqs[k + 1], T)
      BY <1>1, <3>1
    <3>7. /\ Listing(f[k] \o seqs[k + 1], T)
          /\ ToSet(f[k] \o seqs[k + 1]) = ToSet(f[k]) \cup ToSet(seqs[k + 1])
      BY <3>2, <3>4, <3>6, ListingsJoin
    <3> QED
      BY <3>2, <3>3, <3>5, <3>7
  <2>6. \A i \in Nat : i \in P
    <3> HIDE DEF P
    <3> QED
      BY <2>4, <2>5, InductionOnSets
  <2>7. n - 1 \in Nat /\ (n - 1) + 1 = n
    BY <1>1, <1>3
  <2>8. Listing(f[n], T) /\ ToSet(f[n]) = HeldBy(seqs, n)
    BY <2>6, <2>7
  <2> QED
    BY <2>2, <2>8 DEF n
<1> QED
  BY <1>2, <1>3

\* SetToSeq lists a finite set.
LEMMA SetsBecomeLists ==
    ASSUME NEW S, IsFiniteSet(S)
    PROVE  Listing(SetToSeq(S), S) /\ ToSet(SetToSeq(S)) = S
<1> DEFINE s == SetToSeq(S)
           n == Cardinality(S)
<1>1. n \in Nat
  BY FS_CardinalityType
<1>2. \E f \in [1..n -> S] : IsInjective(f)
  <2>1. PICK m \in Nat : ExistsBijection(1..m, S)
    BY FS_NatBijection
  <2>2. m = n
    BY <2>1, FS_CountingElements
  <2> QED
    BY <2>1, <2>2 DEF ExistsBijection, Bijection, Injection
<1>3. s \in [1..n -> S] /\ IsInjective(s)
  BY <1>2 DEF SetToSeq
<1> HIDE DEF s
<1>4. Cardinality(1..n) = n
  BY <1>1, FS_Interval
<1> HIDE DEF n
<1>5. s \in Injection(1..n, S)
  BY <1>3 DEF Injection
<1>6. s \in Surjection(1..n, S)
  BY <1>4, <1>5, FS_Injection DEF n
<1>7. ToSet(s) = S
  BY <1>3, <1>6 DEF Surjection, ToSet
<1>8. s \in Seq(S)
  BY <1>1, <1>3
<1> QED
  BY <1>3, <1>7, <1>8 DEF Listing, s

LEMMA PartOfAListing ==
    ASSUME NEW T, NEW s, Listing(s, T), NEW a \in Nat \ {0}, NEW b \in 0..Len(s)
    PROVE  Listing(SubSeq(s, a, b), T) /\ ToSet(SubSeq(s, a, b)) = {s[i] : i \in a..b}
<1> DEFINE r == SubSeq(s, a, b)
           n == IF a <= b THEN b - a + 1 ELSE 0
<1>1. s \in Seq(T) /\ Len(s) \in Nat /\ DOMAIN s = 1..Len(s)
  BY DEF Listing
<1>2. b \in Nat /\ b <= Len(s)
  BY <1>1
<1>3. n \in Nat /\ r \in Seq(T) /\ Len(r) = n /\ DOMAIN r = 1..n
  BY <1>1, <1>2
<1>4. \A i \in 1..n : i + (a - 1) \in a..b /\ i + (a - 1) \in 1..Len(s) /\ r[i] = s[i + (a - 1)]
  BY <1>1, <1>2
<1> HIDE DEF r
<1>5. \A i \in a..b : i - (a - 1) \in 1..n /\ (i - (a - 1)) + (a - 1) = i
  BY <1>2
<1> HIDE DEF n
<1>6. ToSet(r) = {s[i] : i \in a..b}
  <2>1. ASSUME NEW x \in ToSet(r) PROVE \E i \in a..b : x = s[i]
    BY <1>3, <1>4 DEF ToSet
  <2>2. ASSUME NEW i \in a..b PROVE s[i] \in ToSet(r)
    <3> DEFINE k == i - (a - 1)
    <3>1. k \in 1..n /\ k + (a - 1) = i
      BY <1>5
    <3> HIDE DEF k
    <3>2. r[k] = s[i]
      BY <1>4, <3>1
    <3> QED
      BY <1>3, <3>1, <3>2 DEF ToSet
  <2> QED
    BY <2>1, <2>2
<1>7. ASSUME NEW i \in 1..n, NEW j \in 1..n, r[i] = r[j] PROVE i = j
  <2>1. i + (a - 1) = j + (a - 1)
    BY <1>1, <1>4, <1>7 DEF Listing, IsInjective
  <2> QED
    BY <1>3, <2>1
<1> QED
  BY <1>3, <1>6, <1>7 DEF Listing, IsInjective, r

LEMMA RemoveAtHolds ==
    ASSUME NEW T, NEW s, Listing(s, T), NEW k \in 1..Len(s)
    PROVE  Listing(RemoveAt(s, k), T) /\ ToSet(RemoveAt(s, k)) = ToSet(s) \ {s[k]}
<1> DEFINE n == Len(s)
           a == SubSeq(s, 1, k - 1)
           b == SubSeq(s, k + 1, n)
<1>1. /\ s \in Seq(T) /\ n \in Nat /\ DOMAIN s = 1..n /\ k \in Nat
      /\ \A i, j \in 1..n : s[i] = s[j] => i = j
  BY DEF Listing, IsInjective
<1>2. k - 1 \in 0..n /\ k + 1 \in Nat \ {0} /\ n \in 0..n /\ 1 \in Nat \ {0}
  BY <1>1
<1>3. Listing(a, T) /\ ToSet(a) = {s[i] : i \in 1..(k - 1)}
  BY <1>2, PartOfAListing
<1>4. Listing(b, T) /\ ToSet(b) = {s[i] : i \in (k + 1)..n}
  BY <1>2, PartOfAListing
<1>5. RemoveAt(s, k) = a \o b
  BY DEF RemoveAt
<1> HIDE DEF a, b, n
<1>6. \A i \in 1..(k - 1) : i \in 1..n /\ i # k
  BY <1>1 DEF n
<1>7. \A i \in (k + 1)..n : i \in 1..n /\ i # k
  BY <1>1
<1>8. ToSet(a) \cap ToSet(b) = {}
  <2>1. \A i \in 1..(k - 1) : \A j \in (k + 1)..n : i # j
    BY <1>1
  <2> QED
    BY <1>1, <1>3, <1>4, <1>6, <1>7, <2>1
<1>9. ToSet(a) \cup ToSet(b) = ToSet(s) \ {s[k]}
  <2>1. \A i \in 1..n : i # k => i \in 1..(k - 1) \/ i \in (k + 1)..n
    BY <1>1
  <2>2. k \in 1..n
    BY DEF n
  <2>3. ToSet(s) = {s[i] : i \in 1..n}
    BY <1>1 DEF ToSet
  <2> QED
    BY <1>1, <1>3, <1>4, <1>6, <1>7, <2>1, <2>2, <2>3
<1>10. Listing(a \o b, T) /\ ToSet(a \o b) = ToSet(a) \cup ToSet(b)
  BY <1>3, <1>4, <1>8, ListingsJoin
<1> QED
  BY <1>5, <1>9, <1>10
=============================================================================
