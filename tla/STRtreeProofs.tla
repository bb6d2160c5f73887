---------------------------- MODULE STRtreeProofs ---------------------------
(***************************************************************************)
(* Proof that STRtree implements SpatialIndex, for any entries, any node   *)
(* capacity and any order of the calls.                                    *)
(***************************************************************************)
EXTENDS STRtree, Listings

-----------------------------------------------------------------------------
(* Parts of lists.                                                         *)

LEMMA OnlyHolds ==
    ASSUME NEW U, NEW s, Listing(s, U), NEW S
    PROVE  Listing(only(s, S), U) /\ ToSet(only(s, S)) = ToSet(s) \cap S
<1> DEFINE n == Len(s)
           seqs == [i \in DOMAIN s |-> IF s[i] \in S THEN <<s[i]>> ELSE <<>>]
<1>1. /\ s \in Seq(U) /\ n \in Nat /\ DOMAIN s = 1..n
      /\ \A i \in 1..n : s[i] \in U
      /\ \A i, j \in 1..n : s[i] = s[j] => i = j
  BY DEF Listing, IsInjective
<1>2. ASSUME NEW x \in U PROVE Listing(<<x>>, U) /\ ToSet(<<x>>) = {x}
  BY DEF Listing, IsInjective, ToSet
<1>3. Listing(<<>>, U) /\ ToSet(<<>>) = {}
  BY DEF Listing, IsInjective, ToSet
<1>4. ASSUME NEW i \in 1..n
      PROVE  /\ Listing(seqs[i], U) /\ seqs[i] \in Seq(U)
             /\ ToSet(seqs[i]) = IF s[i] \in S THEN {s[i]} ELSE {}
  <2>1. s[i] \in U
    BY <1>1
  <2>2. seqs[i] = IF s[i] \in S THEN <<s[i]>> ELSE <<>>
    BY <1>1
  <2> HIDE DEF seqs
  <2> QED
    BY <1>2, <1>3, <2>1, <2>2 DEF Listing
<1>5. seqs \in Seq(Seq(U)) /\ Len(seqs) = n
  <2>1. \A i \in 1..n : (IF s[i] \in S THEN <<s[i]>> ELSE <<>>) \in Seq(U)
    BY <1>1
  <2>2. seqs \in [1..n -> Seq(U)]
    BY <1>1, <2>1
  <2> HIDE DEF seqs
  <2> QED
    BY <1>1, <2>2
<1>6. only(s, S) = FlattenSeq(seqs)
  BY DEF only
<1> HIDE DEF seqs, n
<1>7. Apart(seqs, U)
  <2>1. ASSUME NEW i \in 1..n, NEW j \in 1..n, i # j PROVE ToSet(seqs[i]) \cap ToSet(seqs[j]) = {}
    <3>1. s[i] # s[j]
      BY <1>1, <2>1
    <3>2. ToSet(seqs[i]) \subseteq {s[i]} /\ ToSet(seqs[j]) \subseteq {s[j]}
      BY <1>4
    <3> QED
      BY <3>1, <3>2
  <2>2. \A i \in 1..n : Listing(seqs[i], U)
    BY <1>4
  <2> QED
    BY <1>5, <2>1, <2>2 DEF Apart
<1>8. Listing(FlattenSeq(seqs), U) /\ ToSet(FlattenSeq(seqs)) = HeldBy(seqs, n)
  BY <1>5, <1>7, FlattenHolds
<1>9. HeldBy(seqs, n) = ToSet(s) \cap S
  <2>1. ToSet(s) = {s[i] : i \in 1..n}
    BY <1>1 DEF ToSet
  <2> QED
    BY <1>4, <2>1 DEF HeldBy
<1> QED
  BY <1>6, <1>8, <1>9

\* std::sort gives the same boundables in another order.
LEMMA SeqsOfSets ==
    ASSUME NEW S, IsFiniteSet(S), NEW s \in SetToSeqs(S)
    PROVE  Listing(s, S) /\ ToSet(s) = S
<1> DEFINE n == Cardinality(S)
<1>1. n \in Nat
  BY FS_CardinalityType
<1>2. s \in [1..n -> S] /\ \A i, j \in 1..n : i # j => s[i] # s[j]
  BY DEF SetToSeqs
<1>3. Cardinality(1..n) = n
  BY <1>1, FS_Interval
<1> HIDE DEF n
<1>4. s \in Injection(1..n, S)
  BY <1>2 DEF Injection, IsInjective
<1>5. s \in Surjection(1..n, S)
  BY <1>3, <1>4, FS_Injection DEF n
<1>6. ToSet(s) = S
  BY <1>2, <1>5 DEF Surjection, ToSet
<1>7. s \in Seq(S)
  BY <1>1, <1>2
<1> QED
  BY <1>2, <1>6, <1>7 DEF Listing, IsInjective

\* A list cut at the places c[0] <= c[1] <= ... <= c[m], from its start to its end.
Cuts(c, m, n) == /\ c \in [0..m -> Nat] /\ c[0] = 0 /\ c[m] = n
                 /\ \A i, j \in 0..m : i <= j => c[i] <= c[j]

PiecesOf(s, c, m) == [i \in 1..m |-> SubSeq(s, c[i - 1] + 1, c[i])]

LEMMA CutHolds ==
    ASSUME NEW U, NEW s, Listing(s, U), NEW m \in Nat \ {0}, NEW c, Cuts(c, m, Len(s))
    PROVE  /\ Apart(PiecesOf(s, c, m), U) /\ Len(PiecesOf(s, c, m)) = m
           /\ HeldBy(PiecesOf(s, c, m), m) = ToSet(s)
           /\ \A i \in 1..m : c[i - 1] < c[i] => PiecesOf(s, c, m)[i] # <<>>
<1> DEFINE n == Len(s)
           pieces == PiecesOf(s, c, m)
           part(i) == (c[i - 1] + 1)..c[i]
<1>1. /\ s \in Seq(U) /\ n \in Nat /\ DOMAIN s = 1..n
      /\ \A i, j \in 1..n : s[i] = s[j] => i = j
  BY DEF Listing, IsInjective
<1>2. /\ c \in [0..m -> Nat] /\ c[0] = 0 /\ c[m] = n
      /\ \A i, j \in 0..m : i <= j => c[i] <= c[j]
  BY DEF Cuts
<1>3. ASSUME NEW i \in 1..m
      PROVE  /\ i - 1 \in 0..m /\ i \in 0..m /\ c[i - 1] \in Nat /\ c[i] \in Nat
             /\ c[i - 1] <= c[i] /\ c[i] <= n
  <2>1. i - 1 \in 0..m /\ i \in 0..m /\ i - 1 <= i /\ m \in 0..m /\ i <= m
    OBVIOUS
  <2> QED
    BY <1>2, <2>1
<1>4. /\ \A i \in 1..m : pieces[i] = SubSeq(s, c[i - 1] + 1, c[i])
      /\ pieces = [i \in 1..m |-> pieces[i]]
  BY DEF PiecesOf
<1> HIDE DEF n, pieces
<1>5. ASSUME NEW i \in 1..m PROVE Listing(pieces[i], U) /\ ToSet(pieces[i]) = {s[x] : x \in part(i)}
  <2> DEFINE a == c[i - 1] + 1
             b == c[i]
  <2>1. a \in Nat \ {0} /\ b \in 0..Len(s)
    BY <1>1, <1>3 DEF n
  <2>2. pieces[i] = SubSeq(s, a, b)
    BY <1>4
  <2>3. part(i) = a..b
    OBVIOUS
  <2> HIDE DEF a, b, part
  <2>4. Listing(SubSeq(s, a, b), U) /\ ToSet(SubSeq(s, a, b)) = {s[x] : x \in a..b}
    BY <2>1, PartOfAListing
  <2> QED
    BY <2>2, <2>3, <2>4
<1>6. pieces \in Seq(Seq(U)) /\ Len(pieces) = m
  <2>1. \A i \in 1..m : pieces[i] \in Seq(U)
    BY <1>5 DEF Listing
  <2>2. pieces \in [1..m -> Seq(U)]
    BY <1>4, <2>1
  <2> QED
    BY <2>2
<1>7. ASSUME NEW i \in 1..m, NEW x \in part(i) PROVE x \in 1..n /\ x >= c[i - 1] + 1 /\ x <= c[i]
  BY <1>1, <1>3
<1>8. ASSUME NEW i \in 1..m, NEW j \in 1..m, i < j, NEW x \in part(i), NEW y \in part(j)
      PROVE  s[x] # s[y]
  <2>1. i \in 0..m /\ j - 1 \in 0..m /\ i <= j - 1
    BY <1>8
  <2>2. c[i] <= c[j - 1] /\ c[i] \in Nat /\ c[j - 1] \in Nat
    BY <1>2, <2>1
  <2>3. x \in 1..n /\ x <= c[i] /\ y \in 1..n /\ y >= c[j - 1] + 1
    BY <1>7
  <2>4. x # y
    BY <1>1, <2>2, <2>3
  <2> QED
    BY <1>1, <2>3, <2>4
<1> HIDE DEF part
<1>9. ASSUME NEW i \in 1..m, NEW j \in 1..m, i # j PROVE ToSet(pieces[i]) \cap ToSet(pieces[j]) = {}
  <2>1. i < j \/ j < i
    BY <1>9
  <2>2. ASSUME NEW z \in ToSet(pieces[i]) \cap ToSet(pieces[j]) PROVE FALSE
    <3>1. PICK x \in part(i) : z = s[x]
      BY <1>5
    <3>2. PICK y \in part(j) : z = s[y]
      BY <1>5
    <3> QED
      BY <1>8, <2>1, <3>1, <3>2
  <2> QED
    BY <2>2
<1>10. Apart(pieces, U)
  BY <1>5, <1>6, <1>9 DEF Apart
<1>11. HeldBy(pieces, m) = ToSet(s)
  <2>1. ToSet(s) = {s[x] : x \in 1..n}
    BY <1>1 DEF ToSet
  <2>2. ASSUME NEW x \in 1..n PROVE \E i \in 1..m : x \in part(i)
    <3> DEFINE above == {i \in 0..m : x <= c[i]}
    <3>1. above \in SUBSET Nat /\ above # {}
      <4>1. m \in above
        BY <1>1, <1>2
      <4> QED
        BY <4>1
    <3>2. PICK i \in above : \A j \in above : i <= j
      <4> HIDE DEF above
      <4> QED
        BY <3>1, LeastOfNaturals
    <3>3. i \in 0..m /\ x <= c[i]
      BY <3>2
    <3>4. i # 0
      BY <1>1, <1>2, <3>3
    <3>5. i \in 1..m /\ i - 1 \in 0..m
      BY <3>3, <3>4
    <3>6. ~(x <= c[i - 1])
      <4>1. i - 1 \notin above
        BY <3>2, <3>5
      <4> QED
        BY <3>5, <4>1
    <3>7. c[i - 1] \in Nat /\ c[i] \in Nat
      BY <1>3, <3>5
    <3>8. x \in part(i)
      BY <1>1, <3>3, <3>6, <3>7 DEF part
    <3> QED
      BY <3>5, <3>8
  <2>3. ASSUME NEW y \in HeldBy(pieces, m) PROVE y \in ToSet(s)
    <3>1. PICK i \in 1..m : y \in ToSet(pieces[i])
      BY DEF HeldBy
    <3>2. PICK x \in part(i) : y = s[x]
      BY <1>5, <3>1
    <3> QED
      BY <1>7, <2>1, <3>2
  <2>4. ASSUME NEW x \in 1..n PROVE s[x] \in HeldBy(pieces, m)
    <3>1. PICK i \in 1..m : x \in part(i)
      BY <2>2
    <3>2. s[x] \in ToSet(pieces[i])
      BY <1>5, <3>1
    <3> QED
      BY <3>2 DEF HeldBy
  <2> QED
    BY <2>1, <2>3, <2>4
<1>12. ASSUME NEW i \in 1..m, c[i - 1] < c[i] PROVE pieces[i] # <<>>
  <2>1. c[i] \in part(i)
    BY <1>3, <1>12 DEF part
  <2>2. s[c[i]] \in ToSet(pieces[i])
    BY <1>5, <2>1
  <2> QED
    BY <2>2 DEF ToSet
<1> QED
  BY <1>6, <1>10, <1>11, <1>12 DEF pieces

-----------------------------------------------------------------------------
(* Packing: what is cut where.                                             *)

LEMMA DivisionRoundsUp ==
    ASSUME NEW a \in Nat, NEW b \in Nat \ {0}
    PROVE  /\ ceilDiv(a, b) \in Nat /\ a <= ceilDiv(a, b) * b
           /\ a > 0 => ceilDiv(a, b) > 0 /\ (ceilDiv(a, b) - 1) * b < a
           /\ ceilDiv(a, b) <= a
<1> DEFINE q == ceilDiv(a, b)
           r == (a + b - 1) % b
<1>1. q \in Int /\ r \in 0..(b - 1) /\ a + b - 1 = b * q + r
  BY DEF ceilDiv
<1> HIDE DEF q, r
<1>2. q >= 0
  <2> SUFFICES ASSUME q <= -1 PROVE FALSE
    BY <1>1
  <2>1. b * q <= -b
    BY <1>1
  <2> QED
    BY <1>1, <2>1
<1>3. a <= q * b /\ (q - 1) * b < a
  BY <1>1
<1>4. a > 0 => q > 0
  BY <1>1, <1>2, <1>3
<1>5. q <= a
  <2> SUFFICES ASSUME q >= a + 1 PROVE FALSE
    BY <1>1
  <2>1. (q - 1) * b >= a * b
    BY <1>1
  <2>2. a * b >= a
    OBVIOUS
  <2> QED
    BY <1>1, <1>3, <2>1, <2>2
<1> QED
  BY <1>1, <1>2, <1>3, <1>4, <1>5 DEF q

LEMMA RootRoundsUp ==
    ASSUME NEW n \in Nat \ {0}
    PROVE  /\ ceilSqrt(n) \in Nat \ {0}
           /\ (ceilSqrt(n) - 1) * (ceilSqrt(n) - 1) < n
<1> DEFINE T == {r \in Nat : r * r >= n}
           smallest(r) == r \in 0..n /\ r * r >= n /\ \A q \in 0..(r - 1) : q * q < n
<1>1. n \in T
  <2>1. n * n >= n
    OBVIOUS
  <2> QED
    BY <2>1
<1>2. PICK r \in T : \A q \in T : r <= q
  <2>1. T \in SUBSET Nat /\ T # {}
    BY <1>1
  <2> HIDE DEF T
  <2> QED
    BY <2>1, LeastOfNaturals
<1>3. smallest(r)
  <2>1. r \in 0..n /\ r * r >= n
    BY <1>1, <1>2
  <2>2. ASSUME NEW q \in 0..(r - 1) PROVE q * q < n
    <3>1. q \in Nat /\ q \notin T
      BY <1>2, <2>1
    <3>2. q * q \in Nat
      BY <3>1
    <3> QED
      BY <3>1, <3>2
  <2> QED
    BY <2>1, <2>2
<1> DEFINE c == ceilSqrt(n)
<1>4. c \in 0..n /\ c * c >= n /\ \A q \in 0..(c - 1) : q * q < n
  <2>1. \E x \in 0..n : x * x >= n /\ \A q \in 0..(x - 1) : q * q < n
    BY <1>3
  <2> QED
    BY <2>1 DEF ceilSqrt
<1> HIDE DEF c
<1>5. c # 0
  BY <1>4
<1>6. c - 1 \in 0..(c - 1)
  BY <1>4, <1>5
<1> QED
  BY <1>4, <1>5, <1>6 DEF c

\* There are at most as many slices as leave none of them empty.
LEMMA SlicesAreFull ==
    ASSUME NEW n \in Nat \ {0}, NEW count \in Nat \ {0}, (count - 1) * (count - 1) < n
    PROVE  (count - 1) * ceilDiv(n, count) < n
<1> DEFINE q == ceilDiv(n, count)
<1>1. q \in Nat /\ q > 0 /\ (q - 1) * count < n
  BY DivisionRoundsUp
<1> HIDE DEF q
<1> DEFINE k == count - 1
<1>2. k \in Nat /\ count = k + 1 /\ k * k < n
  OBVIOUS
<1> HIDE DEF k
<1>3. CASE q <= k
  <2>1. k * q <= k * k
    BY <1>1, <1>2, <1>3
  <2>2. k * q \in Int /\ k * k \in Int
    BY <1>1, <1>2
  <2> QED
    BY <1>2, <2>1, <2>2 DEF q
<1>4. CASE q > k
  <2>1. (q - 1) * (k + 1) = k * q + q - k - 1 /\ k * q \in Int
    BY <1>1, <1>2
  <2>2. (q - 1) * count = (q - 1) * (k + 1)
    BY <1>2
  <2>3. k * q < n
    BY <1>1, <1>2, <1>4, <2>1, <2>2
  <2> QED
    BY <2>3 DEF k, q
<1> QED
  BY <1>1, <1>2, <1>3, <1>4

\* Cuts of equal length, but for the last.
LEMMA EqualCuts ==
    ASSUME NEW n \in Nat, NEW m \in Nat \ {0}, NEW k \in Nat, n <= m * k
    PROVE  /\ Cuts([i \in 0..m |-> Least(i * k, n)], m, n)
           /\ (m - 1) * k < n => \A i \in 1..m : Least((i - 1) * k, n) < Least(i * k, n)
                                              /\ Least((i - 1) * k, n) = (i - 1) * k
<1> DEFINE c == [i \in 0..m |-> Least(i * k, n)]
<1>1. ASSUME NEW i \in Nat, NEW j \in Nat, i <= j PROVE i * k <= j * k /\ i * k \in Nat /\ j * k \in Nat
  <2>1. i * k \in Nat /\ j * k \in Nat /\ (j - i) * k \in Nat
    BY <1>1
  <2>2. j * k = i * k + (j - i) * k
    OBVIOUS
  <2> QED
    BY <2>1, <2>2
<1>2. \A i \in 0..m : c[i] = Least(i * k, n) /\ c[i] \in Nat
  BY <1>1 DEF Least
<1>3. c \in [0..m -> Nat] /\ c[0] = 0 /\ c[m] = n
  <2>1. m \in 0..m /\ 0 \in 0..m /\ 0 * k = 0
    OBVIOUS
  <2>2. Least(0 * k, n) = 0 /\ Least(m * k, n) = n
    BY <1>1, <2>1 DEF Least
  <2> HIDE DEF c
  <2>3. c[0] = 0 /\ c[m] = n
    BY <1>2, <2>1, <2>2
  <2> QED
    BY <1>2, <2>3 DEF c
<1>4. \A i, j \in 0..m : i <= j => c[i] <= c[j]
  BY <1>1, <1>2 DEF Least
<1>5. Cuts(c, m, n)
  <2> HIDE DEF c
  <2> QED
    BY <1>3, <1>4 DEF Cuts
<1>6. ASSUME (m - 1) * k < n, NEW i \in 1..m
      PROVE  Least((i - 1) * k, n) < Least(i * k, n) /\ Least((i - 1) * k, n) = (i - 1) * k
  <2>1. i - 1 \in Nat /\ m - 1 \in Nat /\ i - 1 <= m - 1
    OBVIOUS
  <2>2. (i - 1) * k <= (m - 1) * k /\ (i - 1) * k \in Nat /\ (m - 1) * k \in Nat
    BY <1>1, <2>1
  <2>3. k > 0
    <3>1. k = 0 => m * k = 0
      OBVIOUS
    <3> QED
      BY <1>6, <2>2, <3>1
  <2>4. i * k = (i - 1) * k + k
    OBVIOUS
  <2> QED
    BY <1>6, <2>2, <2>3, <2>4 DEF Least
<1> QED
  BY <1>5, <1>6

\* A list in parts, none of which is empty.
Parts(seqs, s, U) == /\ Apart(seqs, U) /\ Len(seqs) \in Nat \ {0}
                     /\ HeldBy(seqs, Len(seqs)) = ToSet(s)
                     /\ \A i \in 1..Len(seqs) : seqs[i] # <<>>

LEMMA PiecesArePart ==
    ASSUME NEW U, NEW s, Listing(s, U), NEW m \in Nat \ {0}, NEW k \in Nat, Len(s) <= m * k,
           (m - 1) * k < Len(s),
           NEW seqs, seqs = PiecesOf(s, [i \in 0..m |-> Least(i * k, Len(s))], m)
    PROVE  Parts(seqs, s, U) /\ Len(seqs) = m
<1> DEFINE n == Len(s)
           c == [i \in 0..m |-> Least(i * k, n)]
<1>1. n \in Nat
  BY DEF Listing
<1>2. Cuts(c, m, n) /\ \A i \in 1..m : Least((i - 1) * k, n) < Least(i * k, n)
  BY <1>1, EqualCuts
<1>3. \A i \in 1..m : c[i - 1] < c[i]
  <2>1. \A i \in 1..m : i \in 0..m /\ i - 1 \in 0..m
    OBVIOUS
  <2> QED
    BY <1>2, <2>1
<1>4. seqs = PiecesOf(s, c, m)
  OBVIOUS
<1> HIDE DEF c
<1> DEFINE pieces == PiecesOf(s, c, m)
<1>5. /\ Apart(pieces, U) /\ Len(pieces) = m /\ HeldBy(pieces, m) = ToSet(s)
      /\ \A i \in 1..m : c[i - 1] < c[i] => pieces[i] # <<>>
  BY <1>2, CutHolds
<1>6. seqs = pieces
  BY <1>4
<1> HIDE DEF pieces
<1> QED
  BY <1>3, <1>5, <1>6 DEF Parts

LEMMA RunsHold ==
    ASSUME NEW U, NEW s, Listing(s, U), s # <<>>, NEW k \in Nat \ {0}
    PROVE  Parts(runs(s, k), s, U)
<1> DEFINE n == Len(s)
           m == ceilDiv(n, k)
           c == [i \in 0..m |-> Least(i * k, n)]
<1>1. n \in Nat \ {0}
  BY DEF Listing
<1>2. m \in Nat \ {0} /\ n <= m * k /\ (m - 1) * k < n
  <2>1. n \in Nat /\ n > 0
    BY <1>1
  <2> HIDE DEF n
  <2>2. m \in Nat /\ n <= m * k /\ m > 0 /\ (m - 1) * k < n
    BY <2>1, DivisionRoundsUp
  <2> QED
    BY <2>2
<1>3. Most(1, m) = m
  BY <1>2 DEF Most
<1> HIDE DEF m
<1>4. ASSUME NEW i \in 1..m
      PROVE  SubSeq(s, (i - 1) * k + 1, Least(i * k, n)) = SubSeq(s, c[i - 1] + 1, c[i])
  <2>1. i \in 0..m /\ i - 1 \in 0..m
    BY <1>2
  <2>2. Least((i - 1) * k, n) = (i - 1) * k
    BY <1>1, <1>2, EqualCuts
  <2> QED
    BY <2>1, <2>2
<1>5. runs(s, k) = [i \in 1..m |-> SubSeq(s, (i - 1) * k + 1, Least(i * k, n))]
  BY <1>3 DEF runs, m
<1>6. runs(s, k) = PiecesOf(s, c, m)
  <2> HIDE DEF c
  <2> QED
    BY <1>4, <1>5 DEF PiecesOf
<1> QED
  BY <1>2, <1>6, PiecesArePart

LEMMA SlicesHold ==
    ASSUME NEW U, NEW s, Listing(s, U), s # <<>>, NEW count \in Nat \ {0}, (count - 1) * (count - 1) < Len(s)
    PROVE  Parts(verticalSlices(s, count), s, U)
<1> DEFINE n == Len(s)
           k == ceilDiv(n, count)
           c == [i \in 0..count |-> Least(i * k, n)]
<1>1. n \in Nat \ {0}
  BY DEF Listing
<1>2. k \in Nat /\ n <= k * count
  BY <1>1, DivisionRoundsUp
<1>3. (count - 1) * k < n
  BY <1>1, SlicesAreFull
<1>4. verticalSlices(s, count) =
          [i \in 1..count |-> SubSeq(s, Least((i - 1) * k, n) + 1, Least(i * k, n))]
  BY DEF verticalSlices
<1> HIDE DEF k
<1>5. ASSUME NEW i \in 1..count
      PROVE  c[i - 1] = Least((i - 1) * k, n) /\ c[i] = Least(i * k, n)
  <2>1. i \in 0..count /\ i - 1 \in 0..count
    OBVIOUS
  <2> QED
    BY <2>1
<1>6. verticalSlices(s, count) = PiecesOf(s, c, count)
  <2> HIDE DEF c
  <2> QED
    BY <1>4, <1>5 DEF PiecesOf
<1>7. n <= count * k
  BY <1>2
<1> QED
  BY <1>2, <1>3, <1>6, <1>7, PiecesArePart

\* Parts of the parts of a list, one after the other, are parts of the list.
LEMMA PartsOfParts ==
    ASSUME NEW U, NEW s, NEW slices, Parts(slices, s, U),
           NEW cuts, DOMAIN cuts = 1..Len(slices), cuts = [i \in DOMAIN cuts |-> cuts[i]],
           \A i \in 1..Len(slices) : Parts(cuts[i], slices[i], U)
    PROVE  Parts(FlattenSeq(cuts), s, U)
<1> DEFINE m == Len(slices)
           all == FlattenSeq(cuts)
           size(i) == Len(cuts[i])
<1>1. m \in Nat \ {0} /\ Apart(slices, U) /\ HeldBy(slices, m) = ToSet(s)
  BY DEF Parts
<1>2. DOMAIN cuts = 1..m /\ \A i \in 1..m : Parts(cuts[i], slices[i], U)
  OBVIOUS
<1>17. cuts = [i \in DOMAIN cuts |-> cuts[i]]
  OBVIOUS
<1> HIDE DEF m
<1>3. ASSUME NEW i \in 1..m
      PROVE  /\ size(i) \in Nat \ {0} /\ cuts[i] \in Seq(Seq(U)) /\ DOMAIN cuts[i] = 1..size(i)
             /\ \A j \in 1..size(i) : Listing(cuts[i][j], U) /\ cuts[i][j] # <<>>
             /\ \A j, k \in 1..size(i) : j # k => ToSet(cuts[i][j]) \cap ToSet(cuts[i][k]) = {}
             /\ HeldBy(cuts[i], size(i)) = ToSet(slices[i])
  <2>1. Parts(cuts[i], slices[i], U)
    BY <1>2
  <2> DEFINE r == cuts[i]
  <2>2. /\ Apart(r, U) /\ Len(r) \in Nat \ {0} /\ HeldBy(r, Len(r)) = ToSet(slices[i])
        /\ \A j \in 1..Len(r) : r[j] # <<>>
    BY <2>1 DEF Parts
  <2> HIDE DEF r
  <2>3. /\ r \in Seq(Seq(U)) /\ \A j \in 1..Len(r) : Listing(r[j], U)
        /\ \A j, k \in 1..Len(r) : j # k => ToSet(r[j]) \cap ToSet(r[k]) = {}
    BY <2>2 DEF Apart
  <2>4. DOMAIN r = 1..Len(r)
    BY <2>3
  <2> QED
    BY <2>2, <2>3, <2>4 DEF r
<1> HIDE DEF size
<1>4. ASSUME NEW p, p # <<>>, Listing(p, U) PROVE ToSet(p) # {}
  <2>1. p \in Seq(U) /\ 1 \in DOMAIN p
    BY <1>4 DEF Listing
  <2> QED
    BY <2>1 DEF ToSet
<1>5. ASSUME NEW i \in 1..m, NEW j \in 1..size(i) PROVE ToSet(cuts[i][j]) \subseteq ToSet(slices[i])
  <2>1. ToSet(cuts[i][j]) \subseteq HeldBy(cuts[i], size(i))
    BY DEF HeldBy
  <2> QED
    BY <1>3, <2>1
<1>6. ASSUME NEW i \in 1..m PROVE Listing(cuts[i], Seq(U))
  <2>1. ASSUME NEW j \in 1..size(i), NEW k \in 1..size(i), cuts[i][j] = cuts[i][k] PROVE j = k
    <3>1. ToSet(cuts[i][j]) # {}
      BY <1>3, <1>4
    <3>2. j # k => ToSet(cuts[i][j]) \cap ToSet(cuts[i][k]) = {}
      BY <1>3
    <3> QED
      BY <2>1, <3>1, <3>2
  <2> QED
    BY <1>3, <2>1 DEF Listing, IsInjective
<1>7. ASSUME NEW i \in 1..m, NEW x \in ToSet(cuts[i])
      PROVE  \E j \in 1..size(i) : x = cuts[i][j]
  BY <1>3 DEF ToSet
<1>8. ASSUME NEW i \in 1..m, NEW j \in 1..m, i # j PROVE ToSet(slices[i]) \cap ToSet(slices[j]) = {}
  BY <1>1, <1>8 DEF Apart, m
<1>9. ASSUME NEW i \in 1..m, NEW j \in 1..m, i # j PROVE ToSet(cuts[i]) \cap ToSet(cuts[j]) = {}
  <2> SUFFICES ASSUME NEW x \in ToSet(cuts[i]), x \in ToSet(cuts[j]) PROVE FALSE
    OBVIOUS
  <2>1. PICK a \in 1..size(i) : x = cuts[i][a]
    BY <1>7
  <2>2. PICK b \in 1..size(j) : x = cuts[j][b]
    BY <1>7
  <2>3. ToSet(x) # {}
    BY <1>3, <1>4, <2>1
  <2>4. ToSet(x) \subseteq ToSet(slices[i]) /\ ToSet(x) \subseteq ToSet(slices[j])
    BY <1>5, <2>1, <2>2
  <2> QED
    BY <1>8, <1>9, <2>3, <2>4
<1>10. cuts \in Seq(Seq(Seq(U))) /\ Len(cuts) = m
  <2>1. \A i \in 1..m : cuts[i] \in Seq(Seq(U))
    BY <1>3
  <2>2. cuts \in [1..m -> Seq(Seq(U))]
    BY <1>2, <1>17, <2>1
  <2> QED
    BY <1>1, <2>2
<1>11. Apart(cuts, Seq(U))
  BY <1>6, <1>9, <1>10 DEF Apart
<1>12. Listing(all, Seq(U)) /\ ToSet(all) = HeldBy(cuts, m)
  BY <1>10, <1>11, FlattenHolds
<1> HIDE DEF all
<1> DEFINE n == Len(all)
<1>13. n \in Nat /\ all \in Seq(Seq(U)) /\ DOMAIN all = 1..n /\ \A i, j \in 1..n : all[i] = all[j] => i = j
  BY <1>12 DEF Listing, IsInjective
<1>14. ASSUME NEW k \in 1..n PROVE \E i \in 1..m : \E j \in 1..size(i) : all[k] = cuts[i][j]
  <2>1. all[k] \in HeldBy(cuts, m)
    BY <1>12, <1>13 DEF ToSet
  <2>2. PICK i \in 1..m : all[k] \in ToSet(cuts[i])
    BY <2>1 DEF HeldBy
  <2> QED
    BY <1>7, <2>2
<1>15. ASSUME NEW i \in 1..m, NEW j \in 1..size(i) PROVE \E k \in 1..n : all[k] = cuts[i][j]
  <2>1. cuts[i][j] \in ToSet(cuts[i])
    BY <1>3 DEF ToSet
  <2>2. cuts[i][j] \in ToSet(all)
    BY <1>12, <2>1 DEF HeldBy
  <2> QED
    BY <1>13, <2>2 DEF ToSet
<1> HIDE DEF n
<1>16. ASSUME NEW a \in 1..n, NEW b \in 1..n, a # b PROVE ToSet(all[a]) \cap ToSet(all[b]) = {}
  <2>1. PICK i \in 1..m : \E j \in 1..size(i) : all[a] = cuts[i][j]
    BY <1>14
  <2>2. PICK j \in 1..size(i) : all[a] = cuts[i][j]
    BY <2>1
  <2>3. PICK k \in 1..m : \E l \in 1..size(k) : all[b] = cuts[k][l]
    BY <1>14
  <2>4. PICK l \in 1..size(k) : all[b] = cuts[k][l]
    BY <2>3
  <2>5. all[a] # all[b]
    BY <1>13, <1>16
  <2>6. CASE i = k
    <3>1. j # l
      BY <2>2, <2>4, <2>5, <2>6
    <3>2. l \in 1..size(i) /\ all[b] = cuts[i][l]
      BY <2>4, <2>6
    <3>3. ToSet(cuts[i][j]) \cap ToSet(cuts[i][l]) = {}
      BY <1>3, <3>1, <3>2
    <3> QED
      BY <2>2, <3>2, <3>3
  <2>7. CASE i # k
    <3>1. ToSet(all[a]) \subseteq ToSet(slices[i]) /\ ToSet(all[b]) \subseteq ToSet(slices[k])
      BY <1>5, <2>2, <2>4
    <3> QED
      BY <1>8, <2>7, <3>1
  <2> QED
    BY <2>6, <2>7
<1>18. \A k \in 1..n : Listing(all[k], U) /\ all[k] # <<>>
  BY <1>3, <1>14
<1>19. Apart(all, U)
  BY <1>13, <1>16, <1>18 DEF Apart, n
<1>20. HeldBy(all, n) = ToSet(s)
  <2>1. ASSUME NEW x \in HeldBy(all, n) PROVE x \in ToSet(s)
    <3>1. PICK k \in 1..n : x \in ToSet(all[k])
      BY DEF HeldBy
    <3>2. PICK i \in 1..m : \E j \in 1..size(i) : all[k] = cuts[i][j]
      BY <1>14
    <3>3. x \in ToSet(slices[i])
      BY <1>5, <3>1, <3>2
    <3> QED
      BY <1>1, <3>3 DEF HeldBy
  <2>2. ASSUME NEW x \in ToSet(s) PROVE x \in HeldBy(all, n)
    <3>1. PICK i \in 1..m : x \in ToSet(slices[i])
      BY <1>1 DEF HeldBy
    <3>2. x \in HeldBy(cuts[i], size(i))
      BY <1>3, <3>1
    <3>3. PICK j \in 1..size(i) : x \in ToSet(cuts[i][j])
      BY <3>2 DEF HeldBy
    <3>4. PICK k \in 1..n : all[k] = cuts[i][j]
      BY <1>15
    <3> QED
      BY <3>3, <3>4 DEF HeldBy
  <2> QED
    BY <2>1, <2>2
<1>21. n # 0
  <2>1. 1 \in 1..m
    BY <1>1
  <2>2. 1 \in 1..size(1)
    BY <1>3, <2>1
  <2>3. PICK k \in 1..n : all[k] = cuts[1][1]
    BY <1>15, <2>1, <2>2
  <2> QED
    BY <1>13, <2>3
<1> QED
  BY <1>13, <1>18, <1>19, <1>20, <1>21 DEF Parts, n, all

\* The groups of STRtree::createParentBoundables: every boundable of the level is in
\* one group, and no group is empty.
LEMMA GroupsHold ==
    ASSUME EntriesFit, NEW U, NEW s, Listing(s, U), s # <<>>
    PROVE  Parts(createParentBoundables(s), s, U)
<1> DEFINE n == Len(s)
           m == ceilDiv(n, nodeCapacity)
           count == ceilSqrt(m)
           slices == verticalSlices(s, count)
           cuts == [i \in DOMAIN slices |-> runs(slices[i], nodeCapacity)]
<1>1. n \in Nat \ {0} /\ nodeCapacity \in Nat \ {0}
  BY DEF Listing, EntriesFit
<1>2. m \in Nat \ {0} /\ m <= n
  <2> HIDE DEF n
  <2> QED
    BY <1>1, DivisionRoundsUp
<1> HIDE DEF m
<1>3. count \in Nat \ {0} /\ (count - 1) * (count - 1) < m
  BY <1>2, RootRoundsUp
<1>4. (count - 1) * (count - 1) < n
  <2>1. (count - 1) * (count - 1) \in Int
    BY <1>3
  <2> HIDE DEF count
  <2> QED
    BY <1>1, <1>2, <1>3, <2>1
<1> HIDE DEF count
<1>5. Parts(slices, s, U)
  BY <1>3, <1>4, SlicesHold
<1> HIDE DEF slices
<1>6. DOMAIN slices = 1..Len(slices)
  BY <1>5 DEF Parts, Apart
<1>7. ASSUME NEW i \in 1..Len(slices) PROVE Parts(cuts[i], slices[i], U)
  <2>1. Listing(slices[i], U) /\ slices[i] # <<>>
    BY <1>5 DEF Parts, Apart
  <2>2. cuts[i] = runs(slices[i], nodeCapacity)
    BY <1>6
  <2> HIDE DEF cuts
  <2> QED
    BY <1>1, <2>1, <2>2, RunsHold
<1>8. DOMAIN cuts = 1..Len(slices) /\ cuts = [i \in DOMAIN cuts |-> cuts[i]]
  BY <1>6
<1>9. createParentBoundables(s) = FlattenSeq(cuts)
  BY DEF createParentBoundables, slices, count, m
<1> HIDE DEF cuts
<1> QED
  BY <1>5, <1>7, <1>8, <1>9, PartsOfParts

-----------------------------------------------------------------------------
(* Bounds.                                                                 *)

Within(e, f) == f.minx <= e.minx /\ e.maxx <= f.maxx /\ f.miny <= e.miny /\ e.maxy <= f.maxy

LEMMA LeastOfValues ==
    ASSUME NEW n \in Nat \ {0}, NEW v \in [1..n -> Int]
    PROVE  \E i \in 1..n : \A j \in 1..n : v[i] <= v[j]
<1> DEFINE P == {m \in Nat : m < n => \E i \in 1..(m + 1) : \A j \in 1..(m + 1) : v[i] <= v[j]}
<1>1. 0 \in P
  <2>1. 1..(0 + 1) = {1} /\ v[1] \in Int
    OBVIOUS
  <2>2. v[1] <= v[1]
    BY <2>1
  <2> QED
    BY <2>1, <2>2
<1>2. ASSUME NEW m \in Nat, m \in P PROVE m + 1 \in P
  <2> SUFFICES ASSUME m + 1 < n
               PROVE  \E i \in 1..((m + 1) + 1) : \A j \in 1..((m + 1) + 1) : v[i] <= v[j]
    OBVIOUS
  <2>1. PICK i \in 1..(m + 1) : \A j \in 1..(m + 1) : v[i] <= v[j]
    BY <1>2
  <2> DEFINE k == (m + 1) + 1
  <2>2. k \in 1..n /\ i \in 1..n /\ k \in 1..k /\ i \in 1..k
    OBVIOUS
  <2>3. \A j \in 1..k : (j \in 1..(m + 1) \/ j = k) /\ j \in 1..n
    OBVIOUS
  <2>4. v[i] \in Int /\ v[k] \in Int /\ \A j \in 1..n : v[j] \in Int
    BY <2>2
  <2> HIDE DEF k
  <2>5. CASE v[i] <= v[k]
    <3>1. \A j \in 1..k : v[i] <= v[j]
      BY <2>1, <2>3, <2>5
    <3> QED
      BY <2>2, <3>1 DEF k
  <2>6. CASE ~(v[i] <= v[k])
    <3>1. \A j \in 1..k : v[k] <= v[j]
      BY <2>1, <2>3, <2>4, <2>6
    <3> QED
      BY <2>2, <3>1 DEF k
  <2> QED
    BY <2>5, <2>6
<1>3. n - 1 \in P
  <2> HIDE DEF P
  <2>1. \A m \in Nat : m \in P
    BY <1>1, <1>2, InductionOnSets
  <2> QED
    BY <2>1
<1>4. n - 1 < n /\ (n - 1) + 1 = n
  OBVIOUS
<1> QED
  BY <1>3, <1>4

LEMMA LeastAndGreatest ==
    ASSUME NEW n \in Nat \ {0}, NEW v \in [1..n -> Int], NEW S, S = {v[i] : i \in 1..n}
    PROVE  /\ Min(S) \in Int /\ \A x \in S : Min(S) <= x
           /\ Max(S) \in Int /\ \A x \in S : x <= Max(S)
<1>1. \E i \in 1..n : \A j \in 1..n : v[i] <= v[j]
  BY LeastOfValues
<1>2. \E i \in 1..n : \A j \in 1..n : v[j] <= v[i]
  <2> DEFINE w == [i \in 1..n |-> -v[i]]
  <2>1. w \in [1..n -> Int]
    OBVIOUS
  <2>2. \A i \in 1..n : w[i] = -v[i] /\ v[i] \in Int
    OBVIOUS
  <2> HIDE DEF w
  <2>3. PICK i \in 1..n : \A j \in 1..n : w[i] <= w[j]
    BY <2>1, LeastOfValues
  <2>4. \A j \in 1..n : v[j] <= v[i]
    BY <2>2, <2>3
  <2> QED
    BY <2>4
<1>3. \E x \in S : \A y \in S : x <= y
  BY <1>1
<1>4. \E x \in S : \A y \in S : x >= y
  BY <1>2
<1>5. Min(S) \in S /\ \A y \in S : Min(S) <= y
  BY <1>3 DEF Min
<1>6. Max(S) \in S /\ \A y \in S : Max(S) >= y
  BY <1>4 DEF Max
<1>7. S \subseteq Int
  OBVIOUS
<1> QED
  BY <1>5, <1>6, <1>7

\* The bounds of a node hold those of its children.
LEMMA BoundsHold ==
    ASSUME NEW U, NEW bs \in Seq(U), bs # <<>>, \A b \in ToSet(bs) : getBounds(b) \in Box
    PROVE  /\ computeBounds(bs) \in Box
           /\ \A b \in ToSet(bs) : Within(getBounds(b), computeBounds(bs))
<1> DEFINE n == Len(bs)
           es == {getBounds(b) : b \in ToSet(bs)}
           e(i) == getBounds(bs[i])
           minx == {f.minx : f \in es}
           maxx == {f.maxx : f \in es}
           miny == {f.miny : f \in es}
           maxy == {f.maxy : f \in es}
<1>1. n \in Nat \ {0} /\ DOMAIN bs = 1..n /\ ToSet(bs) = {bs[i] : i \in 1..n}
  BY DEF ToSet
<1> HIDE DEF n
<1>2. \A i \in 1..n : e(i) \in Box
  BY <1>1
<1>3. es = {e(i) : i \in 1..n}
  BY <1>1
<1>4. computeBounds(bs) = [minx |-> Min(minx), maxx |-> Max(maxx), miny |-> Min(miny), maxy |-> Max(maxy)]
  BY DEF computeBounds
<1> HIDE DEF es, e
<1>5. Min(minx) \in Int /\ \A x \in minx : Min(minx) <= x
  <2> DEFINE v == [i \in 1..n |-> e(i).minx]
  <2>1. v \in [1..n -> Int]
    BY <1>2 DEF Box
  <2>2. minx = {v[i] : i \in 1..n}
    BY <1>3
  <2> HIDE DEF v, minx
  <2> QED
    BY <1>1, <2>1, <2>2, LeastAndGreatest
<1>6. Max(maxx) \in Int /\ \A x \in maxx : x <= Max(maxx)
  <2> DEFINE v == [i \in 1..n |-> e(i).maxx]
  <2>1. v \in [1..n -> Int]
    BY <1>2 DEF Box
  <2>2. maxx = {v[i] : i \in 1..n}
    BY <1>3
  <2> HIDE DEF v, maxx
  <2> QED
    BY <1>1, <2>1, <2>2, LeastAndGreatest
<1>7. Min(miny) \in Int /\ \A x \in miny : Min(miny) <= x
  <2> DEFINE v == [i \in 1..n |-> e(i).miny]
  <2>1. v \in [1..n -> Int]
    BY <1>2 DEF Box
  <2>2. miny = {v[i] : i \in 1..n}
    BY <1>3
  <2> HIDE DEF v, miny
  <2> QED
    BY <1>1, <2>1, <2>2, LeastAndGreatest
<1>8. Max(maxy) \in Int /\ \A x \in maxy : x <= Max(maxy)
  <2> DEFINE v == [i \in 1..n |-> e(i).maxy]
  <2>1. v \in [1..n -> Int]
    BY <1>2 DEF Box
  <2>2. maxy = {v[i] : i \in 1..n}
    BY <1>3
  <2> HIDE DEF v, maxy
  <2> QED
    BY <1>1, <2>1, <2>2, LeastAndGreatest
<1>9. ASSUME NEW b \in ToSet(bs)
      PROVE  getBounds(b).minx \in minx /\ getBounds(b).maxx \in maxx /\ getBounds(b).miny \in miny /\ getBounds(b).maxy \in maxy
  <2>1. getBounds(b) \in es
    BY DEF es
  <2> QED
    BY <2>1
<1> HIDE DEF minx, maxx, miny, maxy
<1> QED
  BY <1>4, <1>5, <1>6, <1>7, <1>8, <1>9 DEF Box, Within

\* The bounds of a node meet what its items meet, and are no farther.
LEMMA WithinMeets ==
    ASSUME NEW e \in Box, NEW f \in Box, NEW g \in Box, Within(e, f), intersects(e, g)
    PROVE  intersects(f, g)
BY DEF Box, Within, intersects, isNull

LEMMA GapsGrow ==
    ASSUME NEW a \in Int, NEW b \in Int, NEW c \in Int, NEW d \in Int, NEW lo \in Int, NEW hi \in Int,
           a <= c, d <= b
    PROVE  /\ Most(0, Most(lo - b, a - hi)) <= Most(0, Most(lo - d, c - hi))
           /\ Most(0, Most(lo - b, a - hi)) \in Nat /\ Most(0, Most(lo - d, c - hi)) \in Nat
BY DEF Most

LEMMA SquaresGrow ==
    ASSUME NEW x \in Nat, NEW y \in Nat, x <= y
    PROVE  x * x <= y * y /\ x * x \in Nat /\ y * y \in Nat
<1>1. y * y = x * x + (y - x) * x + y * (y - x)
  OBVIOUS
<1>2. x * x \in Nat /\ y * y \in Nat /\ (y - x) * x \in Nat /\ y * (y - x) \in Nat
  OBVIOUS
<1> QED
  BY <1>1, <1>2

LEMMA WithinIsNearer ==
    ASSUME NEW e \in Box, NEW f \in Box, NEW g \in Box, Within(e, f)
    PROVE  distance2(f, g) <= distance2(e, g) /\ distance2(f, g) \in Nat /\ distance2(e, g) \in Nat
<1> DEFINE fx == Most(0, Most(g.minx - f.maxx, f.minx - g.maxx))
           ex == Most(0, Most(g.minx - e.maxx, e.minx - g.maxx))
           fy == Most(0, Most(g.miny - f.maxy, f.miny - g.maxy))
           ey == Most(0, Most(g.miny - e.maxy, e.miny - g.maxy))
<1>1. /\ e.minx \in Int /\ e.maxx \in Int /\ e.miny \in Int /\ e.maxy \in Int
      /\ f.minx \in Int /\ f.maxx \in Int /\ f.miny \in Int /\ f.maxy \in Int
      /\ g.minx \in Int /\ g.maxx \in Int /\ g.miny \in Int /\ g.maxy \in Int
      /\ f.minx <= e.minx /\ e.maxx <= f.maxx /\ f.miny <= e.miny /\ e.maxy <= f.maxy
  BY DEF Box, Within
<1>2. fx <= ex /\ fx \in Nat /\ ex \in Nat
  BY <1>1, GapsGrow
<1>3. fy <= ey /\ fy \in Nat /\ ey \in Nat
  BY <1>1, GapsGrow
<1>4. distance2(f, g) = fx * fx + fy * fy /\ distance2(e, g) = ex * ex + ey * ey
  BY DEF distance2
<1> HIDE DEF fx, ex, fy, ey
<1>5. fx * fx <= ex * ex /\ fx * fx \in Nat /\ ex * ex \in Nat
  BY <1>2, SquaresGrow
<1>6. fy * fy <= ey * ey /\ fy * fy \in Nat /\ ey * ey \in Nat
  BY <1>3, SquaresGrow
<1> QED
  BY <1>4, <1>5, <1>6

-----------------------------------------------------------------------------
(* The invariant.                                                          *)

Boundable == {"item", "node"} \X Nat

Node == [level : Nat, children : Seq(Boundable), bounds : Box \cup {NULL}]

\* The items that were not removed.
Alive == DOMAIN itemBoundables \ removed

\* A boundable that is there, items at the bottom and nodes above.
AtHeight(b, h) == /\ b \in Boundable
                  /\ IF isItem(b) THEN h = 0 /\ b[2] \in Alive
                     ELSE b[2] \in DOMAIN nodes /\ h = nodes[b[2]].level + 1

\* The way up from item k to a boundable at height h: each has the one before among
\* its children and bounds that hold the envelope of the item.
Chain(p, k, h) ==
    /\ p \in [Nat -> Boundable] /\ p[0] = <<"item", k>>
    /\ \A i \in 0..h : /\ AtHeight(p[i], i) /\ getBounds(p[i]) \in Box
                       /\ Within(itemBoundables[k].env, getBounds(p[i]))
    /\ \A i \in 0..(h - 1) : p[i] \in ToSet(children(p[i + 1]))

ItemsInv ==
    /\ itemBoundables \in Seq(Entries) /\ Len(itemBoundables) <= MaxInserts
    /\ \A k \in DOMAIN itemBoundables : itemBoundables[k].env \in Box /\ ~isNull(itemBoundables[k].env)
    /\ removed \subseteq DOMAIN itemBoundables

\* No boundable is the child of two nodes, and none hangs at a wrong level.
NodesInv ==
    /\ nodes \in Seq(Node)
    /\ \A n \in DOMAIN nodes :
          /\ Listing(nodes[n].children, Boundable)
          /\ \A b \in ToSet(nodes[n].children) : AtHeight(b, nodes[n].level) /\ getBounds(b) \in Box
    /\ \A m, n \in DOMAIN nodes :
          m # n => ToSet(nodes[m].children) \cap ToSet(nodes[n].children) = {}

\* A level of the tree in the making, above every item.
Packed(bs, h) ==
    /\ bs # <<>> /\ Listing(bs, Boundable)
    /\ \A b \in ToSet(bs) : AtHeight(b, h) /\ getBounds(b) \in Box
    /\ \A n \in DOMAIN nodes : ToSet(nodes[n].children) \cap ToSet(bs) = {}
    /\ \A k \in DOMAIN itemBoundables : \E p : Chain(p, k, h) /\ p[h] \in ToSet(bs)

PackingInv ==
    /\ ~built => /\ removed = {} /\ pc \in {"idle", "build", "createHigherLevels"}
                 /\ pc # "createHigherLevels" => nodes = <<>>
    /\ pc \in {"build", "createHigherLevels"} => ~built
    /\ pc = "createHigherLevels" => \E h \in Nat : Packed(list, h)

\* The root is above every item that was not removed; only an empty tree has no bounds.
rootHeight == nodes[root[2]].level + 1

RootInv ==
    built => /\ root \in Boundable /\ ~isItem(root) /\ root[2] \in DOMAIN nodes
             /\ getBounds(root) \in Box \/ (getBounds(root) = NULL /\ itemBoundables = <<>>)
             /\ \A k \in Alive : \E p : Chain(p, k, rootHeight) /\ p[rootHeight] = root

CallInv ==
    /\ pc \in {"idle", "build", "createHigherLevels", "start", "query", "all", "remove",
               "nearestNeighbour", "crashed", "aborted"}
    /\ pc \notin {"idle", "crashed", "aborted"} =>
          \/ call.op = "all"
          \/ call.op \in {"query", "nearestNeighbour"} /\ call.env \in Searches
          \/ call.op = "remove" /\ \E e \in Entries : call.env = e.env /\ call.item = e.item
    /\ pc \in {"query", "all", "remove", "nearestNeighbour"} => pc = call.op
    /\ pc = "crashed" => itemBoundables = <<>>

\* The items that a search must reach.
Wanted(k) == call.op = "all" \/ intersects(itemBoundables[k].env, call.env)

\* A level of a search, above every item it must reach.
Searched(h) ==
    /\ Listing(list, Boundable)
    /\ \A b \in ToSet(list) : AtHeight(b, h)
    /\ \A k \in Alive : Wanted(k) => \E p : Chain(p, k, h) /\ p[h] \in ToSet(list)

SearchInv == pc \in {"query", "all", "remove"} =>
                 \E h \in Nat : Searched(h) /\ (pc = "remove" => h > 0)

\* A pair that is no farther than item k.
Nearer(b, k) == pairDistance(b) <= distance2(itemBoundables[k].env, call.env)

\* No item is lost that could be nearer than the best one.
NearestInv ==
    /\ pc # "nearestNeighbour" => priQ = {} /\ minPair = NULL
    /\ pc = "nearestNeighbour" =>
          /\ \A b \in priQ : getBounds(b) \in Box /\ \E h \in Nat : AtHeight(b, h)
          /\ minPair = NULL \/ \E k \in Alive : minPair = <<"item", k>>
          /\ \A k \in Alive : \/ \E p, h : h \in Nat /\ Chain(p, k, h) /\ p[h] \in priQ
                              \/ minPair # NULL /\ Nearer(minPair, k)

TreeInv == /\ ItemsInv /\ NodesInv /\ PackingInv /\ RootInv
           /\ CallInv /\ SearchInv /\ NearestInv

-----------------------------------------------------------------------------
(* The tree in the making.                                                 *)

LEMMA SameTree ==
    ASSUME UNCHANGED <<itemBoundables, nodes, removed>>
    PROVE  /\ Alive' = Alive /\ NodesInv' = NodesInv
           /\ \A b : getBounds(b)' = getBounds(b) /\ children(b)' = children(b)
           /\ \A b, h : AtHeight(b, h)' = AtHeight(b, h)
           /\ \A p, k, h : Chain(p, k, h)' = Chain(p, k, h)
<1>1. Alive' = Alive
  BY DEF Alive
<1>2. \A b : getBounds(b)' = getBounds(b) /\ children(b)' = children(b)
  BY DEF getBounds, children
<1>3. \A b, h : AtHeight(b, h)' = AtHeight(b, h)
  BY <1>1 DEF AtHeight
<1>4. NodesInv' = NodesInv
  BY <1>2, <1>3 DEF NodesInv
<1>5. \A p, k, h : Chain(p, k, h)' = Chain(p, k, h)
  BY <1>2, <1>3 DEF Chain
<1> QED
  BY <1>1, <1>2, <1>3, <1>4, <1>5

LEMMA SortingHolds ==
    ASSUME NEW bs, Listing(bs, Boundable), bs # <<>>, NEW s \in sortBoundables(bs)
    PROVE  Listing(s, Boundable) /\ ToSet(s) = ToSet(bs) /\ s # <<>>
<1> DEFINE n == Len(bs)
           S == ToSet(bs)
<1>1. bs \in Seq(Boundable) /\ n \in Nat /\ DOMAIN bs = 1..n /\ 1 \in 1..n
  BY DEF Listing
<1>2. S = {bs[i] : i \in 1..n} /\ S \subseteq Boundable /\ bs[1] \in S
  BY <1>1 DEF ToSet
<1>3. IsFiniteSet(S)
  <2>1. IsFiniteSet(1..n)
    BY <1>1, FS_Interval
  <2> HIDE DEF S, n
  <2> QED
    BY <1>2, <2>1, ImageIsFinite
<1> HIDE DEF S
<1>4. Listing(s, S) /\ ToSet(s) = S
  <2>1. s \in SetToSeqs(S)
    BY DEF sortBoundables, S
  <2> QED
    BY <1>3, <2>1, SeqsOfSets
<1>5. Listing(s, Boundable)
  BY <1>2, <1>4 DEF Listing
<1>6. s # <<>>
  BY <1>2, <1>4 DEF ToSet
<1> QED
  BY <1>4, <1>5, <1>6 DEF S

LEMMA AppendedNodes ==
    ASSUME NEW U, NEW s \in Seq(U), NEW n \in Nat, NEW t, t = [i \in 1..n |-> t[i]], \A i \in 1..n : t[i] \in U
    PROVE  /\ s \o t \in Seq(U) /\ DOMAIN (s \o t) = 1..(Len(s) + n) /\ Len(s) \in Nat /\ DOMAIN s = 1..Len(s)
           /\ \A i \in 1..Len(s) : (s \o t)[i] = s[i]
           /\ \A i \in 1..n : (s \o t)[Len(s) + i] = t[i]
<1>1. t \in [1..n -> U]
  OBVIOUS
<1>2. t \in Seq(U) /\ Len(t) = n
  BY <1>1
<1> QED
  BY <1>2

LEMMA ListsAreFunctions ==
    ASSUME NEW U, NEW n \in Nat, NEW f \in [1..n -> U]
    PROVE  f \in Seq(U) /\ Len(f) = n /\ (n > 0 => f # <<>>)
OBVIOUS

\* One level more: STRtree::createHigherLevels.
LEMMA LevelHolds ==
    ASSUME EntriesFit, ItemsInv, NodesInv, NEW h \in Nat, Packed(list, h), removed = {},
           NEW s \in sortBoundables(list), NEW groups, groups = createParentBoundables(s),
           NEW parents, parents = [i \in DOMAIN groups |-> <<"node", Len(nodes) + i>>],
           nodes' = nodes \o newNodes(groups, h), UNCHANGED <<itemBoundables, removed>>
    PROVE  /\ NodesInv' /\ Packed(parents, h + 1)'
           /\ Len(groups) \in Nat \ {0} /\ DOMAIN groups = 1..Len(groups)
           /\ Len(nodes) \in Nat /\ nodes'[Len(nodes) + 1].level = h
           /\ nodes'[Len(nodes) + 1].bounds \in Box
           /\ 1..(Len(nodes) + Len(groups)) = DOMAIN nodes'
<1> DEFINE n == Len(nodes)
           g == Len(groups)
           new == newNodes(groups, h)
<1>1. Listing(s, Boundable) /\ ToSet(s) = ToSet(list) /\ s # <<>>
  BY SortingHolds DEF Packed
<1>2. Parts(groups, s, Boundable)
  BY <1>1, GroupsHold
<1>3. /\ g \in Nat \ {0} /\ HeldBy(groups, g) = ToSet(list) /\ groups \in Seq(Seq(Boundable)) /\ DOMAIN groups = 1..g
      /\ \A i \in 1..g : Listing(groups[i], Boundable) /\ groups[i] # <<>>
      /\ \A i, j \in 1..g : i # j => ToSet(groups[i]) \cap ToSet(groups[j]) = {}
  <2>1. /\ Apart(groups, Boundable) /\ g \in Nat \ {0} /\ HeldBy(groups, g) = ToSet(list)
        /\ \A i \in 1..g : groups[i] # <<>>
    BY <1>1, <1>2 DEF Parts
  <2>2. /\ groups \in Seq(Seq(Boundable))
        /\ \A i \in 1..g : Listing(groups[i], Boundable)
        /\ \A i, j \in 1..g : i # j => ToSet(groups[i]) \cap ToSet(groups[j]) = {}
    BY <2>1 DEF Apart
  <2>3. DOMAIN groups = 1..g
    BY <2>2
  <2> QED
    BY <2>1, <2>2, <2>3
<1> HIDE DEF g
<1>4. \A i \in 1..g : ToSet(groups[i]) \subseteq ToSet(list)
  BY <1>3 DEF HeldBy
<1>5. ASSUME NEW i \in 1..g
      PROVE  /\ computeBounds(groups[i]) \in Box
             /\ \A b \in ToSet(groups[i]) : Within(getBounds(b), computeBounds(groups[i]))
  <2>1. groups[i] \in Seq(Boundable) /\ groups[i] # <<>>
    BY <1>3 DEF Listing
  <2>2. \A b \in ToSet(groups[i]) : getBounds(b) \in Box
    BY <1>4 DEF Packed
  <2> QED
    BY <2>1, <2>2, BoundsHold
<1>6. \A i \in 1..g : new[i] = [level |-> h, children |-> groups[i], bounds |-> computeBounds(groups[i])]
  BY <1>3 DEF newNodes
<1>7. ASSUME NEW i \in 1..g PROVE new[i] \in Node
  <2>1. groups[i] \in Seq(Boundable) /\ computeBounds(groups[i]) \in Box
    BY <1>3, <1>5 DEF Listing
  <2>2. new[i] = [level |-> h, children |-> groups[i], bounds |-> computeBounds(groups[i])]
    BY <1>6
  <2> HIDE DEF new
  <2> QED
    BY <2>1, <2>2 DEF Node
<1>8. new = [i \in 1..g |-> new[i]]
  BY <1>3 DEF newNodes
<1>9. nodes' = nodes \o new
  OBVIOUS
<1> HIDE DEF new
<1>10. /\ nodes' \in Seq(Node) /\ DOMAIN nodes' = 1..(n + g) /\ n \in Nat /\ DOMAIN nodes = 1..n
       /\ \A m \in 1..n : nodes'[m] = nodes[m]
       /\ \A i \in 1..g : nodes'[n + i] = new[i]
  <2>1. nodes \in Seq(Node) /\ g \in Nat
    BY <1>3 DEF NodesInv
  <2> QED
    BY <1>7, <1>8, <1>9, <2>1, AppendedNodes
<1> HIDE DEF n
<1>22. ASSUME NEW i \in 1..g
       PROVE  /\ n + i \in DOMAIN nodes' /\ nodes'[n + i].level = h /\ nodes'[n + i].children = groups[i]
              /\ nodes'[n + i].bounds = computeBounds(groups[i])
  <2>1. nodes'[n + i] = new[i] /\ new[i] = [level |-> h, children |-> groups[i], bounds |-> computeBounds(groups[i])]
    BY <1>6, <1>10
  <2>2. n + i \in DOMAIN nodes'
    BY <1>3, <1>10
  <2> QED
    BY <2>1, <2>2
<1>11. \A m \in 1..(n + g) : m \in 1..n \/ \E i \in 1..g : m = n + i
  <2> SUFFICES ASSUME NEW m \in 1..(n + g), m \notin 1..n PROVE \E i \in 1..g : m = n + i
    OBVIOUS
  <2>1. m - n \in 1..g /\ m = n + (m - n)
    BY <1>3, <1>10
  <2> QED
    BY <2>1
<1>12. Alive' = Alive /\ Alive = DOMAIN itemBoundables
  BY DEF Alive
<1>13. ASSUME NEW b, NEW x, AtHeight(b, x)
       PROVE  /\ AtHeight(b, x)' /\ getBounds(b)' = getBounds(b)
              /\ ~isItem(b) => children(b)' = children(b) /\ b[2] \in 1..n
  <2>1. CASE isItem(b)
    BY <1>12, <1>13, <2>1 DEF AtHeight, getBounds
  <2>2. CASE ~isItem(b)
    <3>1. b[2] \in 1..n
      BY <1>10, <1>13, <2>2 DEF AtHeight
    <3>2. nodes'[b[2]] = nodes[b[2]] /\ b[2] \in DOMAIN nodes'
      BY <1>3, <1>10, <3>1
    <3> QED
      BY <1>13, <2>2, <3>1, <3>2 DEF AtHeight, getBounds, children, isItem
  <2> QED
    BY <2>1, <2>2
<1>14. ASSUME NEW b \in ToSet(list) PROVE AtHeight(b, h)' /\ getBounds(b)' = getBounds(b) /\ getBounds(b) \in Box
  BY <1>13 DEF Packed
<1>15. NodesInv'
  <2>1. ASSUME NEW m \in 1..(n + g)
        PROVE  /\ Listing(nodes'[m].children, Boundable)
               /\ \A b \in ToSet(nodes'[m].children) : AtHeight(b, nodes[m].level)' /\ getBounds(b)' \in Box
    <3>1. CASE m \in 1..n
      <4>1. nodes'[m] = nodes[m] /\ m \in DOMAIN nodes
        BY <1>10, <3>1
      <4>2. /\ Listing(nodes[m].children, Boundable)
            /\ \A b \in ToSet(nodes[m].children) : AtHeight(b, nodes[m].level) /\ getBounds(b) \in Box
        BY <4>1 DEF NodesInv
      <4>3. \A b \in ToSet(nodes[m].children) : AtHeight(b, nodes[m].level)' /\ getBounds(b)' \in Box
        <5> DEFINE x == nodes[m].level
        <5>1. x' = x
          BY <4>1
        <5>2. \A b \in ToSet(nodes[m].children) : AtHeight(b, x) /\ getBounds(b) \in Box
          BY <4>2
        <5> HIDE DEF x
        <5>3. \A b \in ToSet(nodes[m].children) : AtHeight(b, x)' /\ getBounds(b)' \in Box
          BY <1>13, <5>1, <5>2
        <5> QED
          BY <4>1, <5>1, <5>3 DEF x
      <4> QED
        BY <4>1, <4>2, <4>3
    <3>2. CASE \E i \in 1..g : m = n + i
      <4>1. PICK i \in 1..g : m = n + i
        BY <3>2
      <4>2. nodes'[m].children = groups[i] /\ nodes'[m].level = h
        BY <1>22, <4>1
      <4> QED
        BY <1>3, <1>4, <1>14, <4>2
    <3> QED
      BY <1>11, <3>1, <3>2
  <2>2. ASSUME NEW m \in 1..n, NEW i \in 1..g PROVE ToSet(nodes'[m].children) \cap ToSet(nodes'[n + i].children) = {}
    <3>1. nodes'[m].children = nodes[m].children /\ nodes'[n + i].children = groups[i]
      BY <1>10, <1>22
    <3>2. ToSet(nodes[m].children) \cap ToSet(list) = {}
      BY <1>10 DEF Packed
    <3> QED
      BY <1>4, <3>1, <3>2
  <2>3. ASSUME NEW m \in 1..(n + g), NEW l \in 1..(n + g), m # l
        PROVE  ToSet(nodes'[m].children) \cap ToSet(nodes'[l].children) = {}
    <3>1. CASE m \in 1..n /\ l \in 1..n
      BY <1>10, <2>3, <3>1 DEF NodesInv
    <3>2. CASE m \in 1..n /\ \E i \in 1..g : l = n + i
      BY <2>2, <3>2
    <3>3. CASE l \in 1..n /\ \E i \in 1..g : m = n + i
      BY <2>2, <3>3
    <3>4. CASE (\E i \in 1..g : m = n + i) /\ (\E i \in 1..g : l = n + i)
      <4>1. PICK i \in 1..g : m = n + i
        BY <3>4
      <4>2. PICK j \in 1..g : l = n + j
        BY <3>4
      <4>3. i # j
        BY <2>3, <4>1, <4>2
      <4>4. nodes'[m].children = groups[i] /\ nodes'[l].children = groups[j]
        BY <1>22, <4>1, <4>2
      <4> QED
        BY <1>3, <4>3, <4>4
    <3> QED
      BY <1>11, <3>1, <3>2, <3>3, <3>4
  <2> QED
    BY <1>10, <2>1, <2>3 DEF NodesInv
<1>16. DOMAIN parents = 1..g /\ \A i \in 1..g : parents[i] = <<"node", n + i>>
  BY <1>3 DEF n
<1>17. Listing(parents, Boundable) /\ parents # <<>>
  <2>1. \A i \in 1..g : parents[i] \in Boundable
    BY <1>10, <1>16 DEF Boundable
  <2>2. parents = [i \in 1..g |-> parents[i]]
    BY <1>3
  <2>3. parents \in [1..g -> Boundable]
    BY <2>1, <2>2
  <2>4. parents \in Seq(Boundable) /\ parents # <<>>
    <3>1. g \in Nat /\ g > 0
      BY <1>3
    <3> QED
      BY <2>3, <3>1, ListsAreFunctions
  <2>5. ASSUME NEW i \in 1..g, NEW j \in 1..g, parents[i] = parents[j] PROVE i = j
    <3>1. n + i = n + j
      BY <1>16, <2>5
    <3> QED
      BY <1>10, <3>1
  <2> QED
    BY <1>16, <2>4, <2>5 DEF Listing, IsInjective
<1>18. ASSUME NEW i \in 1..g
       PROVE  /\ AtHeight(parents[i], h + 1)' /\ getBounds(parents[i])' = computeBounds(groups[i])
              /\ children(parents[i])' = groups[i] /\ ~isItem(parents[i])
  <2>1. n + i \in Nat
    BY <1>3, <1>10
  <2>2. parents[i] = <<"node", n + i>> /\ parents[i] \in Boundable
    BY <1>16, <2>1 DEF Boundable
  <2> QED
    BY <1>22, <2>1, <2>2 DEF AtHeight, getBounds, children, isItem
<1>19. ASSUME NEW k \in DOMAIN itemBoundables PROVE \E p : Chain(p, k, h + 1)' /\ p[h + 1] \in ToSet(parents)
  <2>1. PICK p : Chain(p, k, h) /\ p[h] \in ToSet(list)
    BY DEF Packed
  <2>2. p[h] \in HeldBy(groups, g)
    BY <1>3, <2>1
  <2>3. PICK i \in 1..g : p[h] \in ToSet(groups[i])
    BY <2>2 DEF HeldBy
  <2> DEFINE q == [p EXCEPT ![h + 1] = parents[i]]
  <2>4. p \in [Nat -> Boundable]
    BY <2>1 DEF Chain
  <2>5. parents[i] \in Boundable
    BY <1>10, <1>16 DEF Boundable
  <2>6. q \in [Nat -> Boundable] /\ q[h + 1] = parents[i] /\ \A j \in 0..h : q[j] = p[j]
    BY <2>4, <2>5
  <2> HIDE DEF q
  <2> DEFINE e == itemBoundables[k].env
  <2>7. ASSUME NEW j \in 0..h
        PROVE  AtHeight(q[j], j)' /\ getBounds(q[j])' \in Box /\ Within(e, getBounds(q[j])')
               /\ getBounds(q[j])' = getBounds(p[j])
    <3>1. AtHeight(p[j], j) /\ getBounds(p[j]) \in Box /\ Within(e, getBounds(p[j]))
      BY <2>1 DEF Chain
    <3> QED
      BY <1>13, <2>6, <3>1
  <2>8. AtHeight(q[h + 1], h + 1)' /\ getBounds(q[h + 1])' \in Box /\ Within(e, getBounds(q[h + 1])')
    <3>1. getBounds(q[h + 1])' = computeBounds(groups[i])
      BY <1>18, <2>6
    <3>2. Within(e, getBounds(p[h])) /\ getBounds(p[h]) \in Box /\ e \in Box
      BY <2>1 DEF Chain, ItemsInv
    <3>3. Within(getBounds(p[h]), computeBounds(groups[i])) /\ computeBounds(groups[i]) \in Box
      BY <1>5, <2>3
    <3> HIDE DEF e
    <3>4. Within(e, computeBounds(groups[i]))
      BY <3>2, <3>3 DEF Within, Box
    <3> QED
      BY <1>18, <2>6, <3>1, <3>3, <3>4
  <2>9. ASSUME NEW j \in 0..h PROVE q[j] \in ToSet(children(q[j + 1]))'
    <3>1. CASE j = h
      BY <1>18, <2>3, <2>6, <3>1
    <3>2. CASE j # h
      <4>1. j \in 0..(h - 1) /\ j + 1 \in 0..h /\ j + 1 # 0
        BY <3>2
      <4>2. p[j] \in ToSet(children(p[j + 1])) /\ AtHeight(p[j + 1], j + 1)
        BY <2>1, <4>1 DEF Chain
      <4>3. ~isItem(p[j + 1])
        BY <4>1, <4>2 DEF AtHeight
      <4>4. children(p[j + 1])' = children(p[j + 1])
        BY <1>13, <4>2, <4>3
      <4> QED
        BY <2>6, <4>1, <4>2, <4>4
    <3> QED
      BY <3>1, <3>2
  <2>10. q[0] = <<"item", k>>
    BY <2>1, <2>6 DEF Chain
  <2>11. Chain(q, k, h + 1)'
    <3>1. \A j \in 0..(h + 1) : j \in 0..h \/ j = h + 1
      OBVIOUS
    <3>2. (h + 1) - 1 = h
      OBVIOUS
    <3>3. \A j \in 0..(h + 1) : /\ AtHeight(q[j], j)' /\ getBounds(q[j])' \in Box
                                /\ Within(itemBoundables'[k].env, getBounds(q[j])')
      BY <2>7, <2>8, <3>1
    <3> QED
      BY <2>6, <2>9, <2>10, <3>2, <3>3 DEF Chain
  <2>12. q[h + 1] \in ToSet(parents)
    BY <1>16, <2>6 DEF ToSet
  <2> QED
    BY <2>11, <2>12
<1>20. Packed(parents, h + 1)'
  <2>1. \A b \in ToSet(parents) : \E i \in 1..g : b = parents[i]
    BY <1>16 DEF ToSet
  <2>2. \A b \in ToSet(parents) : AtHeight(b, h + 1)' /\ getBounds(b)' \in Box
    BY <1>5, <1>18, <2>1
  <2>3. ASSUME NEW m \in DOMAIN nodes', NEW i \in 1..g PROVE parents[i] \notin ToSet(nodes'[m].children)
    <3> SUFFICES ASSUME parents[i] \in ToSet(nodes'[m].children) PROVE FALSE
      OBVIOUS
    <3>1. parents[i][2] = n + i /\ ~isItem(parents[i]) /\ n + i \notin 1..n
      BY <1>10, <1>16, <1>18
    <3>2. CASE m \in 1..n
      <4>1. AtHeight(parents[i], nodes[m].level)
        BY <1>10, <3>2 DEF NodesInv
      <4> QED
        BY <1>10, <3>1, <4>1 DEF AtHeight
    <3>3. CASE \E j \in 1..g : m = n + j
      <4>1. PICK j \in 1..g : m = n + j
        BY <3>3
      <4>2. parents[i] \in ToSet(list)
        BY <1>4, <1>22, <4>1
      <4> QED
        BY <1>10, <3>1, <4>2 DEF AtHeight, Packed
    <3> QED
      BY <1>10, <1>11, <3>2, <3>3
  <2>4. \A m \in DOMAIN nodes' : ToSet(nodes'[m].children) \cap ToSet(parents) = {}
    <3> SUFFICES ASSUME NEW m \in DOMAIN nodes', NEW b \in ToSet(parents), b \in ToSet(nodes'[m].children)
                 PROVE  FALSE
      OBVIOUS
    <3>1. PICK i \in 1..g : b = parents[i]
      BY <2>1
    <3> QED
      BY <2>3, <3>1
  <2> QED
    BY <1>17, <1>19, <2>2, <2>4 DEF Packed
<1>21. nodes'[n + 1].level = h /\ nodes'[n + 1].bounds \in Box
  <2>1. 1 \in 1..g
    BY <1>3
  <2> QED
    BY <1>5, <1>22, <2>1
<1> QED
  BY <1>3, <1>10, <1>15, <1>20, <1>21 DEF n, g

-----------------------------------------------------------------------------
(* Searches.                                                               *)

LEMMA NodeTypes ==
    ASSUME NodesInv, NEW m \in DOMAIN nodes
    PROVE  /\ nodes[m] = [level |-> nodes[m].level, children |-> nodes[m].children, bounds |-> nodes[m].bounds]
           /\ nodes[m].level \in Nat /\ nodes[m].children \in Seq(Boundable) /\ nodes[m].bounds \in Box \cup {NULL}
<1>1. nodes \in Seq(Node)
  BY DEF NodesInv
<1>2. nodes[m] \in Node
  BY <1>1
<1> QED
  BY <1>2 DEF Node

LEMMA LowerChain ==
    ASSUME NEW p, NEW k, NEW h \in Nat \ {0}, Chain(p, k, h)
    PROVE  /\ Chain(p, k, h - 1) /\ p[h - 1] \in ToSet(children(p[h]))
           /\ getBounds(p[h - 1]) \in Box /\ Within(itemBoundables[k].env, getBounds(p[h - 1]))
<1>1. /\ \A i \in 0..(h - 1) : i \in 0..h
      /\ \A i \in 0..((h - 1) - 1) : i \in 0..(h - 1)
      /\ h - 1 \in 0..(h - 1) /\ h - 1 \in 0..h /\ (h - 1) + 1 = h
  OBVIOUS
<1> QED
  BY <1>1 DEF Chain

LEMMA WantedMatches ==
    ASSUME NEW k, NEW e, call.op # "all" => call.env \in Box,
           itemBoundables[k].env \in Box, getBounds(e) \in Box, Within(itemBoundables[k].env, getBounds(e)), Wanted(k)
    PROVE  isMatch(e)
BY WithinMeets DEF Wanted, isMatch

\* The next level holds what the search must reach, and nothing twice.
LEMMA DescendHolds ==
    ASSUME ItemsInv, NodesInv, call.op # "all" => call.env \in Box,
           NEW h \in Nat \ {0}, Listing(list, Boundable), \A b \in ToSet(list) : AtHeight(b, h)
    PROVE  /\ Listing(descend(list), Boundable)
           /\ \A b \in ToSet(descend(list)) : AtHeight(b, h - 1)
           /\ \A k \in Alive : \A p : Wanted(k) /\ Chain(p, k, h) /\ p[h] \in ToSet(list)
                                     => Chain(p, k, h - 1) /\ p[h - 1] \in ToSet(descend(list))
<1> DEFINE n == Len(list)
           part(i) == only(children(list[i]), matches(children(list[i])))
           parts == [i \in DOMAIN list |-> part(i)]
<1>1. /\ list \in Seq(Boundable) /\ n \in Nat /\ DOMAIN list = 1..n /\ ToSet(list) = {list[i] : i \in 1..n}
      /\ \A i, j \in 1..n : list[i] = list[j] => i = j
  BY DEF Listing, IsInjective, ToSet
<1> HIDE DEF n
<1>2. ASSUME NEW i \in 1..n
      PROVE  /\ list[i] \in Boundable /\ ~isItem(list[i]) /\ list[i][2] \in DOMAIN nodes
             /\ nodes[list[i][2]].level = h - 1
             /\ Listing(children(list[i]), Boundable)
             /\ \A b \in ToSet(children(list[i])) : AtHeight(b, h - 1) /\ getBounds(b) \in Box
  <2>1. AtHeight(list[i], h) /\ list[i] \in Boundable
    BY <1>1
  <2>2. ~isItem(list[i]) /\ list[i][2] \in DOMAIN nodes /\ h = nodes[list[i][2]].level + 1
    BY <2>1 DEF AtHeight
  <2>3. nodes[list[i][2]].level \in Nat
    BY <2>2, NodeTypes
  <2>4. nodes[list[i][2]].level = h - 1
    BY <2>2, <2>3
  <2> QED
    BY <2>1, <2>2, <2>4 DEF NodesInv, children
<1>3. ASSUME NEW i \in 1..n
      PROVE  /\ Listing(part(i), Boundable)
             /\ ToSet(part(i)) = ToSet(children(list[i])) \cap matches(children(list[i]))
  BY <1>2, OnlyHolds
<1>4. ASSUME NEW i \in 1..n, NEW b \in ToSet(part(i))
      PROVE  b \in ToSet(children(list[i])) /\ AtHeight(b, h - 1)
  BY <1>2, <1>3
<1>5. ASSUME NEW i \in 1..n, NEW j \in 1..n, i # j PROVE ToSet(part(i)) \cap ToSet(part(j)) = {}
  <2>1. list[i] # list[j]
    BY <1>1, <1>5
  <2>2. list[i][2] # list[j][2]
    BY <1>2, <2>1 DEF Boundable, isItem
  <2>3. ToSet(children(list[i])) \cap ToSet(children(list[j])) = {}
    BY <1>2, <2>2 DEF NodesInv, children
  <2> QED
    BY <1>4, <2>3
<1>6. \A i \in 1..n : parts[i] = part(i)
  BY <1>1
<1>7. parts \in Seq(Seq(Boundable)) /\ Len(parts) = n
  <2>1. \A i \in 1..n : parts[i] \in Seq(Boundable)
    BY <1>3, <1>6 DEF Listing
  <2>2. parts = [i \in 1..n |-> parts[i]]
    BY <1>1
  <2> HIDE DEF parts
  <2>3. parts \in [1..n -> Seq(Boundable)]
    BY <2>1, <2>2
  <2> QED
    BY <1>1, <2>3, ListsAreFunctions
<1>8. descend(list) = FlattenSeq(parts)
  BY DEF descend
<1> HIDE DEF parts, part
<1>9. Apart(parts, Boundable)
  BY <1>3, <1>5, <1>6, <1>7 DEF Apart
<1>10. Listing(descend(list), Boundable) /\ ToSet(descend(list)) = HeldBy(parts, n)
  BY <1>7, <1>8, <1>9, FlattenHolds
<1>11. ASSUME NEW b \in ToSet(descend(list)) PROVE AtHeight(b, h - 1)
  <2>1. PICK i \in 1..n : b \in ToSet(parts[i])
    BY <1>10 DEF HeldBy
  <2> QED
    BY <1>4, <1>6, <2>1
<1>12. ASSUME NEW k \in Alive, NEW p, Wanted(k), Chain(p, k, h), p[h] \in ToSet(list)
       PROVE  Chain(p, k, h - 1) /\ p[h - 1] \in ToSet(descend(list))
  <2>1. /\ Chain(p, k, h - 1) /\ p[h - 1] \in ToSet(children(p[h]))
        /\ getBounds(p[h - 1]) \in Box /\ Within(itemBoundables[k].env, getBounds(p[h - 1]))
    BY <1>12, LowerChain
  <2>2. PICK i \in 1..n : p[h] = list[i]
    BY <1>1, <1>12
  <2>3. itemBoundables[k].env \in Box
    BY DEF ItemsInv, Alive
  <2>4. isMatch(p[h - 1])
    BY <1>12, <2>1, <2>3, WantedMatches
  <2>5. p[h - 1] \in matches(children(list[i]))
    BY <2>1, <2>2, <2>4 DEF matches
  <2>6. p[h - 1] \in ToSet(parts[i])
    BY <1>3, <1>6, <2>1, <2>2, <2>5
  <2> QED
    BY <1>10, <2>1, <2>6 DEF HeldBy
<1> QED
  BY <1>10, <1>11, <1>12

-----------------------------------------------------------------------------
(* Removal.                                                                *)

\* The nodes above the members of a set only.
Above(X) == {<<"node", m>> : m \in {k \in DOMAIN nodes : nodes[k].children # <<>> /\ ToSet(nodes[k].children) \subseteq X}}

\* The recursion of prunedWith.
Pruned(g, n) == g = [l \in Nat |-> IF l = 0 THEN {<<"node", n>>} ELSE g[l - 1] \cup Above(g[l - 1])]

LEMMA PruningExists ==
    ASSUME NodesInv, NEW n \in Nat
    PROVE  \E g \in [Nat -> SUBSET Boundable] : Pruned(g, n)
<1> DEFINE S == SUBSET Boundable
           F == [X \in S |-> X \cup Above(X)]
<1>1. {<<"node", n>>} \in S
  BY DEF Boundable
<1>2. ASSUME NEW X \in S PROVE X \cup Above(X) \in S
  <2>1. DOMAIN nodes \subseteq Nat
    BY DEF NodesInv
  <2> QED
    BY <2>1 DEF Above, Boundable
<1>3. F \in [S -> S]
  BY <1>2
<1>4. PICK g \in [Nat -> S] : IsIteration(g, {<<"node", n>>}, F)
  <2> HIDE DEF F, S
  <2> QED
    BY <1>1, <1>3, IterationExists
<1>5. \A l \in Nat : g[l] = IF l = 0 THEN {<<"node", n>>} ELSE F[g[l - 1]]
  BY <1>4 DEF IsIteration
<1>6. \A l \in Nat : l # 0 => F[g[l - 1]] = g[l - 1] \cup Above(g[l - 1])
  <2> SUFFICES ASSUME NEW l \in Nat, l # 0 PROVE F[g[l - 1]] = g[l - 1] \cup Above(g[l - 1])
    OBVIOUS
  <2>1. g[l - 1] \in S
    BY <1>4
  <2> QED
    BY <2>1
<1> HIDE DEF F
<1>7. g = [l \in Nat |-> g[l]]
  BY <1>4
<1>8. \A l \in Nat : g[l] = IF l = 0 THEN {<<"node", n>>} ELSE g[l - 1] \cup Above(g[l - 1])
  BY <1>5, <1>6
<1>9. Pruned(g, n)
  BY <1>7, <1>8 DEF Pruned
<1> QED
  BY <1>4, <1>9

\* Pruning takes away no node above an item other than the last of the leaf.
LEMMA PruningSpares ==
    ASSUME NodesInv, NEW n \in DOMAIN nodes, nodes[root[2]].level \in Nat,
           NEW p, NEW k, NEW h \in Nat, Chain(p, k, h),
           ToSet(nodes[n].children) \subseteq {<<"item", l>> : l \in Nat \ {k}}
    PROVE  \A i \in 0..h : p[i] \notin prunedWith(n)
<1> DEFINE g == CHOOSE f : Pruned(f, n)
           W == {p[i] : i \in 0..h}
           P == {l \in Nat : g[l] \cap W = {}}
<1>1. n \in Nat
  BY DEF NodesInv
<1>2. Pruned(g, n)
  BY <1>1, PruningExists
<1>3. prunedWith(n) = g[nodes[root[2]].level] \ {root}
  BY DEF prunedWith, Pruned, Above
<1> HIDE DEF g
<1>4. g[0] = {<<"node", n>>} /\ \A l \in Nat : g[l + 1] = g[l] \cup Above(g[l])
  <2>1. \A l \in Nat : g[l] = IF l = 0 THEN {<<"node", n>>} ELSE g[l - 1] \cup Above(g[l - 1])
    BY <1>2 DEF Pruned
  <2>2. \A l \in Nat : l + 1 \in Nat /\ l + 1 # 0 /\ (l + 1) - 1 = l
    OBVIOUS
  <2>3. 0 \in Nat
    OBVIOUS
  <2> QED
    BY <2>1, <2>2, <2>3
<1>5. ASSUME NEW m \in DOMAIN nodes, NEW i \in 0..h, p[i] = <<"node", m>>
      PROVE  i # 0 /\ i - 1 \in 0..h /\ p[i - 1] \in ToSet(nodes[m].children)
  <2>1. i # 0
    BY <1>5 DEF Chain
  <2>2. i - 1 \in 0..(h - 1) /\ (i - 1) + 1 = i /\ i - 1 \in 0..h
    BY <2>1
  <2> QED
    BY <1>5, <2>1, <2>2 DEF Chain, children
<1>6. 0 \in P
  <2> SUFFICES ASSUME NEW i \in 0..h, p[i] = <<"node", n>> PROVE FALSE
    BY <1>4
  <2>1. i # 0 /\ i - 1 \in 0..h /\ p[i - 1] \in ToSet(nodes[n].children)
    BY <1>5
  <2>2. PICK l \in Nat \ {k} : p[i - 1] = <<"item", l>>
    BY <2>1
  <2>3. i - 1 = 0
    BY <2>1, <2>2 DEF Chain, AtHeight, isItem
  <2> QED
    BY <2>2, <2>3 DEF Chain
<1>7. ASSUME NEW l \in Nat, l \in P PROVE l + 1 \in P
  <2> SUFFICES ASSUME NEW i \in 0..h, p[i] \in g[l + 1] PROVE FALSE
    OBVIOUS
  <2>1. p[i] \in Above(g[l])
    BY <1>4, <1>7
  <2>2. PICK m \in DOMAIN nodes : p[i] = <<"node", m>> /\ ToSet(nodes[m].children) \subseteq g[l]
    BY <2>1 DEF Above
  <2>3. i - 1 \in 0..h /\ p[i - 1] \in g[l]
    BY <1>5, <2>2
  <2> QED
    BY <1>7, <2>3
<1>8. \A l \in Nat : l \in P
  <2> HIDE DEF P
  <2> QED
    BY <1>6, <1>7, InductionOnSets
<1> QED
  BY <1>3, <1>8

\* The tree without child "at" of leaf n, and without the nodes of gone.
Without(n, at, gone) ==
    [m \in DOMAIN nodes |-> [nodes[m] EXCEPT !.children =
        IF m = n THEN RemoveAt(nodes[n].children, at) ELSE only(@, ToSet(@) \ gone)]]

LEMMA WithoutHolds ==
    ASSUME ItemsInv, NodesInv, NEW n \in DOMAIN nodes, nodes[n].level = 0,
           NEW at \in DOMAIN nodes[n].children, NEW k, nodes[n].children[at] = <<"item", k>>,
           NEW gone, nodes' = Without(n, at, gone), itemBoundables' = itemBoundables,
           removed' = removed \cup {k}
    PROVE  /\ k \in Alive /\ Alive' = Alive \ {k} /\ NodesInv' /\ DOMAIN nodes' = DOMAIN nodes
           /\ \A m \in DOMAIN nodes : nodes'[m].level = nodes[m].level /\ nodes'[m].bounds = nodes[m].bounds
           /\ \A p, l, h : l \in Alive \ {k} /\ h \in Nat /\ Chain(p, l, h) /\ (\A i \in 0..h : p[i] \notin gone)
                               => Chain(p, l, h)'
<1> DEFINE kids(m) == nodes[m].children
           left(m) == IF m = n THEN RemoveAt(kids(n), at) ELSE only(kids(m), ToSet(kids(m)) \ gone)
           item == <<"item", k>>
<1>1. ASSUME NEW m \in DOMAIN nodes
      PROVE  /\ nodes'[m] = [nodes[m] EXCEPT !.children = left(m)]
             /\ nodes'[m].level = nodes[m].level /\ nodes'[m].bounds = nodes[m].bounds
             /\ nodes'[m].children = left(m)
  <2>1. nodes'[m] = [nodes[m] EXCEPT !.children = left(m)]
    BY DEF Without
  <2>2. nodes[m] = [level |-> nodes[m].level, children |-> nodes[m].children, bounds |-> nodes[m].bounds]
    BY NodeTypes
  <2> HIDE DEF left
  <2> QED
    BY <2>1, <2>2
<1>2. /\ DOMAIN nodes' = DOMAIN nodes /\ DOMAIN nodes = 1..Len(nodes) /\ Len(nodes) \in Nat
      /\ nodes' = [m \in 1..Len(nodes) |-> nodes'[m]]
  BY DEF Without, NodesInv
<1>3. ASSUME NEW m \in DOMAIN nodes
      PROVE  /\ Listing(left(m), Boundable) /\ ToSet(left(m)) \subseteq ToSet(kids(m))
             /\ ToSet(left(m)) = IF m = n THEN ToSet(kids(m)) \ {item} ELSE ToSet(kids(m)) \ gone
  <2>1. Listing(kids(m), Boundable)
    BY DEF NodesInv
  <2>2. CASE m = n
    <3>1. at \in 1..Len(kids(n))
      BY <2>1, <2>2 DEF Listing
    <3>2. /\ Listing(RemoveAt(kids(n), at), Boundable)
          /\ ToSet(RemoveAt(kids(n), at)) = ToSet(kids(n)) \ {kids(n)[at]}
      BY <2>1, <2>2, <3>1, RemoveAtHolds
    <3> QED
      BY <2>2, <3>2
  <2>3. CASE m # n
    <3>1. /\ Listing(only(kids(m), ToSet(kids(m)) \ gone), Boundable)
          /\ ToSet(only(kids(m), ToSet(kids(m)) \ gone)) = ToSet(kids(m)) \cap (ToSet(kids(m)) \ gone)
      BY <2>1, OnlyHolds
    <3> QED
      BY <2>3, <3>1
  <2> QED
    BY <2>2, <2>3
<1>4. item \in ToSet(kids(n))
  BY DEF ToSet
<1>5. k \in Alive /\ Alive' = Alive \ {k}
  <2>1. AtHeight(item, 0)
    BY <1>4 DEF NodesInv
  <2> QED
    BY <2>1 DEF AtHeight, isItem, Alive
<1> HIDE DEF left
<1>6. ASSUME NEW b, NEW x, AtHeight(b, x), b # item PROVE AtHeight(b, x)' /\ getBounds(b)' = getBounds(b)
  <2>1. CASE isItem(b)
    <3>1. b[2] # k
      BY <1>6, <2>1 DEF AtHeight, Boundable, isItem
    <3> QED
      BY <1>5, <1>6, <2>1, <3>1 DEF AtHeight, getBounds
  <2>2. CASE ~isItem(b)
    BY <1>1, <1>2, <1>6, <2>2 DEF AtHeight, getBounds
  <2> QED
    BY <2>1, <2>2
<1>7. ASSUME NEW m \in DOMAIN nodes, NEW b \in ToSet(left(m))
      PROVE  b # item /\ AtHeight(b, nodes[m].level) /\ getBounds(b) \in Box
  <2>1. b \in ToSet(kids(m))
    BY <1>3
  <2>2. b # item
    <3>1. CASE m = n
      BY <1>3, <3>1
    <3>2. CASE m # n
      BY <1>4, <2>1, <3>2 DEF NodesInv
    <3> QED
      BY <3>1, <3>2
  <2> QED
    BY <2>1, <2>2 DEF NodesInv
<1>8. NodesInv'
  <2>1. ASSUME NEW m \in DOMAIN nodes PROVE nodes'[m] \in Node
    <3>1. /\ nodes[m] = [level |-> nodes[m].level, children |-> nodes[m].children, bounds |-> nodes[m].bounds]
          /\ nodes[m].level \in Nat /\ nodes[m].bounds \in Box \cup {NULL}
      BY NodeTypes
    <3>2. left(m) \in Seq(Boundable)
      BY <1>3 DEF Listing
    <3>3. nodes'[m] = [level |-> nodes[m].level, children |-> left(m), bounds |-> nodes[m].bounds]
      BY <1>1, <3>1
    <3> QED
      BY <3>1, <3>2, <3>3 DEF Node
  <2>2. nodes' \in Seq(Node)
    <3>1. nodes' \in [1..Len(nodes) -> Node]
      BY <1>2, <2>1
    <3> QED
      BY <1>2, <3>1, ListsAreFunctions
  <2>3. ASSUME NEW m \in DOMAIN nodes
        PROVE  /\ Listing(nodes'[m].children, Boundable)
               /\ \A b \in ToSet(nodes'[m].children) : AtHeight(b, nodes[m].level)' /\ getBounds(b)' \in Box
    <3> DEFINE x == nodes[m].level
    <3>1. x' = x /\ nodes'[m].children = left(m)
      BY <1>1
    <3>2. \A b \in ToSet(left(m)) : b # item /\ AtHeight(b, x) /\ getBounds(b) \in Box
      BY <1>7
    <3> HIDE DEF x
    <3>3. \A b \in ToSet(left(m)) : AtHeight(b, x)' /\ getBounds(b)' \in Box
      BY <1>6, <3>1, <3>2
    <3> QED
      BY <1>3, <3>1, <3>3 DEF x
  <2>4. ASSUME NEW m \in DOMAIN nodes, NEW l \in DOMAIN nodes, m # l
        PROVE  ToSet(nodes'[m].children) \cap ToSet(nodes'[l].children) = {}
    <3>1. ToSet(kids(m)) \cap ToSet(kids(l)) = {}
      BY <2>4 DEF NodesInv
    <3>2. ToSet(left(m)) \subseteq ToSet(kids(m)) /\ ToSet(left(l)) \subseteq ToSet(kids(l))
      BY <1>3
    <3> QED
      BY <1>1, <3>1, <3>2
  <2> QED
    BY <1>2, <2>2, <2>3, <2>4 DEF NodesInv
<1>9. ASSUME NEW p, NEW l \in Alive \ {k}, NEW h \in Nat, Chain(p, l, h), \A i \in 0..h : p[i] \notin gone
      PROVE  Chain(p, l, h)'
  <2>1. ASSUME NEW i \in 0..h PROVE p[i] # item
    <3> SUFFICES ASSUME p[i] = item PROVE FALSE
      OBVIOUS
    <3>1. i = 0
      BY <1>9 DEF Chain, AtHeight, isItem
    <3> QED
      BY <1>9, <3>1 DEF Chain
  <2>2. ASSUME NEW i \in 0..h
        PROVE  /\ AtHeight(p[i], i)' /\ getBounds(p[i])' \in Box
               /\ Within(itemBoundables'[l].env, getBounds(p[i])')
    <3>1. AtHeight(p[i], i) /\ getBounds(p[i]) \in Box /\ Within(itemBoundables[l].env, getBounds(p[i]))
      BY <1>9 DEF Chain
    <3> QED
      BY <1>6, <2>1, <3>1
  <2>3. ASSUME NEW i \in 0..(h - 1) PROVE p[i] \in ToSet(children(p[i + 1]))'
    <3>1. i \in 0..h /\ i + 1 \in 0..h /\ i + 1 # 0
      OBVIOUS
    <3>2. p[i] \in ToSet(children(p[i + 1])) /\ AtHeight(p[i + 1], i + 1)
      BY <1>9, <3>1 DEF Chain
    <3>3. p[i + 1][2] \in DOMAIN nodes
      BY <3>1, <3>2 DEF AtHeight
    <3> DEFINE m == p[i + 1][2]
    <3>4. p[i] \in ToSet(kids(m)) /\ p[i] # item /\ p[i] \notin gone
      BY <1>9, <2>1, <3>1, <3>2 DEF children
    <3>5. children(p[i + 1])' = left(m)
      BY <1>1, <3>3 DEF children
    <3> HIDE DEF m
    <3>6. p[i] \in ToSet(left(m))
      BY <1>3, <3>3, <3>4 DEF m
    <3> QED
      BY <3>5, <3>6
  <2> QED
    BY <1>9, <2>2, <2>3 DEF Chain
<1> QED
  BY <1>1, <1>2, <1>5, <1>8, <1>9

-----------------------------------------------------------------------------
(* The calls.                                                              *)

Index == INSTANCE SpatialIndex WITH Id <- 1..MaxInserts

LEMMA CallsInBox ==
    ASSUME EntriesFit, CallInv, pc \notin {"idle", "crashed", "aborted"}
    PROVE  call.op # "all" => call.env \in Box
BY DEF CallInv, EntriesFit

LEMMA StoredAre == DOMAIN stored = Alive /\ \A k \in Alive : stored[k] = itemBoundables[k]
BY DEF stored, Alive

LEMMA Frame ==
    ASSUME TreeInv, UNCHANGED <<built, itemBoundables, nodes, root, removed>>
    PROVE  ItemsInv' /\ NodesInv' /\ RootInv' /\ stored' = stored
<1>1. ItemsInv'
  BY DEF TreeInv, ItemsInv
<1>2. /\ Alive' = Alive /\ NodesInv' = NodesInv
      /\ \A b : getBounds(b)' = getBounds(b)
      /\ \A p, k, h : Chain(p, k, h)' = Chain(p, k, h)
  BY SameTree
<1>3. NodesInv'
  BY <1>2 DEF TreeInv
<1>4. rootHeight' = rootHeight
  BY DEF rootHeight
<1>5. RootInv'
  <2> SUFFICES ASSUME built PROVE RootInv'
    BY DEF RootInv
  <2>1. RootInv
    BY DEF TreeInv
  <2> QED
    BY <1>2, <1>4, <2>1 DEF RootInv
<1>6. stored' = stored
  BY DEF stored
<1> QED
  BY <1>1, <1>3, <1>5, <1>6

LEMMA InitHolds == ASSUME EntriesFit, Init PROVE TreeInv
<1>1. ItemsInv
  BY DEF Init, ItemsInv, EntriesFit
<1>2. NodesInv
  BY DEF Init, NodesInv
<1> QED
  BY <1>1, <1>2 DEF Init, TreeInv, PackingInv, RootInv, CallInv, SearchInv, NearestInv

LEMMA StoredGrows ==
    ASSUME EntriesFit, ItemsInv, removed = {}, NEW e \in Entries, Len(itemBoundables) < MaxInserts,
           itemBoundables' = Append(itemBoundables, e), removed' = removed
    PROVE  \E k \in (1..MaxInserts) \ DOMAIN stored :
              stored' = [j \in DOMAIN stored \cup {k} |-> IF j = k THEN e ELSE stored[j]]
<1> DEFINE n == Len(itemBoundables)
<1>1. itemBoundables \in Seq(Entries) /\ n \in Nat /\ DOMAIN itemBoundables = 1..n
  BY DEF ItemsInv
<1>2. /\ DOMAIN itemBoundables' = 1..(n + 1)
      /\ \A k \in 1..(n + 1) : itemBoundables'[k] = IF k = n + 1 THEN e ELSE itemBoundables[k]
  BY <1>1
<1>3. stored = [k \in 1..n |-> itemBoundables[k]] /\ stored' = [k \in 1..(n + 1) |-> itemBoundables'[k]]
  BY <1>1, <1>2 DEF stored
<1>4. 1..(n + 1) = (1..n) \cup {n + 1} /\ n + 1 \notin 1..n
  BY <1>1
<1>5. n + 1 \in 1..MaxInserts
  BY <1>1 DEF EntriesFit
<1> HIDE DEF n
<1>6. DOMAIN stored = 1..n /\ \A k \in 1..n : stored[k] = itemBoundables[k]
  BY <1>3
<1>7. stored' = [j \in DOMAIN stored \cup {n + 1} |-> IF j = n + 1 THEN e ELSE stored[j]]
  BY <1>2, <1>3, <1>4, <1>6
<1> QED
  BY <1>4, <1>5, <1>6, <1>7

\* "Cannot insert items into an STR packed R-tree after it has been built."
NotLate == built => UNCHANGED itemBoundables

LEMMA InsertHolds ==
    ASSUME EntriesFit, TreeInv, NEW e \in Entries, insert(e), NotLate
    PROVE  TreeInv' /\ (Index!insert \/ UNCHANGED Index!vars)
<1>1. CASE isNull(e.env)
  <2>1. UNCHANGED vars
    BY <1>1 DEF insert
  <2>2. ItemsInv' /\ NodesInv' /\ RootInv' /\ stored' = stored
    BY <2>1, Frame DEF vars
  <2>4. pc = "idle"
    BY DEF insert
  <2> QED
    BY <2>1, <2>2, <2>4 DEF vars, TreeInv, PackingInv, CallInv, SearchInv, NearestInv, Index!vars
<1>2. CASE ~isNull(e.env) /\ built
  <2>1. pc = "idle" /\ pc' = "aborted" /\ UNCHANGED <<built, itemBoundables, nodes, root, removed, call, list, priQ, minPair, answer>>
    <3>1. Append(itemBoundables, e) # itemBoundables
      <4>1. itemBoundables \in Seq(Entries)
        BY DEF TreeInv, ItemsInv
      <4> QED
        BY <4>1
    <3> QED
      BY <1>2, <3>1 DEF insert, NotLate
  <2>2. ItemsInv' /\ NodesInv' /\ RootInv' /\ stored' = stored
    BY <2>1, Frame
  <2> QED
    BY <1>2, <2>1, <2>2 DEF TreeInv, PackingInv, CallInv, SearchInv, NearestInv, Index!vars
<1>3. CASE ~isNull(e.env) /\ ~built
  <2>1. /\ pc = "idle" /\ pc' = pc /\ itemBoundables' = Append(itemBoundables, e) /\ answer' = <<"none">>
        /\ Len(itemBoundables) < MaxInserts
        /\ UNCHANGED <<built, nodes, root, removed, call, list, priQ, minPair>>
    BY <1>3 DEF insert
  <2>2. removed = {} /\ nodes = <<>> /\ ItemsInv
    BY <1>3, <2>1 DEF TreeInv, PackingInv
  <2>3. ItemsInv'
    <3> DEFINE n == Len(itemBoundables)
    <3>1. itemBoundables \in Seq(Entries) /\ n \in Nat /\ DOMAIN itemBoundables = 1..n
      BY <2>2 DEF ItemsInv
    <3>2. /\ itemBoundables' \in Seq(Entries) /\ Len(itemBoundables') = n + 1 /\ DOMAIN itemBoundables' = 1..(n + 1)
          /\ \A k \in 1..(n + 1) : itemBoundables'[k] = IF k = n + 1 THEN e ELSE itemBoundables[k]
      BY <2>1, <3>1
    <3>3. e.env \in Box /\ ~isNull(e.env)
      BY <1>3 DEF EntriesFit
    <3>4. \A k \in 1..(n + 1) : k = n + 1 \/ k \in 1..n
      BY <3>1
    <3>5. \A k \in 1..n : itemBoundables[k].env \in Box /\ ~isNull(itemBoundables[k].env)
      BY <2>2, <3>1 DEF ItemsInv
    <3>6. n + 1 <= MaxInserts
      BY <2>1, <3>1 DEF EntriesFit
    <3> HIDE DEF n
    <3>7. \A k \in 1..(n + 1) : itemBoundables'[k].env \in Box /\ ~isNull(itemBoundables'[k].env)
      BY <3>2, <3>3, <3>4, <3>5
    <3> QED
      BY <2>1, <2>2, <3>2, <3>6, <3>7 DEF ItemsInv
  <2>4. NodesInv'
    BY <2>1, <2>2 DEF NodesInv
  <2>5. Index!insert
    BY <2>1, <2>2, StoredGrows DEF Index!insert
  <2>6. RootInv' /\ PackingInv'
    BY <1>3, <2>1, <2>2 DEF RootInv, PackingInv
  <2>7. CallInv' /\ SearchInv' /\ NearestInv'
    BY <2>1 DEF TreeInv, CallInv, SearchInv, NearestInv
  <2> QED
    BY <2>3, <2>4, <2>5, <2>6, <2>7 DEF TreeInv
<1> QED
  BY <1>1, <1>2, <1>3

LEMMA BeginHolds ==
    ASSUME TreeInv, NEW op, NEW env, NEW item, begin(op, env, item),
           \/ op = "all"
           \/ op \in {"query", "nearestNeighbour"} /\ env \in Searches
           \/ op = "remove" /\ \E e \in Entries : env = e.env /\ item = e.item
    PROVE  TreeInv' /\ Index!begin
<1>1. /\ pc = "idle" /\ call' = [op |-> op, env |-> env, item |-> item] /\ answer' = <<"none">>
      /\ pc' = (IF built THEN "start" ELSE "build")
      /\ UNCHANGED <<built, itemBoundables, nodes, root, removed, list, priQ, minPair>>
  BY DEF begin
<1>2. ItemsInv' /\ NodesInv' /\ RootInv' /\ stored' = stored
  BY <1>1, Frame
<1>3. call'.op = op /\ call'.env = env /\ call'.item = item
  BY <1>1
<1>4. CallInv'
  BY <1>1, <1>3 DEF CallInv
<1>5. PackingInv' /\ SearchInv' /\ NearestInv'
  BY <1>1 DEF TreeInv, PackingInv, SearchInv, NearestInv
<1> QED
  BY <1>1, <1>2, <1>4, <1>5 DEF TreeInv, Index!begin

LEMMA IterateHolds ==
    ASSUME TreeInv, iterate
    PROVE  TreeInv' /\ Index!iterate
<1>1. /\ pc = "idle" /\ answer' = <<"iterate", [k \in DOMAIN itemBoundables |-> k]>>
      /\ UNCHANGED <<built, itemBoundables, nodes, root, removed, pc, call, list, priQ, minPair>>
  BY DEF iterate
<1>2. ItemsInv' /\ NodesInv' /\ RootInv' /\ stored' = stored
  BY <1>1, Frame
<1>3. CallInv' /\ PackingInv' /\ SearchInv' /\ NearestInv'
  BY <1>1 DEF TreeInv, CallInv, PackingInv, SearchInv, NearestInv
<1>4. Index!iterate
  <2> DEFINE all == [k \in DOMAIN itemBoundables |-> k]
  <2>1. Index!ToSet(all) = DOMAIN itemBoundables
    BY DEF Index!ToSet
  <2>2. Index!IsInjective(all)
    BY DEF Index!IsInjective
  <2>3. DOMAIN stored \subseteq DOMAIN itemBoundables
    BY DEF stored
  <2> QED
    BY <1>1, <1>2, <2>1, <2>2, <2>3 DEF Index!iterate
<1> QED
  BY <1>2, <1>3, <1>4 DEF TreeInv

LEMMA BuildHolds ==
    ASSUME EntriesFit, TreeInv, build
    PROVE  TreeInv' /\ UNCHANGED Index!vars
<1>1. /\ pc = "build" /\ ~built /\ removed = {} /\ nodes = <<>> /\ ItemsInv
      /\ UNCHANGED <<itemBoundables, removed, call, priQ, minPair, answer>>
  BY DEF build, TreeInv, PackingInv
<1>2. ItemsInv' /\ stored' = stored
  BY <1>1 DEF ItemsInv, stored
<1>3. CASE itemBoundables = <<>>
  <2>1. /\ nodes' = <<[level |-> 0, children |-> <<>>, bounds |-> NULL]>>
        /\ root' = <<"node", 1>> /\ built' /\ pc' = "start"
    BY <1>3 DEF build
  <2>2. /\ DOMAIN nodes' = {1} /\ nodes'[1].level = 0 /\ nodes'[1].children = <<>> /\ nodes'[1].bounds = NULL
        /\ nodes' \in Seq(Node)
    BY <2>1 DEF Node
  <2>3. Listing(<<>>, Boundable) /\ ToSet(<<>>) = {}
    BY DEF Listing, IsInjective, ToSet
  <2>4. NodesInv'
    BY <2>2, <2>3 DEF NodesInv
  <2>5. Alive' = {}
    BY <1>1, <1>3 DEF Alive
  <2>6. root' \in Boundable /\ ~isItem(root') /\ root'[2] = 1 /\ getBounds(root)' = NULL
    BY <2>1, <2>2 DEF Boundable, isItem, getBounds
  <2>7. RootInv'
    BY <1>1, <1>3, <2>2, <2>5, <2>6 DEF RootInv, isItem
  <2>8. PackingInv' /\ CallInv' /\ SearchInv' /\ NearestInv'
    BY <1>1, <2>1 DEF TreeInv, PackingInv, CallInv, SearchInv, NearestInv
  <2> QED
    BY <1>1, <1>2, <2>4, <2>7, <2>8 DEF TreeInv, Index!vars
<1>4. CASE itemBoundables # <<>>
  <2>1. list' = ItemBoundables /\ pc' = "createHigherLevels" /\ UNCHANGED <<nodes, root, built>>
    BY <1>4 DEF build
  <2>2. NodesInv' /\ RootInv'
    BY <1>1, <2>1, Frame
  <2> DEFINE n == Len(itemBoundables)
  <2>3. n \in Nat /\ n # 0 /\ DOMAIN itemBoundables = 1..n
    BY <1>1, <1>4 DEF ItemsInv
  <2> HIDE DEF n
  <2>4. ASSUME NEW k \in 1..n
        PROVE  LET b == <<"item", k>>
               IN  /\ b \in Boundable /\ AtHeight(b, 0) /\ getBounds(b) = itemBoundables[k].env
                   /\ getBounds(b) \in Box /\ Within(itemBoundables[k].env, getBounds(b))
    <3>1. itemBoundables[k].env \in Box
      BY <1>1, <2>3 DEF ItemsInv
    <3>2. Within(itemBoundables[k].env, itemBoundables[k].env)
      BY <3>1 DEF Within, Box
    <3> QED
      BY <1>1, <2>3, <3>1, <3>2 DEF Boundable, AtHeight, isItem, Alive, getBounds
  <2>5. DOMAIN ItemBoundables = 1..n /\ \A k \in 1..n : ItemBoundables[k] = <<"item", k>>
    BY <2>3 DEF ItemBoundables
  <2>6. Listing(ItemBoundables, Boundable) /\ ItemBoundables # <<>>
    <3>1. ItemBoundables \in [1..n -> Boundable]
      BY <2>3, <2>4 DEF ItemBoundables
    <3>2. ItemBoundables \in Seq(Boundable) /\ ItemBoundables # <<>>
      BY <2>3, <3>1, ListsAreFunctions
    <3> QED
      BY <2>5, <3>2 DEF Listing, IsInjective
  <2>7. \A b \in ToSet(ItemBoundables) : AtHeight(b, 0) /\ getBounds(b) \in Box
    BY <2>4, <2>5 DEF ToSet
  <2>8. ASSUME NEW k \in 1..n PROVE \E p : Chain(p, k, 0) /\ p[0] \in ToSet(ItemBoundables)
    <3> DEFINE p == [i \in Nat |-> <<"item", k>>]
    <3>1. p \in [Nat -> Boundable] /\ p[0] = <<"item", k>> /\ \A i \in 0..0 : i = 0
      BY <2>4
    <3> HIDE DEF p
    <3>2. Chain(p, k, 0)
      <4>1. 0..(0 - 1) = {}
        OBVIOUS
      <4> QED
        BY <2>4, <3>1, <4>1 DEF Chain
    <3>3. p[0] \in ToSet(ItemBoundables)
      BY <2>5, <3>1 DEF ToSet
    <3> QED
      BY <3>2, <3>3
  <2>9. Packed(ItemBoundables, 0)
    BY <1>1, <2>3, <2>6, <2>7, <2>8 DEF Packed
  <2>10. Packed(list, 0)'
    <3>1. /\ \A b : getBounds(b)' = getBounds(b)
          /\ \A b, h : AtHeight(b, h)' = AtHeight(b, h)
          /\ \A p, k, h : Chain(p, k, h)' = Chain(p, k, h)
      BY <1>1, <2>1, SameTree
    <3> QED
      BY <1>1, <2>1, <2>9, <3>1 DEF Packed
  <2>11. PackingInv' /\ CallInv' /\ SearchInv' /\ NearestInv'
    BY <1>1, <2>1, <2>10 DEF TreeInv, PackingInv, CallInv, SearchInv, NearestInv
  <2> QED
    BY <1>1, <1>2, <2>2, <2>11 DEF TreeInv, Index!vars
<1> QED
  BY <1>3, <1>4

LEMMA CreateHolds ==
    ASSUME EntriesFit, TreeInv, createHigherLevels
    PROVE  TreeInv' /\ UNCHANGED Index!vars
<1>1. /\ pc = "createHigherLevels" /\ ~built /\ removed = {} /\ ItemsInv /\ NodesInv
      /\ UNCHANGED <<itemBoundables, removed, call, priQ, minPair, answer>>
  BY DEF createHigherLevels, TreeInv, PackingInv
<1>2. ItemsInv' /\ stored' = stored
  BY <1>1 DEF ItemsInv, stored
<1>3. PICK h \in Nat : Packed(list, h)
  BY <1>1 DEF TreeInv, PackingInv
<1>4. ~ \E b \in ToSet(list) : getBounds(b) = NULL
  BY <1>3 DEF Packed, EntriesFit
<1> DEFINE level == IF isItem(list[1]) THEN 0 ELSE nodes[list[1][2]].level + 1
<1>5. level = h
  <2>1. list[1] \in ToSet(list)
    BY <1>3 DEF Packed, Listing, ToSet
  <2> QED
    BY <1>3, <2>1 DEF Packed, AtHeight
<1>6. PICK s \in sortBoundables(list) :
         LET groups  == createParentBoundables(s)
             parents == [i \in DOMAIN groups |-> <<"node", Len(nodes) + i>>]
         IN  /\ nodes' = nodes \o newNodes(groups, level)
             /\ IF Len(groups) = 1
                THEN root' = parents[1] /\ built' = TRUE /\ pc' = "start" /\ list' = <<>>
                ELSE list' = parents /\ UNCHANGED <<root, built, pc>>
  BY <1>4 DEF createHigherLevels
<1>11. PICK groups : groups = createParentBoundables(s)
  OBVIOUS
<1>12. PICK parents : parents = [i \in DOMAIN groups |-> <<"node", Len(nodes) + i>>]
  OBVIOUS
<1>7. /\ nodes' = nodes \o newNodes(groups, h)
      /\ IF Len(groups) = 1
         THEN root' = parents[1] /\ built' = TRUE /\ pc' = "start" /\ list' = <<>>
         ELSE list' = parents /\ UNCHANGED <<root, built, pc>>
  BY <1>5, <1>6, <1>11, <1>12
<1> HIDE DEF level
<1>8. /\ NodesInv' /\ Packed(parents, h + 1)'
      /\ Len(groups) \in Nat \ {0} /\ DOMAIN groups = 1..Len(groups)
      /\ Len(nodes) \in Nat /\ nodes'[Len(nodes) + 1].level = h
      /\ nodes'[Len(nodes) + 1].bounds \in Box
      /\ 1..(Len(nodes) + Len(groups)) = DOMAIN nodes'
  <2>1. UNCHANGED <<itemBoundables, removed>>
    BY <1>1
  <2> QED
    BY <1>1, <1>3, <1>7, <1>11, <1>12, <2>1, LevelHolds
<1>9. CASE Len(groups) = 1
  <2>1. root' = parents[1] /\ built' /\ pc' = "start" /\ list' = <<>>
    BY <1>7, <1>9
  <2> DEFINE top == <<"node", Len(nodes) + 1>>
  <2>2. parents[1] = top /\ ToSet(parents) = {top}
    <3>1. DOMAIN groups = {1}
      BY <1>8, <1>9
    <3>2. parents = [i \in {1} |-> <<"node", Len(nodes) + i>>]
      BY <1>12, <3>1
    <3>3. parents[1] = top /\ DOMAIN parents = {1}
      BY <3>2
    <3> HIDE DEF top
    <3> QED
      BY <3>3 DEF ToSet
  <2>3. Packed(parents, h + 1)' /\ Len(nodes) + 1 \in DOMAIN nodes' /\ Len(nodes) + 1 \in Nat
    BY <1>8, <1>9
  <2>4. root' = top /\ root' \in Boundable /\ ~isItem(root') /\ root'[2] = Len(nodes) + 1
    BY <2>1, <2>2, <2>3 DEF Boundable, isItem
  <2>5. rootHeight' = h + 1
    BY <1>8, <2>4 DEF rootHeight
  <2>6. getBounds(root)' \in Box
    BY <1>8, <2>4 DEF getBounds, isItem
  <2>7. \A k \in Alive' : \E p : Chain(p, k, h + 1)' /\ p[h + 1] = root'
    <3> SUFFICES ASSUME NEW k \in Alive' PROVE \E p : Chain(p, k, h + 1)' /\ p[h + 1] = root'
      OBVIOUS
    <3>1. k \in DOMAIN itemBoundables'
      BY DEF Alive
    <3>2. PICK p : Chain(p, k, h + 1)' /\ p[h + 1] \in ToSet(parents)
      BY <2>3, <3>1 DEF Packed
    <3> QED
      BY <2>2, <2>4, <3>2
  <2>8. RootInv'
    BY <2>3, <2>4, <2>5, <2>6, <2>7 DEF RootInv, isItem
  <2>9. PackingInv' /\ CallInv' /\ SearchInv' /\ NearestInv'
    BY <1>1, <2>1 DEF TreeInv, PackingInv, CallInv, SearchInv, NearestInv
  <2> QED
    BY <1>1, <1>2, <1>8, <2>8, <2>9 DEF TreeInv, Index!vars
<1>10. CASE Len(groups) # 1
  <2>1. list' = parents /\ UNCHANGED <<root, built, pc>>
    BY <1>7, <1>10
  <2>2. Packed(parents, h + 1)' /\ h + 1 \in Nat
    BY <1>8
  <2>3. Packed(list, h + 1)'
    BY <2>1, <2>2 DEF Packed
  <2>4. RootInv' /\ PackingInv'
    BY <1>1, <2>1, <2>2, <2>3 DEF RootInv, PackingInv
  <2>5. CallInv' /\ SearchInv' /\ NearestInv'
    BY <1>1, <2>1 DEF TreeInv, CallInv, SearchInv, NearestInv
  <2> QED
    BY <1>1, <1>2, <1>8, <2>4, <2>5 DEF TreeInv, Index!vars
<1> QED
  BY <1>9, <1>10

\* What the bounds of the root tell of the items.
LEMMA RootMeets ==
    ASSUME TreeInv, built, call.op # "all" => call.env \in Box, NEW k \in Alive
    PROVE  /\ getBounds(root) \in Box /\ rootHeight \in Nat \ {0}
           /\ Wanted(k) => isMatch(root)
           /\ \E p : Chain(p, k, rootHeight) /\ p[rootHeight] = root
<1>1. /\ root[2] \in DOMAIN nodes
      /\ getBounds(root) \in Box \/ (getBounds(root) = NULL /\ itemBoundables = <<>>)
      /\ \E p : Chain(p, k, rootHeight) /\ p[rootHeight] = root
  BY DEF TreeInv, RootInv
<1>2. k \in DOMAIN itemBoundables /\ itemBoundables[k].env \in Box
  BY DEF Alive, TreeInv, ItemsInv
<1>3. getBounds(root) \in Box
  BY <1>1, <1>2
<1>4. rootHeight \in Nat \ {0}
  <2>1. nodes[root[2]].level \in Nat
    BY <1>1, NodeTypes DEF TreeInv
  <2> QED
    BY <2>1 DEF rootHeight
<1>5. PICK p : Chain(p, k, rootHeight) /\ p[rootHeight] = root
  BY <1>1
<1>6. Within(itemBoundables[k].env, getBounds(root))
  <2>1. rootHeight \in 0..rootHeight
    BY <1>4
  <2> QED
    BY <1>5, <2>1 DEF Chain
<1>7. Wanted(k) => isMatch(root)
  BY <1>2, <1>3, <1>6, WantedMatches
<1> QED
  BY <1>1, <1>3, <1>4, <1>7

-----------------------------------------------------------------------------
(* Searches.                                                               *)

LEMMA SearchGoesOn ==
    ASSUME UNCHANGED <<itemBoundables, nodes, removed, call>>, NEW h,
           Listing(list', Boundable), \A b \in ToSet(list') : AtHeight(b, h),
           \A k \in Alive : Wanted(k) => \E p : Chain(p, k, h) /\ p[h] \in ToSet(list')
    PROVE  Searched(h)'
<1>1. /\ Alive' = Alive
      /\ \A b, x : AtHeight(b, x)' = AtHeight(b, x)
      /\ \A p, k, x : Chain(p, k, x)' = Chain(p, k, x)
  BY SameTree
<1>2. \A k : Wanted(k)' = Wanted(k)
  BY DEF Wanted
<1> QED
  BY <1>1, <1>2 DEF Searched

\* A search starts at the root, or nowhere.
LEMMA SearchStarts ==
    ASSUME TreeInv, built, UNCHANGED <<itemBoundables, nodes, root, removed, call>>,
           call.op # "all" => call.env \in Box,
           list' = IF isMatch(root) THEN <<root>> ELSE <<>>
    PROVE  \E h \in Nat : Searched(h)' /\ h > 0
<1>1. /\ root \in Boundable /\ ~isItem(root) /\ root[2] \in DOMAIN nodes /\ NodesInv
  BY DEF TreeInv, RootInv
<1>2. PICK h : h = rootHeight
  OBVIOUS
<1>3. h \in Nat /\ h > 0 /\ AtHeight(root, h)
  <2>1. nodes[root[2]].level \in Nat
    BY <1>1, NodeTypes
  <2> QED
    BY <1>1, <1>2, <2>1 DEF rootHeight, AtHeight
<1>4. /\ Listing(<<root>>, Boundable) /\ ToSet(<<root>>) = {root}
      /\ Listing(<<>>, Boundable) /\ ToSet(<<>>) = {}
  BY <1>1 DEF Listing, IsInjective, ToSet
<1>5. Listing(list', Boundable) /\ ToSet(list') = IF isMatch(root) THEN {root} ELSE {}
  BY <1>4
<1>6. ASSUME NEW k \in Alive, Wanted(k) PROVE \E p : Chain(p, k, h) /\ p[h] \in ToSet(list')
  BY <1>2, <1>5, <1>6, RootMeets
<1>7. Searched(h)'
  BY <1>3, <1>5, <1>6, SearchGoesOn
<1> QED
  BY <1>3, <1>7

LEMMA StartHolds ==
    ASSUME EntriesFit, TreeInv, start
    PROVE  /\ TreeInv'
           /\ UNCHANGED Index!vars \/ (call.env \in Searches /\ Index!nearestNeighbour(call.env))
<1>1. pc = "start" /\ UNCHANGED <<built, itemBoundables, nodes, root, removed, minPair>>
  BY DEF start
<1>2. ItemsInv' /\ NodesInv' /\ RootInv' /\ stored' = stored
  BY <1>1, Frame
<1>3. built /\ PackingInv /\ CallInv /\ RootInv /\ priQ = {} /\ minPair = NULL
  BY <1>1 DEF TreeInv, PackingInv, NearestInv
<1>4. call.op # "all" => call.env \in Box
  BY <1>1, <1>3, CallsInBox
<1>5. getBounds(root) \in Box \/ (getBounds(root) = NULL /\ itemBoundables = <<>>)
  BY <1>3 DEF RootInv
<1>6. CASE call.op \in {"query", "remove"} /\ getBounds(root) = NULL
  <2>1. pc' = "crashed" /\ UNCHANGED <<call, list, priQ, answer>>
    BY <1>6 DEF start
  <2>2. itemBoundables = <<>>
    BY <1>5, <1>6 DEF EntriesFit
  <2>3. PackingInv' /\ CallInv' /\ SearchInv' /\ NearestInv'
    BY <1>1, <1>3, <2>1, <2>2 DEF PackingInv, CallInv, SearchInv, NearestInv
  <2> QED
    BY <1>2, <2>1, <2>3 DEF TreeInv, Index!vars
<1>7. CASE (call.op \in {"query", "remove"} /\ getBounds(root) # NULL) \/ call.op = "all"
  <2>1. /\ list' = (IF isMatch(root) THEN <<root>> ELSE <<>>)
        /\ pc' = call.op /\ UNCHANGED <<call, priQ, answer>>
    BY <1>7 DEF start, isMatch
  <2>2. PICK h \in Nat : Searched(h)' /\ h > 0
    BY <1>1, <1>3, <1>4, <2>1, SearchStarts
  <2>3. SearchInv'
    BY <2>2 DEF SearchInv
  <2>4. CallInv'
    BY <1>1, <1>3, <1>7, <2>1 DEF CallInv
  <2>5. PackingInv' /\ NearestInv'
    BY <1>1, <1>3, <1>7, <2>1 DEF PackingInv, NearestInv
  <2> QED
    BY <1>2, <2>1, <2>3, <2>4, <2>5 DEF TreeInv, Index!vars
<1>8. CASE call.op = "nearestNeighbour" /\ getBounds(root) = NULL
  <2>1. /\ answer' = <<"nearestNeighbour", call.env, NULL>> /\ pc' = "idle"
        /\ UNCHANGED <<list, priQ>>
    BY <1>8 DEF start, Return
  <2>2. stored = <<>>
    <3>1. itemBoundables = <<>>
      BY <1>5, <1>8 DEF EntriesFit
    <3> QED
      BY <3>1 DEF stored
  <2>3. PackingInv' /\ CallInv' /\ SearchInv' /\ NearestInv'
    BY <1>1, <1>3, <2>1 DEF PackingInv, CallInv, SearchInv, NearestInv
  <2>4. call.env \in Searches
    BY <1>1, <1>3, <1>8 DEF CallInv
  <2>5. Index!nearestNeighbour(call.env)
    BY <1>2, <2>1, <2>2 DEF Index!nearestNeighbour
  <2> QED
    BY <1>2, <2>3, <2>4, <2>5 DEF TreeInv
<1>9. CASE call.op = "nearestNeighbour" /\ getBounds(root) # NULL
  <2>1. priQ' = {root} /\ pc' = call.op /\ UNCHANGED <<call, list, answer>>
    BY <1>9 DEF start
  <2>2. /\ Alive' = Alive
        /\ \A b : getBounds(b)' = getBounds(b)
        /\ \A b, x : AtHeight(b, x)' = AtHeight(b, x)
        /\ \A p, k, x : Chain(p, k, x)' = Chain(p, k, x)
    BY <1>1, SameTree
  <2>3. PICK h : h = rootHeight
    OBVIOUS
  <2>4. h \in Nat /\ AtHeight(root, h)
    <3>1. nodes[root[2]].level \in Nat
      BY <1>3, NodeTypes DEF TreeInv, RootInv
    <3> QED
      BY <1>3, <2>3, <3>1 DEF rootHeight, AtHeight, RootInv
  <2>5. ASSUME NEW k \in Alive PROVE \E p : Chain(p, k, h) /\ p[h] = root
    BY <1>3, <2>3 DEF RootInv
  <2>6. \A b \in priQ' : getBounds(b)' \in Box /\ \E x \in Nat : AtHeight(b, x)'
    BY <1>5, <1>9, <2>1, <2>2, <2>4
  <2>7. \A k \in Alive' : \E p, x : x \in Nat /\ Chain(p, k, x)' /\ p[x] \in priQ'
    BY <2>1, <2>2, <2>4, <2>5
  <2>8. NearestInv'
    BY <1>1, <1>3, <1>9, <2>1, <2>6, <2>7 DEF NearestInv
  <2>9. CallInv' /\ PackingInv' /\ SearchInv'
    BY <1>1, <1>3, <1>9, <2>1 DEF CallInv, PackingInv, SearchInv
  <2> QED
    BY <1>2, <2>1, <2>8, <2>9 DEF TreeInv, Index!vars
<1>10. call.op \in {"query", "remove", "all", "nearestNeighbour"}
  BY <1>1, <1>3 DEF CallInv
<1> QED
  BY <1>6, <1>7, <1>8, <1>9, <1>10

\* At the bottom a search lists items, each once.
LEMMA BottomHolds ==
    ASSUME NodesInv, NEW h, Listing(list, Boundable), \A b \in ToSet(list) : AtHeight(b, h),
           list = <<>> \/ isItem(list[1])
    PROVE  LET found == [i \in DOMAIN list |-> list[i][2]]
           IN  /\ IsInjective(found) /\ ToSet(found) \subseteq Alive
               /\ \A k : <<"item", k>> \in ToSet(list) => k \in ToSet(found)
               /\ list # <<>> => h = 0
<1> DEFINE found == [i \in DOMAIN list |-> list[i][2]]
<1>1. /\ list \in Seq(Boundable) /\ ToSet(list) = {list[i] : i \in DOMAIN list}
      /\ \A i, j \in DOMAIN list : list[i] = list[j] => i = j
  BY DEF Listing, IsInjective, ToSet
<1>2. list # <<>> => h = 0
  <2> SUFFICES ASSUME list # <<>> PROVE h = 0
    OBVIOUS
  <2>1. 1 \in DOMAIN list
    BY <1>1
  <2> QED
    BY <1>1, <2>1 DEF AtHeight
<1>3. ASSUME NEW i \in DOMAIN list
      PROVE  list[i] = <<"item", list[i][2]>> /\ list[i][2] \in Alive
  <2>1. AtHeight(list[i], h) /\ list[i] \in Boundable
    BY <1>1
  <2>2. h = 0
    BY <1>1, <1>2
  <2>3. isItem(list[i])
    <3> SUFFICES ASSUME ~isItem(list[i]) PROVE FALSE
      OBVIOUS
    <3>1. CASE isItem(list[1])
      <4>1. AtHeight(list[i], 0)
        BY <2>1, <2>2
      <4>2. list[i][2] \in DOMAIN nodes /\ 0 = nodes[list[i][2]].level + 1
        BY <4>1 DEF AtHeight
      <4>3. nodes[list[i][2]].level \in Nat
        BY <4>2, NodeTypes
      <4> QED
        BY <4>2, <4>3
    <3> QED
      BY <1>1, <3>1
  <2> QED
    BY <2>1, <2>3 DEF AtHeight, Boundable, isItem
<1>4. IsInjective(found)
  BY <1>1, <1>3 DEF IsInjective
<1>5. ToSet(found) = {list[i][2] : i \in DOMAIN list}
  BY DEF ToSet
<1>6. ToSet(found) \subseteq Alive
  BY <1>3, <1>5
<1>7. \A k : <<"item", k>> \in ToSet(list) => k \in ToSet(found)
  BY <1>1, <1>5
<1> QED
  BY <1>2, <1>4, <1>6, <1>7

LEMMA QueryHolds ==
    ASSUME EntriesFit, TreeInv, query
    PROVE  /\ TreeInv'
           /\ \/ UNCHANGED Index!vars
              \/ Index!all
              \/ call.env \in Searches /\ Index!query(call.env)
<1>1. pc \in {"query", "all"} /\ UNCHANGED <<built, itemBoundables, nodes, root, removed, priQ, minPair>>
  BY DEF query
<1>2. ItemsInv' /\ NodesInv' /\ RootInv' /\ stored' = stored
  BY <1>1, Frame
<1>3. built /\ pc = call.op /\ ItemsInv /\ NodesInv /\ PackingInv /\ CallInv /\ priQ = {} /\ minPair = NULL
  BY <1>1 DEF TreeInv, PackingInv, NearestInv, CallInv
<1>4. call.op # "all" => call.env \in Box
  BY <1>1, <1>3, CallsInBox
<1>5. PICK h \in Nat : Searched(h)
  BY <1>1 DEF TreeInv, SearchInv
<1>6. Listing(list, Boundable) /\ \A b \in ToSet(list) : AtHeight(b, h)
  BY <1>5 DEF Searched
<1>7. CASE list = <<>> \/ isItem(list[1])
  <2> DEFINE found == [i \in DOMAIN list |-> list[i][2]]
  <2>1. /\ answer' = (IF call.op = "all" THEN <<call.op, found>> ELSE <<call.op, call.env, found>>)
        /\ pc' = "idle" /\ list' = <<>>
    BY <1>1, <1>3, <1>7 DEF query, Return
  <2>2. /\ IsInjective(found) /\ ToSet(found) \subseteq Alive
        /\ \A k : <<"item", k>> \in ToSet(list) => k \in ToSet(found)
        /\ list # <<>> => h = 0
    BY <1>3, <1>6, <1>7, BottomHolds
  <2> HIDE DEF found
  <2>3. ASSUME NEW k \in Alive, Wanted(k) PROVE k \in ToSet(found)
    <3>1. PICK p : Chain(p, k, h) /\ p[h] \in ToSet(list)
      BY <1>5, <2>3 DEF Searched
    <3>2. list # <<>>
      BY <3>1 DEF ToSet
    <3>3. p[0] \in ToSet(list) /\ p[0] = <<"item", k>>
      BY <2>2, <3>1, <3>2 DEF Chain
    <3> QED
      BY <2>2, <3>3
  <2>4. PackingInv' /\ CallInv' /\ SearchInv' /\ NearestInv'
    BY <1>1, <1>3, <2>1 DEF PackingInv, CallInv, SearchInv, NearestInv
  <2>5. CASE call.op = "all"
    <3>1. ToSet(found) = DOMAIN stored
      BY <2>2, <2>3, <2>5, StoredAre DEF Wanted
    <3>2. Index!all
      BY <1>2, <2>1, <2>2, <2>5, <3>1 DEF Index!all, Index!ToSet, Index!IsInjective, ToSet, IsInjective
    <3> QED
      BY <1>2, <2>4, <3>2 DEF TreeInv
  <2>6. CASE call.op = "query"
    <3>1. call.env \in Searches
      BY <1>1, <1>3, <2>6 DEF CallInv
    <3>2. \A k \in DOMAIN stored : intersects(stored[k].env, call.env) => k \in ToSet(found)
      BY <2>3, StoredAre DEF Wanted
    <3>3. ToSet(found) \subseteq DOMAIN stored
      BY <2>2, StoredAre
    <3>4. answer' = <<"query", call.env, found>>
      BY <2>1, <2>6
    <3>5. Index!query(call.env)
      BY <1>2, <2>2, <3>2, <3>3, <3>4 DEF Index!query, Index!Matching, Index!ToSet, Index!IsInjective,
            ToSet, IsInjective, Index!intersects, intersects, Index!isNull, isNull
    <3> QED
      BY <1>2, <2>4, <3>1, <3>5 DEF TreeInv
  <2> QED
    BY <1>1, <1>3, <2>5, <2>6
<1>8. CASE list # <<>> /\ ~isItem(list[1])
  <2>1. list' = descend(list) /\ UNCHANGED <<pc, call, answer>>
    BY <1>8 DEF query
  <2>2. h # 0
    <3>1. list[1] \in ToSet(list)
      BY <1>6, <1>8 DEF Listing, ToSet
    <3>2. list[1][2] \in DOMAIN nodes /\ h = nodes[list[1][2]].level + 1
      BY <1>6, <1>8, <3>1 DEF AtHeight
    <3>3. nodes[list[1][2]].level \in Nat
      BY <1>3, <3>2, NodeTypes
    <3> QED
      BY <3>2, <3>3
  <2>3. PICK x \in Nat : x = h - 1
    BY <2>2
  <2>4. /\ Listing(list', Boundable) /\ \A b \in ToSet(list') : AtHeight(b, x)
        /\ \A k \in Alive : \A p : Wanted(k) /\ Chain(p, k, h) /\ p[h] \in ToSet(list)
                                  => Chain(p, k, x) /\ p[x] \in ToSet(list')
    BY <1>3, <1>4, <1>6, <2>1, <2>2, <2>3, DescendHolds
  <2>5. ASSUME NEW k \in Alive, Wanted(k) PROVE \E p : Chain(p, k, x) /\ p[x] \in ToSet(list')
    <3>1. PICK p : Chain(p, k, h) /\ p[h] \in ToSet(list)
      BY <1>5, <2>5 DEF Searched
    <3> QED
      BY <2>4, <2>5, <3>1
  <2>6. Searched(x)'
    BY <1>1, <2>1, <2>4, <2>5, SearchGoesOn
  <2>7. SearchInv'
    BY <1>1, <2>1, <2>6 DEF SearchInv
  <2>8. PackingInv' /\ CallInv' /\ NearestInv'
    BY <1>1, <1>3, <2>1 DEF PackingInv, CallInv, NearestInv
  <2> QED
    BY <1>2, <2>1, <2>7, <2>8 DEF TreeInv, Index!vars
<1> QED
  BY <1>7, <1>8

\* The leaf that loses an item, and the item.
LEMMA TakeOutHolds ==
    ASSUME EntriesFit, TreeInv, built, NEW leaf, AtHeight(leaf, 1), holds(leaf),
           NEW at, at = lastOfItem(leaf), NEW gone,
           gone = IF RemoveAt(children(leaf), at) = <<>> THEN prunedWith(leaf[2]) ELSE {},
           nodes' = Without(leaf[2], at, gone), removed' = removed \cup {children(leaf)[at][2]},
           UNCHANGED <<built, itemBoundables, root>>
    PROVE  /\ ItemsInv' /\ NodesInv' /\ RootInv'
           /\ \E k \in Alive : /\ itemBoundables[k].item = call.item
                               /\ Alive' = Alive \ {k}
<1>1. /\ ItemsInv /\ NodesInv /\ RootInv /\ root[2] \in DOMAIN nodes
      /\ nodes[root[2]].level \in Nat /\ rootHeight \in Nat /\ ~isItem(root)
  <2>1. ItemsInv /\ NodesInv /\ RootInv /\ root[2] \in DOMAIN nodes /\ ~isItem(root)
    BY DEF TreeInv, RootInv
  <2>2. nodes[root[2]].level \in Nat
    BY <2>1, NodeTypes
  <2> QED
    BY <2>1, <2>2 DEF rootHeight
<1> DEFINE n == leaf[2]
           kids == nodes[n].children
<1>2. n \in DOMAIN nodes /\ nodes[n].level = 0 /\ children(leaf) = kids
  <2>1. n \in DOMAIN nodes /\ 1 = nodes[n].level + 1
    BY DEF AtHeight
  <2>2. nodes[n].level \in Nat
    BY <1>1, <2>1, NodeTypes
  <2> QED
    BY <2>1, <2>2 DEF children
<1>3. /\ Listing(kids, Boundable) /\ Len(kids) \in Nat /\ DOMAIN kids = 1..Len(kids)
      /\ \A b \in ToSet(kids) : AtHeight(b, 0)
  <2>1. Listing(kids, Boundable) /\ \A b \in ToSet(kids) : AtHeight(b, 0)
    BY <1>1, <1>2 DEF NodesInv
  <2> HIDE DEF n
  <2> QED
    BY <2>1 DEF Listing
<1>4. at \in DOMAIN kids /\ itemBoundables[kids[at][2]].item = call.item
  <2>1. ofItem(leaf) # {} /\ ofItem(leaf) \subseteq 1..Len(kids)
    BY <1>2, <1>3 DEF holds, ofItem
  <2>2. \E i \in ofItem(leaf) : \A j \in ofItem(leaf) : j <= i
    <3> HIDE DEF kids
    <3> DEFINE T == {Len(kids) - i : i \in ofItem(leaf)}
    <3>1. T \in SUBSET Nat /\ T # {}
      BY <1>3, <2>1
    <3>2. PICK m \in T : \A l \in T : m <= l
      BY <3>1, LeastOfNaturals
    <3>3. PICK i \in ofItem(leaf) : m = Len(kids) - i
      BY <3>2
    <3>4. ASSUME NEW j \in ofItem(leaf) PROVE j <= i
      <4>1. Len(kids) - i <= Len(kids) - j
        BY <3>2, <3>3
      <4>2. i \in 1..Len(kids) /\ j \in 1..Len(kids)
        BY <2>1
      <4> QED
        BY <1>3, <4>1, <4>2
    <3> QED
      BY <3>4
  <2>3. lastOfItem(leaf) \in ofItem(leaf)
    BY <2>2 DEF lastOfItem
  <2> QED
    BY <1>2, <2>3 DEF ofItem, getItem
<1>5. PICK k : k = kids[at][2]
  OBVIOUS
<1>6. kids[at] = <<"item", k>> /\ kids[at] \in ToSet(kids) /\ k \in Nat
  <2>1. kids[at] \in ToSet(kids)
    BY <1>4 DEF ToSet
  <2>2. AtHeight(kids[at], 0)
    BY <1>3, <2>1
  <2>3. isItem(kids[at])
    <3> SUFFICES ASSUME ~isItem(kids[at]) PROVE FALSE
      OBVIOUS
    <3>1. k \in DOMAIN nodes /\ 0 = nodes[k].level + 1
      BY <1>5, <2>2 DEF AtHeight
    <3>2. nodes[k].level \in Nat
      BY <1>1, <3>1, NodeTypes
    <3> QED
      BY <3>1, <3>2
  <2> QED
    BY <1>5, <2>1, <2>2, <2>3 DEF AtHeight, isItem, Boundable
<1>7. removed' = removed \cup {k}
  BY <1>2, <1>5
<1>8. /\ k \in Alive /\ Alive' = Alive \ {k} /\ NodesInv' /\ DOMAIN nodes' = DOMAIN nodes
      /\ \A m \in DOMAIN nodes : nodes'[m].level = nodes[m].level /\ nodes'[m].bounds = nodes[m].bounds
      /\ \A p, l, h : l \in Alive \ {k} /\ h \in Nat /\ Chain(p, l, h) /\ (\A i \in 0..h : p[i] \notin gone)
                          => Chain(p, l, h)'
  BY <1>1, <1>2, <1>4, <1>6, <1>7, WithoutHolds
<1>9. ItemsInv'
  BY <1>1, <1>7, <1>8 DEF ItemsInv, Alive
<1>10. ASSUME NEW p, NEW l \in Alive \ {k}, NEW h \in Nat, Chain(p, l, h)
       PROVE  \A i \in 0..h : p[i] \notin gone
  <2>1. CASE RemoveAt(children(leaf), at) # <<>>
    BY <2>1
  <2>2. CASE RemoveAt(children(leaf), at) = <<>>
    <3>1. ToSet(RemoveAt(kids, at)) = ToSet(kids) \ {kids[at]}
      BY <1>3, <1>4, RemoveAtHolds
    <3>2. ToSet(RemoveAt(kids, at)) = {}
      BY <1>2, <2>2 DEF ToSet
    <3>3. ToSet(kids) \subseteq {<<"item", m>> : m \in Nat \ {l}}
      BY <1>6, <3>1, <3>2
    <3>4. \A i \in 0..h : p[i] \notin prunedWith(n)
      BY <1>1, <1>2, <1>10, <3>3, PruningSpares
    <3> QED
      BY <2>2, <3>4
  <2> QED
    BY <2>1, <2>2
<1>11. RootInv'
  <2>1. root' = root /\ rootHeight' = rootHeight /\ getBounds(root)' = getBounds(root)
    BY <1>1, <1>8 DEF rootHeight, getBounds
  <2>2. ASSUME NEW l \in Alive' PROVE \E p : Chain(p, l, rootHeight)' /\ p[rootHeight] = root
    <3>1. PICK p : Chain(p, l, rootHeight) /\ p[rootHeight] = root
      BY <1>1, <1>8 DEF RootInv
    <3>2. PICK h \in Nat : h = rootHeight
      BY <1>1
    <3>3. Chain(p, l, h)'
      BY <1>8, <1>10, <3>1, <3>2
    <3>4. Chain(p, l, rootHeight)'
      BY <2>1, <3>2, <3>3 DEF Chain
    <3> QED
      BY <3>1, <3>4
  <2>3. /\ root' \in Boundable /\ ~isItem(root') /\ root'[2] \in DOMAIN nodes'
        /\ getBounds(root)' \in Box \/ (getBounds(root)' = NULL /\ itemBoundables' = <<>>)
    BY <1>1, <1>8, <2>1 DEF RootInv
  <2> QED
    BY <2>1, <2>2, <2>3 DEF RootInv, isItem
<1> QED
  BY <1>2, <1>4, <1>5, <1>8, <1>9, <1>11

LEMMA RemoveHolds ==
    ASSUME EntriesFit, TreeInv, remove
    PROVE  /\ TreeInv'
           /\ \/ UNCHANGED Index!vars
              \/ \E e \in Entries : Index!remove(e.env, e.item)
<1>1. pc = "remove" /\ UNCHANGED <<built, itemBoundables, root, priQ, minPair>>
  BY DEF remove
<1>2. /\ built /\ call.op = "remove" /\ ItemsInv /\ NodesInv /\ PackingInv /\ CallInv
      /\ priQ = {} /\ minPair = NULL
  BY <1>1 DEF TreeInv, PackingInv, NearestInv, CallInv
<1>3. call.env \in Box /\ \E e \in Entries : call.env = e.env /\ call.item = e.item
  BY <1>1, <1>2, CallsInBox DEF CallInv
<1>4. PICK h \in Nat : Searched(h) /\ h > 0
  BY <1>1 DEF TreeInv, SearchInv
<1>5. Listing(list, Boundable) /\ \A b \in ToSet(list) : AtHeight(b, h)
  BY <1>4 DEF Searched
<1>6. ASSUME NEW i \in DOMAIN list
      PROVE  list[i][2] \in DOMAIN nodes /\ nodes[list[i][2]].level = h - 1 /\ AtHeight(list[i], h)
             /\ ~isItem(list[i])
  <2>1. AtHeight(list[i], h)
    BY <1>5 DEF ToSet
  <2>2. ~isItem(list[i]) /\ list[i][2] \in DOMAIN nodes /\ h = nodes[list[i][2]].level + 1
    BY <1>4, <2>1 DEF AtHeight
  <2>3. nodes[list[i][2]].level \in Nat
    BY <1>2, <2>2, NodeTypes
  <2> QED
    BY <2>1, <2>2, <2>3
<1> DEFINE holders == {i \in DOMAIN list : holds(list[i])}
           atLeaves == \A i \in DOMAIN list : nodes[list[i][2]].level = 0
           leaf == list[CHOOSE i \in holders : \A j \in holders : i <= j]
           left(at) == RemoveAt(children(leaf), at)
           gone(at) == IF left(at) = <<>> THEN prunedWith(leaf[2]) ELSE {}
<1>7. CASE ~atLeaves
  <2>1. list' = descend(list) /\ UNCHANGED <<nodes, removed, pc, call, answer>>
    BY <1>7 DEF remove
  <2>2. ItemsInv' /\ NodesInv' /\ RootInv' /\ stored' = stored
    BY <1>1, <2>1, Frame
  <2>3. h - 1 # 0 /\ h # 0
    BY <1>4, <1>6, <1>7
  <2>4. PICK x \in Nat : x = h - 1
    BY <2>3
  <2>5. /\ Listing(list', Boundable) /\ \A b \in ToSet(list') : AtHeight(b, x)
        /\ \A k \in Alive : \A p : Wanted(k) /\ Chain(p, k, h) /\ p[h] \in ToSet(list)
                                  => Chain(p, k, x) /\ p[x] \in ToSet(list')
    BY <1>2, <1>3, <1>5, <2>1, <2>3, <2>4, DescendHolds
  <2>6. ASSUME NEW k \in Alive, Wanted(k) PROVE \E p : Chain(p, k, x) /\ p[x] \in ToSet(list')
    <3>1. PICK p : Chain(p, k, h) /\ p[h] \in ToSet(list)
      BY <1>4, <2>6 DEF Searched
    <3> QED
      BY <2>5, <2>6, <3>1
  <2>7. Searched(x)'
    BY <1>1, <2>1, <2>5, <2>6, SearchGoesOn
  <2>8. SearchInv'
    BY <1>1, <2>1, <2>3, <2>4, <2>7 DEF SearchInv
  <2>9. PackingInv' /\ CallInv' /\ NearestInv'
    BY <1>1, <1>2, <2>1 DEF PackingInv, CallInv, NearestInv
  <2> QED
    BY <2>1, <2>2, <2>8, <2>9 DEF TreeInv, Index!vars
<1>8. CASE atLeaves /\ holders = {}
  <2>1. /\ answer' = <<"remove", call.env, call.item, FALSE>> /\ pc' = "idle" /\ list' = <<>>
        /\ UNCHANGED <<nodes, removed>>
    BY <1>2, <1>8 DEF remove, Return
  <2>2. ItemsInv' /\ NodesInv' /\ RootInv' /\ stored' = stored
    BY <1>1, <2>1, Frame
  <2>3. ASSUME NEW k \in DOMAIN stored, stored[k] = [env |-> call.env, item |-> call.item] PROVE FALSE
    <3>1. k \in Alive /\ itemBoundables[k].env = call.env /\ itemBoundables[k].item = call.item
      BY <2>3, StoredAre
    <3>2. k \in DOMAIN itemBoundables /\ itemBoundables[k] \in Entries /\ ~isNull(itemBoundables[k].env)
      BY <1>2, <3>1 DEF ItemsInv, Alive
    <3>3. intersects(call.env, call.env)
      BY <1>3, <3>1, <3>2 DEF EntriesFit, Box, intersects, isNull
    <3>4. PICK p : Chain(p, k, h) /\ p[h] \in ToSet(list)
      BY <1>4, <3>1, <3>3 DEF Searched, Wanted
    <3>5. PICK i \in DOMAIN list : p[h] = list[i]
      BY <3>4 DEF ToSet
    <3>6. h = 1
      BY <1>4, <1>6, <1>8
    <3>7. p[0] = <<"item", k>> /\ p[0] \in ToSet(children(list[i]))
      BY <3>4, <3>5, <3>6 DEF Chain
    <3>8. holds(list[i])
      BY <3>1, <3>7 DEF holds, ofItem, getItem, ToSet
    <3> QED
      BY <1>8, <3>8
  <2>4. Index!remove(call.env, call.item)
    BY <2>1, <2>2, <2>3 DEF Index!remove
  <2>5. PackingInv' /\ CallInv' /\ SearchInv' /\ NearestInv'
    BY <1>1, <1>2, <2>1 DEF PackingInv, CallInv, SearchInv, NearestInv
  <2> QED
    BY <1>3, <2>2, <2>4, <2>5 DEF TreeInv
<1>9. CASE atLeaves /\ holders # {}
  <2>1. /\ answer' = <<"remove", call.env, call.item, TRUE>> /\ pc' = "idle" /\ list' = <<>>
        /\ nodes' = Without(leaf[2], lastOfItem(leaf), gone(lastOfItem(leaf)))
        /\ removed' = removed \cup {children(leaf)[lastOfItem(leaf)][2]}
    BY <1>2, <1>9 DEF remove, Return, Without, children
  <2>2. leaf \in ToSet(list) /\ holds(leaf) /\ AtHeight(leaf, 1)
    <3>1. holders \in SUBSET Nat
      BY <1>5 DEF Listing
    <3>2. \E i \in holders : \A j \in holders : i <= j
      <4> HIDE DEF holders
      <4> QED
        BY <1>9, <3>1, LeastOfNaturals
    <3>3. PICK i \in holders : leaf = list[i]
      BY <3>2
    <3>4. AtHeight(leaf, h) /\ h = 1
      BY <1>4, <1>6, <1>9, <3>3
    <3> QED
      BY <3>3, <3>4 DEF ToSet
  <2>3. PICK lf : lf = leaf
    OBVIOUS
  <2>4. PICK at : at = lastOfItem(leaf)
    OBVIOUS
  <2>5. PICK away : away = gone(at)
    <3> HIDE DEF gone
    <3> QED
      OBVIOUS
  <2>6. /\ away = IF RemoveAt(children(lf), at) = <<>> THEN prunedWith(lf[2]) ELSE {}
        /\ nodes' = Without(lf[2], at, away) /\ removed' = removed \cup {children(lf)[at][2]}
        /\ at = lastOfItem(lf) /\ holds(lf) /\ AtHeight(lf, 1)
    BY <2>1, <2>2, <2>3, <2>4, <2>5
  <2>7. /\ ItemsInv' /\ NodesInv' /\ RootInv'
        /\ \E k \in Alive : itemBoundables[k].item = call.item /\ Alive' = Alive \ {k}
    BY <1>1, <1>2, <2>6, TakeOutHolds
  <2>8. PICK k \in Alive : itemBoundables[k].item = call.item /\ Alive' = Alive \ {k}
    BY <2>7
  <2>9. stored' = [j \in DOMAIN stored \ {k} |-> stored[j]] /\ k \in DOMAIN stored /\ stored[k].item = call.item
    <3>1. DOMAIN stored = Alive /\ \A j \in Alive : stored[j] = itemBoundables[j]
      BY StoredAre
    <3>2. stored' = [j \in Alive' |-> itemBoundables'[j]]
      BY DEF stored, Alive
    <3> QED
      BY <1>1, <2>8, <3>1, <3>2
  <2>10. Index!remove(call.env, call.item)
    BY <2>1, <2>9 DEF Index!remove
  <2>11. PackingInv' /\ CallInv' /\ SearchInv' /\ NearestInv'
    BY <1>1, <1>2, <2>1 DEF PackingInv, CallInv, SearchInv, NearestInv
  <2> QED
    BY <1>3, <2>7, <2>10, <2>11 DEF TreeInv
<1> QED
  BY <1>7, <1>8, <1>9

-----------------------------------------------------------------------------
(* The nearest entry.                                                      *)

\* Pairs with the boundables of a chain are no farther than the item.
LEMMA ChainIsNearer ==
    ASSUME ItemsInv, call.env \in Box, NEW k \in Alive, NEW p, NEW h \in Nat, Chain(p, k, h), NEW i \in 0..h
    PROVE  /\ Nearer(p[i], k) /\ pairDistance(p[i]) \in Nat
           /\ distance2(itemBoundables[k].env, call.env) \in Nat
<1>1. itemBoundables[k].env \in Box
  BY DEF ItemsInv, Alive
<1>2. getBounds(p[i]) \in Box /\ Within(itemBoundables[k].env, getBounds(p[i]))
  BY DEF Chain
<1> QED
  BY <1>1, <1>2, WithinIsNearer DEF Nearer, pairDistance

LEMMA DistancesFit ==
    ASSUME call.env \in Box, NEW b, getBounds(b) \in Box
    PROVE  pairDistance(b) \in Nat
<1>1. Within(getBounds(b), getBounds(b))
  BY DEF Within, Box
<1> QED
  BY <1>1, WithinIsNearer DEF pairDistance

\* What the search for the nearest entry leaves out is no nearer.
Left(k) == \/ \E p, h : h \in Nat /\ Chain(p, k, h) /\ p[h] \in priQ
           \/ minPair # NULL /\ Nearer(minPair, k)

LEMMA NearestGoesOn ==
    ASSUME UNCHANGED <<itemBoundables, nodes, removed, call, pc>>, pc = "nearestNeighbour",
           \A b \in priQ' : getBounds(b) \in Box /\ \E h \in Nat : AtHeight(b, h),
           minPair' = NULL \/ \E k \in Alive : minPair' = <<"item", k>>,
           \A k \in Alive : \/ \E p, h : h \in Nat /\ Chain(p, k, h) /\ p[h] \in priQ'
                            \/ minPair' # NULL /\ Nearer(minPair', k)
    PROVE  NearestInv'
<1>1. /\ Alive' = Alive
      /\ \A b : getBounds(b)' = getBounds(b)
      /\ \A b, x : AtHeight(b, x)' = AtHeight(b, x)
      /\ \A p, k, x : Chain(p, k, x)' = Chain(p, k, x)
  BY SameTree
<1>2. \A b, k : Nearer(b, k)' = Nearer(b, k)
  BY <1>1 DEF Nearer, pairDistance
<1>3. \A k : (minPair' # NULL /\ Nearer(minPair', k)) => (minPair # NULL /\ Nearer(minPair, k))'
  BY <1>1 DEF Nearer, pairDistance, getBounds, isItem
<1> QED
  BY <1>1, <1>3 DEF NearestInv

LEMMA NearestHolds ==
    ASSUME EntriesFit, TreeInv, nearestNeighbour
    PROVE  /\ TreeInv'
           /\ UNCHANGED Index!vars \/ (call.env \in Searches /\ Index!nearestNeighbour(call.env))
<1>1. pc = "nearestNeighbour" /\ UNCHANGED <<built, itemBoundables, nodes, root, removed, list>>
  BY DEF nearestNeighbour
<1>2. ItemsInv' /\ NodesInv' /\ RootInv' /\ stored' = stored
  BY <1>1, Frame
<1>3. built /\ call.op = "nearestNeighbour" /\ ItemsInv /\ NodesInv /\ PackingInv /\ CallInv
  BY <1>1 DEF TreeInv, PackingInv, CallInv
<1>4. call.env \in Box /\ call.env \in Searches
  BY <1>1, <1>3, CallsInBox DEF CallInv
<1>5. /\ \A b \in priQ : getBounds(b) \in Box /\ \E h \in Nat : AtHeight(b, h)
      /\ minPair = NULL \/ \E k \in Alive : minPair = <<"item", k>>
      /\ \A k \in Alive : Left(k)
  BY <1>1 DEF TreeInv, NearestInv, Left
<1>6. \A k \in Alive : <<"item", k>> # NULL /\ itemBoundables[k].env \in Box /\ k \in Nat
  BY <1>3 DEF EntriesFit, ItemsInv, Alive
<1>7. ASSUME minPair # NULL PROVE distanceLowerBound \in Nat
  <2>1. PICK k \in Alive : minPair = <<"item", k>>
    BY <1>5, <1>7
  <2>2. getBounds(minPair) \in Box
    BY <1>6, <2>1 DEF getBounds, isItem
  <2> QED
    BY <1>4, <2>2, DistancesFit DEF distanceLowerBound
<1>8. ASSUME priQ' = {}, minPair' = NULL, pc' = "idle"
      PROVE  PackingInv' /\ CallInv' /\ SearchInv' /\ NearestInv'
  BY <1>1, <1>3, <1>8 DEF PackingInv, CallInv, SearchInv, NearestInv
\* The best pair is an answer when it is as near as all that is left.
<1>9. ASSUME minPair # NULL, answer' = <<"nearestNeighbour", call.env, minPair[2]>>,
             \A k \in Alive : Nearer(minPair, k)
      PROVE  Index!nearestNeighbour(call.env)
  <2>1. PICK k \in Alive : minPair = <<"item", k>>
    BY <1>5, <1>9
  <2>2. \A j \in Alive : distance2(itemBoundables[k].env, call.env) <= distance2(itemBoundables[j].env, call.env)
    BY <1>9, <2>1 DEF Nearer, pairDistance, getBounds, isItem
  <2>3. k \in DOMAIN stored /\ \A j \in DOMAIN stored :
           distance2(stored[k].env, call.env) <= distance2(stored[j].env, call.env)
    BY <2>2, StoredAre
  <2>4. answer' = <<"nearestNeighbour", call.env, k>>
    BY <1>9, <2>1
  <2> QED
    BY <1>2, <2>3, <2>4 DEF Index!nearestNeighbour, Index!distance2, distance2, Index!Most, Most
<1>10. CASE priQ = {} \/ (minPair # NULL /\ distanceLowerBound = 0)
  <2>1. /\ answer' = <<"nearestNeighbour", call.env, IF minPair = NULL THEN NULL ELSE minPair[2]>>
        /\ pc' = "idle" /\ priQ' = {} /\ minPair' = NULL
    BY <1>3, <1>10 DEF nearestNeighbour, Return
  <2>2. CASE minPair = NULL
    <3>1. Alive = {}
      BY <1>5, <1>10, <2>2 DEF Left
    <3>2. stored = <<>>
      BY <3>1 DEF stored, Alive
    <3>3. Index!nearestNeighbour(call.env)
      BY <1>2, <2>1, <2>2, <3>2 DEF Index!nearestNeighbour
    <3> QED
      BY <1>2, <1>4, <1>8, <2>1, <3>3 DEF TreeInv
  <2>3. CASE minPair # NULL
    <3>1. ASSUME NEW k \in Alive PROVE Nearer(minPair, k)
      <4>1. CASE priQ = {}
        BY <1>5, <4>1 DEF Left
      <4>2. CASE distanceLowerBound = 0
        <5>1. Within(itemBoundables[k].env, itemBoundables[k].env)
          BY <1>6 DEF Within, Box
        <5>2. distance2(itemBoundables[k].env, call.env) \in Nat
          BY <1>4, <1>6, <5>1, WithinIsNearer
        <5> QED
          BY <4>2, <5>2 DEF Nearer, distanceLowerBound
      <4> QED
        BY <1>10, <4>1, <4>2
    <3>2. Index!nearestNeighbour(call.env)
      BY <1>9, <2>1, <2>3, <3>1
    <3> QED
      BY <1>2, <1>4, <1>8, <2>1, <3>2 DEF TreeInv
  <2> QED
    BY <2>2, <2>3
<1>11. CASE ~(priQ = {} \/ (minPair # NULL /\ distanceLowerBound = 0))
  <2>1. PICK b \in priQ :
          /\ \A c \in priQ : pairDistance(b) <= pairDistance(c)
          /\ \/ /\ beaten(b)
                /\ Return(minPair[2]) /\ priQ' = {} /\ minPair' = NULL
             \/ /\ ~beaten(b)
                /\ IF isItem(b) THEN minPair' = b /\ priQ' = priQ \ {b}
                   ELSE /\ priQ' = (priQ \ {b}) \cup expandToQueue(b)
                        /\ UNCHANGED minPair
                /\ UNCHANGED <<pc, call, answer>>
    BY <1>11 DEF nearestNeighbour
  <2>2. PICK x \in Nat : AtHeight(b, x)
    BY <1>5
  <2>3. getBounds(b) \in Box /\ pairDistance(b) \in Nat
    BY <1>4, <1>5, DistancesFit
  <2>4. CASE beaten(b)
    <3>1. /\ answer' = <<"nearestNeighbour", call.env, minPair[2]>>
          /\ pc' = "idle" /\ priQ' = {} /\ minPair' = NULL
      BY <1>3, <2>1, <2>4 DEF Return
    <3>2. minPair # NULL /\ pairDistance(b) >= distanceLowerBound
      BY <2>4 DEF beaten
    <3>3. ASSUME NEW k \in Alive PROVE Nearer(minPair, k)
      <4>1. CASE Nearer(minPair, k)
        BY <4>1
      <4>2. CASE ~Nearer(minPair, k)
        <5>1. PICK p, h : h \in Nat /\ Chain(p, k, h) /\ p[h] \in priQ
          BY <1>5, <4>2 DEF Left
        <5>2. h \in 0..h
          BY <5>1
        <5>3. /\ Nearer(p[h], k) /\ pairDistance(p[h]) \in Nat
              /\ distance2(itemBoundables[k].env, call.env) \in Nat
          BY <1>3, <1>4, <5>1, <5>2, ChainIsNearer
        <5>4. pairDistance(b) <= pairDistance(p[h])
          BY <2>1, <5>1
        <5>5. distanceLowerBound <= distance2(itemBoundables[k].env, call.env)
          BY <1>7, <2>3, <3>2, <5>3, <5>4 DEF Nearer
        <5> QED
          BY <5>5 DEF Nearer, distanceLowerBound
      <4> QED
        BY <4>1, <4>2
    <3>4. Index!nearestNeighbour(call.env)
      BY <1>9, <3>1, <3>2, <3>3
    <3> QED
      BY <1>2, <1>4, <1>8, <3>1, <3>4 DEF TreeInv
  <2>5. CASE ~beaten(b) /\ isItem(b)
    <3>1. minPair' = b /\ priQ' = priQ \ {b} /\ UNCHANGED <<pc, call, answer>>
      BY <2>1, <2>5
    <3>2. b = <<"item", b[2]>> /\ b[2] \in Alive
      BY <2>2, <2>5 DEF AtHeight, Boundable, isItem
    <3>3. ASSUME NEW k \in Alive, ~ \E p, h : h \in Nat /\ Chain(p, k, h) /\ p[h] \in priQ' PROVE Nearer(b, k)
      <4>1. CASE minPair # NULL /\ Nearer(minPair, k)
        <5>1. distance2(itemBoundables[k].env, call.env) \in Nat
          <6>1. Within(itemBoundables[k].env, itemBoundables[k].env)
            BY <1>6 DEF Within, Box
          <6> QED
            BY <1>4, <1>6, <6>1, WithinIsNearer
        <5>2. distanceLowerBound \in Nat /\ ~(pairDistance(b) >= distanceLowerBound)
          BY <1>7, <2>5, <4>1 DEF beaten
        <5>3. distanceLowerBound <= distance2(itemBoundables[k].env, call.env)
          BY <4>1 DEF Nearer, distanceLowerBound
        <5>4. pairDistance(b) <= distance2(itemBoundables[k].env, call.env)
          BY <2>3, <5>1, <5>2, <5>3
        <5> QED
          BY <5>4 DEF Nearer
      <4>2. CASE ~(minPair # NULL /\ Nearer(minPair, k))
        <5>1. PICK p, h : h \in Nat /\ Chain(p, k, h) /\ p[h] \in priQ
          BY <1>5, <4>2 DEF Left
        <5>2. p[h] = b
          BY <3>1, <3>3, <5>1
        <5>3. h \in 0..h
          BY <5>1
        <5> QED
          BY <1>3, <1>4, <5>1, <5>2, <5>3, ChainIsNearer
      <4> QED
        BY <4>1, <4>2
    <3>4. NearestInv'
      <4>1. minPair' # NULL
        BY <1>6, <3>1, <3>2
      <4>2. \A k \in Alive : \/ \E p, h : h \in Nat /\ Chain(p, k, h) /\ p[h] \in priQ'
                             \/ minPair' # NULL /\ Nearer(minPair', k)
        BY <3>1, <3>3, <4>1
      <4>3. \A c \in priQ' : getBounds(c) \in Box /\ \E h \in Nat : AtHeight(c, h)
        BY <1>5, <3>1
      <4> QED
        BY <1>1, <3>1, <3>2, <4>2, <4>3, NearestGoesOn
    <3>5. PackingInv' /\ CallInv' /\ SearchInv'
      BY <1>1, <1>3, <3>1 DEF PackingInv, CallInv, SearchInv
    <3> QED
      BY <1>2, <3>1, <3>4, <3>5 DEF TreeInv, Index!vars
  <2>6. CASE ~beaten(b) /\ ~isItem(b)
    <3>1. priQ' = (priQ \ {b}) \cup expandToQueue(b) /\ UNCHANGED <<minPair, pc, call, answer>>
      BY <2>1, <2>6
    <3>2. b[2] \in DOMAIN nodes /\ x = nodes[b[2]].level + 1 /\ nodes[b[2]].level \in Nat
      BY <1>3, <2>2, <2>6, NodeTypes DEF AtHeight
    <3>3. \A c \in ToSet(children(b)) : getBounds(c) \in Box /\ \E h \in Nat : AtHeight(c, h)
      BY <1>3, <3>2 DEF NodesInv, children
    <3>4. ASSUME NEW k \in Alive, ~ \E p, h : h \in Nat /\ Chain(p, k, h) /\ p[h] \in priQ'
          PROVE  minPair # NULL /\ Nearer(minPair, k)
      <4>1. SUFFICES ASSUME ~(minPair # NULL /\ Nearer(minPair, k)) PROVE FALSE
        OBVIOUS
      <4>2. PICK p, h : h \in Nat /\ Chain(p, k, h) /\ p[h] \in priQ
        BY <1>5, <4>1 DEF Left
      <4>3. p[h] = b
        BY <3>1, <3>4, <4>2
      <4>4. h # 0
        <5> SUFFICES ASSUME h = 0 PROVE FALSE
          OBVIOUS
        <5>1. b = <<"item", k>>
          BY <4>2, <4>3 DEF Chain
        <5> QED
          BY <2>6, <5>1 DEF isItem
      <4>5. PICK y \in Nat : y = h - 1
        BY <4>2, <4>4
      <4>6. Chain(p, k, y) /\ p[y] \in ToSet(children(b)) /\ y \in 0..y
        BY <4>2, <4>3, <4>4, <4>5, LowerChain
      <4>7. p[y] \notin expandToQueue(b)
        BY <3>1, <3>4, <4>6
      <4>8. minPair # NULL /\ ~(pairDistance(p[y]) < distanceLowerBound)
        BY <4>6, <4>7 DEF expandToQueue
      <4>9. /\ Nearer(p[y], k) /\ pairDistance(p[y]) \in Nat
            /\ distance2(itemBoundables[k].env, call.env) \in Nat
        BY <1>3, <1>4, <4>6, ChainIsNearer
      <4>10. distanceLowerBound <= distance2(itemBoundables[k].env, call.env)
        BY <1>7, <4>8, <4>9 DEF Nearer
      <4> QED
        BY <4>1, <4>8, <4>10 DEF Nearer, distanceLowerBound
    <3>5. NearestInv'
      <4>1. \A k \in Alive : \/ \E p, h : h \in Nat /\ Chain(p, k, h) /\ p[h] \in priQ'
                             \/ minPair' # NULL /\ Nearer(minPair', k)
        BY <3>1, <3>4
      <4>2. \A c \in priQ' : getBounds(c) \in Box /\ \E h \in Nat : AtHeight(c, h)
        BY <1>5, <3>1, <3>3 DEF expandToQueue
      <4> QED
        BY <1>1, <1>5, <3>1, <4>1, <4>2, NearestGoesOn
    <3>6. PackingInv' /\ CallInv' /\ SearchInv'
      BY <1>1, <1>3, <3>1 DEF PackingInv, CallInv, SearchInv
    <3> QED
      BY <1>2, <3>1, <3>5, <3>6 DEF TreeInv, Index!vars
  <2> QED
    BY <2>4, <2>5, <2>6
<1> QED
  BY <1>10, <1>11

-----------------------------------------------------------------------------
(* The theorems.                                                           *)

LEMMA StutterHolds ==
    ASSUME TreeInv, UNCHANGED vars
    PROVE  TreeInv' /\ UNCHANGED Index!vars
<1>1. UNCHANGED <<built, itemBoundables, nodes, root, removed, pc, call, list, priQ, minPair, answer>>
  BY DEF vars
<1>2. ItemsInv' /\ NodesInv' /\ RootInv' /\ stored' = stored
  BY <1>1, Frame
<1>3. PackingInv'
  <2>1. /\ \A b : getBounds(b)' = getBounds(b)
        /\ \A b, h : AtHeight(b, h)' = AtHeight(b, h)
        /\ \A p, k, h : Chain(p, k, h)' = Chain(p, k, h)
    BY <1>1, SameTree
  <2>2. \A h : Packed(list, h)' = Packed(list, h)
    BY <1>1, <2>1 DEF Packed
  <2> QED
    BY <1>1, <2>2 DEF TreeInv, PackingInv
<1>4. CallInv'
  BY <1>1 DEF TreeInv, CallInv
<1>5. SearchInv'
  <2> SUFFICES ASSUME pc' \in {"query", "all", "remove"}
               PROVE  \E h \in Nat : Searched(h)' /\ (pc' = "remove" => h > 0)
    BY DEF SearchInv
  <2>1. PICK h \in Nat : Searched(h) /\ (pc = "remove" => h > 0)
    BY <1>1 DEF TreeInv, SearchInv
  <2>2. Searched(h)'
    BY <1>1, <2>1, SearchGoesOn DEF Searched
  <2> QED
    BY <1>1, <2>1, <2>2
<1>6. NearestInv'
  <2>1. CASE pc = "nearestNeighbour"
    BY <1>1, <2>1, NearestGoesOn DEF TreeInv, NearestInv
  <2>2. CASE pc # "nearestNeighbour"
    BY <1>1, <2>2 DEF TreeInv, NearestInv
  <2> QED
    BY <2>1, <2>2
<1> QED
  BY <1>1, <1>2, <1>3, <1>4, <1>5, <1>6 DEF TreeInv, Index!vars

LEMMA StepHolds ==
    ASSUME EntriesFit, TreeInv, [Next]_vars, [NotLate]_vars
    PROVE  TreeInv' /\ [Index!Next]_Index!vars
<1>1. CASE \E e \in Entries : insert(e)
  <2>1. PICK e \in Entries : insert(e)
    BY <1>1
  <2>2. CASE NotLate
    BY <2>1, <2>2, InsertHolds DEF Index!Next
  <2>3. CASE UNCHANGED vars
    BY <2>3, StutterHolds
  <2> QED
    BY <2>2, <2>3
<1>2. CASE \E env \in Searches, op \in {"query", "nearestNeighbour"} : begin(op, env, NULL)
  BY <1>2, BeginHolds DEF Index!Next
<1>3. CASE \E e \in Entries : begin("remove", e.env, e.item)
  BY <1>3, BeginHolds DEF Index!Next
<1>4. CASE begin("all", NULL, NULL)
  BY <1>4, BeginHolds DEF Index!Next
<1>5. CASE iterate
  BY <1>5, IterateHolds DEF Index!Next
<1>6. CASE build
  BY <1>6, BuildHolds
<1>7. CASE createHigherLevels
  BY <1>7, CreateHolds
<1>8. CASE start
  BY <1>8, StartHolds DEF Index!Next
<1>9. CASE query
  BY <1>9, QueryHolds DEF Index!Next
<1>10. CASE remove
  BY <1>10, RemoveHolds DEF Index!Next
<1>11. CASE nearestNeighbour
  BY <1>11, NearestHolds DEF Index!Next
<1>12. CASE UNCHANGED vars
  BY <1>12, StutterHolds
<1> QED
  BY <1>1, <1>2, <1>3, <1>4, <1>5, <1>6, <1>7, <1>8, <1>9, <1>10, <1>11, <1>12 DEF Next, Step

\* The clients that keep to what insert asks of them; assertions make every client do so.
InsertsFirst == [][NotLate]_vars

THEOREM AssertionsForbidLateInserts == ASSUME EntriesFit, ~NDEBUG PROVE Spec => InsertsFirst
<1>1. [Next]_vars => [NotLate]_vars
  <2> SUFFICES ASSUME [Next]_vars, built, itemBoundables' # itemBoundables PROVE FALSE
    BY DEF NotLate
  <2>1. PICK e \in Entries : insert(e)
    BY DEF Next, Step, begin, iterate, build, createHigherLevels, start, query, remove, nearestNeighbour, vars
  <2> QED
    BY <2>1 DEF insert, vars
<1> QED
  BY <1>1, PTL DEF Spec, InsertsFirst

\* The invariant on which the answers rest: from every item that was not removed a
\* chain of parents leads to the root, through bounds that hold its envelope; no
\* boundable has two parents; every level that is packed has only nodes with bounds;
\* a search keeps all it must reach above the level where it is.
THEOREM TreeIsSound == ASSUME EntriesFit PROVE Spec /\ InsertsFirst => []TreeInv
<1>1. Init => TreeInv
  BY InitHolds
<1>2. TreeInv /\ [Next]_vars /\ [NotLate]_vars => TreeInv'
  BY StepHolds
<1> QED
  BY <1>1, <1>2, PTL DEF Spec, InsertsFirst

\* STRtree implements SpatialIndex for clients that insert before they search: whatever
\* the node capacity, the order of equal centres and the calls before, query and
\* itemsTree return every entry they must, each once, and only stored ones; remove takes
\* one entry of the item out or says that the entry is not there; nearestNeighbour
\* returns one that no other is nearer than; packing and the pruning of emptied nodes
\* lose nothing.
THEOREM STRtreeIsASpatialIndex == ASSUME EntriesFit PROVE Spec /\ InsertsFirst => Index!Spec
<1>1. Init => Index!Init
  <2> SUFFICES ASSUME Init PROVE Index!Init
    OBVIOUS
  <2>1. itemBoundables = <<>> /\ answer = <<"none">>
    BY DEF Init
  <2>2. stored = <<>>
    BY <2>1 DEF stored
  <2> QED
    BY <2>1, <2>2 DEF Index!Init
<1>2. TreeInv /\ [Next]_vars /\ [NotLate]_vars => [Index!Next]_Index!vars
  BY StepHolds
<1> QED
  BY <1>1, <1>2, TreeIsSound, PTL DEF Spec, InsertsFirst, Index!Spec

\* Only a tree without items brings a call down: no node but its root is ever without
\* bounds, so packing never compares one and no other call dereferences a null pointer.
OnlyEmptyTreesCrash == pc = "crashed" => itemBoundables = <<>>

THEOREM PackingNeverCrashes == ASSUME EntriesFit PROVE Spec /\ InsertsFirst => []OnlyEmptyTreesCrash
<1>1. TreeInv => OnlyEmptyTreesCrash
  BY DEF TreeInv, CallInv, OnlyEmptyTreesCrash
<1> QED
  BY <1>1, TreeIsSound, PTL
=============================================================================
