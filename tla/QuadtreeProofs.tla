--------------------------- MODULE QuadtreeProofs ---------------------------
(***************************************************************************)
(* Proof that Quadtree implements SpatialIndex, for any entries within     *)
(* reach of its largest quads.                                             *)
(***************************************************************************)
EXTENDS Quadtree, Listings

-----------------------------------------------------------------------------
(* Powers of two, and the cells of one dimension.                          *)

LEMMA PowersDouble ==
    /\ powerOf2 \in [Nat -> Nat] /\ powerOf2[0] = 1
    /\ \A k \in Nat : powerOf2[k + 1] = 2 * powerOf2[k]
<1> DEFINE F == [n \in Nat |-> 2 * n]
<1>1. \E f \in [Nat -> Nat] : IsIteration(f, 1, F)
  <2>1. F \in [Nat -> Nat] /\ 1 \in Nat
    OBVIOUS
  <2> HIDE DEF F
  <2> QED
    BY <2>1, IterationExists
<1>2. PICK f \in [Nat -> Nat] : f = [k \in Nat |-> IF k = 0 THEN 1 ELSE F[f[k - 1]]]
  BY <1>1 DEF IsIteration
<1>3. f = [k \in Nat |-> IF k = 0 THEN 1 ELSE 2 * f[k - 1]]
  <2>1. \A k \in Nat : f[k] = IF k = 0 THEN 1 ELSE 2 * f[k - 1]
    <3> TAKE k \in Nat
    <3>1. CASE k = 0
      BY <1>2, <3>1
    <3>2. CASE k # 0
      <4>1. k - 1 \in Nat /\ f[k - 1] \in Nat
        BY <3>2
      <4> QED
        BY <1>2, <3>2, <4>1
    <3> QED
      BY <3>1, <3>2
  <2>2. f = [k \in Nat |-> f[k]]
    OBVIOUS
  <2> QED
    BY <2>1, <2>2
<1>4. powerOf2 = [k \in Nat |-> IF k = 0 THEN 1 ELSE 2 * powerOf2[k - 1]]
  BY <1>3 DEF powerOf2
<1>5. powerOf2[0] = 1
  BY <1>4
<1>6. ASSUME NEW k \in Nat PROVE powerOf2[k + 1] = 2 * powerOf2[k]
  BY <1>4
<1>7. powerOf2 \in [Nat -> Nat]
  <2> DEFINE T == {k \in Nat : powerOf2[k] \in Nat}
  <2>1. 0 \in T
    BY <1>5
  <2>2. ASSUME NEW k \in Nat, k \in T PROVE k + 1 \in T
    BY <1>6, <2>2
  <2>3. \A k \in Nat : k \in T
    <3> HIDE DEF T
    <3> QED
      BY <2>1, <2>2, InductionOnSets
  <2> QED
    BY <2>3, <1>4
<1> QED
  BY <1>5, <1>6, <1>7

\* A smaller power divides a larger one.
LEMMA PowersDivide ==
    ASSUME NEW j \in Nat
    PROVE  \A d \in Nat : \E c \in Nat \ {0} : powerOf2[j + d] = c * powerOf2[j]
<1> DEFINE T == {d \in Nat : \E c \in Nat \ {0} : powerOf2[j + d] = c * powerOf2[j]}
<1>1. 0 \in T
  <2>1. powerOf2[j + 0] = 1 * powerOf2[j]
    BY PowersDouble
  <2> QED
    BY <2>1
<1>2. ASSUME NEW d \in Nat, d \in T PROVE d + 1 \in T
  <2>1. PICK c \in Nat \ {0} : powerOf2[j + d] = c * powerOf2[j]
    BY <1>2
  <2>2. powerOf2[(j + d) + 1] = 2 * powerOf2[j + d]
    BY PowersDouble
  <2>3. (j + d) + 1 = j + (d + 1) /\ 2 * c \in Nat \ {0}
    OBVIOUS
  <2>4. 2 * (c * powerOf2[j]) = (2 * c) * powerOf2[j]
    BY PowersDouble
  <2> QED
    BY <2>1, <2>2, <2>3, <2>4
<1> HIDE DEF T
<1>3. \A d \in Nat : d \in T
  BY <1>1, <1>2, InductionOnSets
<1> QED
  BY <1>3 DEF T

LEMMA PowersPositive == \A k \in Nat : powerOf2[k] \in Nat \ {0}
<1> TAKE k \in Nat
<1>1. PICK c \in Nat \ {0} : powerOf2[0 + k] = c * powerOf2[0]
  BY PowersDivide
<1> QED
  BY <1>1, PowersDouble

\* The smaller of two powers divides the larger, and is its half or less.
LEMMA SizesDivide ==
    ASSUME NEW j \in Nat, NEW k \in Nat, powerOf2[j] < powerOf2[k]
    PROVE  \E c \in Nat \ {0} : powerOf2[k] = 2 * (c * powerOf2[j])
<1>1. j < k
  <2> SUFFICES ASSUME k <= j PROVE FALSE
    OBVIOUS
  <2> DEFINE d == j - k
  <2>0. d \in Nat /\ k + d = j
    OBVIOUS
  <2> HIDE DEF d
  <2>1. PICK c \in Nat \ {0} : powerOf2[k + d] = c * powerOf2[k]
    BY <2>0, PowersDivide
  <2>2. c * powerOf2[k] >= powerOf2[k]
    BY PowersPositive
  <2> QED
    BY <2>0, <2>1, <2>2, PowersPositive
<1> DEFINE d == k - (j + 1)
           i == j + 1
<1>0. d \in Nat /\ i \in Nat /\ i + d = k /\ i = j + 1
  BY <1>1
<1> HIDE DEF d, i
<1>2. PICK c \in Nat \ {0} : powerOf2[i + d] = c * powerOf2[i]
  BY <1>0, PowersDivide
<1>3. powerOf2[j + 1] = 2 * powerOf2[j] /\ powerOf2[j] \in Nat
  BY PowersDouble
<1>4. c * (2 * powerOf2[j]) = 2 * (c * powerOf2[j])
  BY <1>3
<1> QED
  BY <1>0, <1>2, <1>3, <1>4

LEMMA HalfOfASize ==
    ASSUME NEW s \in PowersOf2
    PROVE  /\ s \in Nat \ {0}
           /\ s # 1 => s % 2 = 0 /\ s \div 2 \in PowersOf2 /\ s = 2 * (s \div 2)
<1>1. PICK k \in 0..MaxLevel : s = powerOf2[k]
  BY DEF PowersOf2
<1>2. s \in Nat \ {0}
  BY <1>1, PowersPositive, LevelAssumption
<1>3. ASSUME s # 1 PROVE s % 2 = 0 /\ s \div 2 \in PowersOf2 /\ s = 2 * (s \div 2)
  <2>1. k # 0 /\ k - 1 \in 0..MaxLevel /\ k - 1 \in Nat
    BY <1>1, <1>3, PowersDouble, LevelAssumption
  <2>2. s = 2 * powerOf2[k - 1] /\ powerOf2[k - 1] \in Nat
    BY <1>1, <2>1, PowersDouble
  <2>3. s \div 2 = powerOf2[k - 1] /\ s % 2 = 0
    BY <2>2
  <2> QED
    BY <2>1, <2>2, <2>3 DEF PowersOf2
<1> QED
  BY <1>2, <1>3

-----------------------------------------------------------------------------
(* Envelopes and quads.                                                    *)

\* An envelope with an extent in both directions.
Solid(e) == e \in IntRect /\ e.minx < e.maxx /\ e.miny < e.maxy

\* In one of the four quadrants.
quadrant(e) == getSubnodeIndex(e, Origin)

\* A multiple of the size, as the ends of a quad are.
Multiple(x, s) == \E c \in Int : x = c * s

IsQuad(q) == /\ q \in IntRect
             /\ sizeOf(q) \in PowersOf2 /\ q.maxy - q.miny = sizeOf(q)
             /\ Multiple(q.minx, sizeOf(q)) /\ Multiple(q.miny, sizeOf(q))
             /\ quadrant(q) \in 0..3

LEMMA HalvesAreMultiples ==
    ASSUME NEW h \in Nat, NEW x \in Int, Multiple(x, 2 * h)
    PROVE  Multiple(x, h) /\ Multiple(x + h, h)
<1>1. PICK c \in Int : x = c * (2 * h)
  BY DEF Multiple
<1>2. c * (2 * h) = (2 * c) * h /\ (2 * c) * h + h = (2 * c + 1) * h
  OBVIOUS
<1>3. 2 * c \in Int /\ 2 * c + 1 \in Int
  OBVIOUS
<1> QED
  BY <1>1, <1>2, <1>3 DEF Multiple

LEMMA QuadsAreSolid == ASSUME NEW q, IsQuad(q) PROVE Solid(q)
<1>1. q \in IntRect /\ sizeOf(q) \in Nat \ {0} /\ q.maxy - q.miny = sizeOf(q)
  BY HalfOfASize DEF IsQuad
<1> QED
  BY <1>1 DEF Solid, IntRect, sizeOf

LEMMA CoversTransitive ==
    ASSUME NEW p \in IntRect, NEW q \in IntRect, NEW r \in IntRect, covers(p, q), covers(q, r)
    PROVE  covers(p, r)
BY DEF IntRect, covers, isNull

LEMMA CoversAntisymmetric ==
    ASSUME NEW p \in IntRect, NEW q \in IntRect, covers(p, q), covers(q, p)
    PROVE  p = q
BY DEF IntRect, covers, isNull

LEMMA CoversItself == ASSUME NEW e, Solid(e) PROVE covers(e, e)
BY DEF Solid, IntRect, covers, isNull

LEMMA CoveredIsInQuadrant ==
    ASSUME NEW q \in IntRect, quadrant(q) \in 0..3, NEW e, Solid(e), covers(q, e)
    PROVE  quadrant(e) = quadrant(q)
BY DEF IntRect, Solid, quadrant, getSubnodeIndex, Origin, covers, isNull

\* A quad of size one has no part that holds anything.
LEMMA SubquadHolds ==
    ASSUME NEW q, IsQuad(q), NEW e, Solid(e), covers(q, e),
           NEW i, i = getSubnodeIndex(e, centre2(q)), i # -1
    PROVE  /\ IsQuad(subquad(q, i)) /\ covers(q, subquad(q, i)) /\ covers(subquad(q, i), e)
           /\ sizeOf(q) = 2 * sizeOf(subquad(q, i))
<1> DEFINE s == sizeOf(q)
           h == s \div 2
<1>1. i \in 0..3
  BY DEF getSubnodeIndex
<1>2. q \in IntRect /\ s \in PowersOf2 /\ q.maxx = q.minx + s /\ q.maxy = q.miny + s
  BY DEF IsQuad, IntRect, sizeOf
<1>3. s # 1
  BY <1>1, <1>2 DEF getSubnodeIndex, centre2, IntRect, Solid, covers, isNull
<1>4. s \in Nat /\ h \in PowersOf2 /\ s = 2 * h /\ h \in Nat \ {0}
  BY <1>2, <1>3, HalfOfASize
<1> HIDE DEF h, s
<1> DEFINE x == IF i \in {1, 3} THEN q.minx + h ELSE q.minx
           y == IF i \in {2, 3} THEN q.miny + h ELSE q.miny
           p == subquad(q, i)
<1>5. p = [minx |-> x, maxx |-> x + h, miny |-> y, maxy |-> y + h]
  BY DEF subquad, Quad, h, s
<1>6. x \in Int /\ y \in Int /\ x >= q.minx /\ x + h <= q.maxx /\ y >= q.miny /\ y + h <= q.maxy
  BY <1>2, <1>4 DEF IntRect
<1>7. x <= e.minx /\ e.maxx <= x + h /\ y <= e.miny /\ e.maxy <= y + h
  BY <1>1, <1>2, <1>4 DEF getSubnodeIndex, centre2, IntRect, Solid, covers, isNull
<1> HIDE DEF x, y, p
<1>8. p \in IntRect /\ p.minx = x /\ p.maxx = x + h /\ p.miny = y /\ p.maxy = y + h
  BY <1>4, <1>5, <1>6 DEF IntRect
<1>9. Solid(p) /\ covers(q, p) /\ covers(p, e)
  BY <1>2, <1>4, <1>6, <1>7, <1>8 DEF Solid, covers, isNull, IntRect
<1>10. quadrant(p) \in 0..3
  BY <1>2, <1>9, CoveredIsInQuadrant DEF IsQuad
<1>11. sizeOf(p) = h /\ p.maxy - p.miny = h
  BY <1>4, <1>6, <1>8 DEF sizeOf
<1>12. Multiple(x, h) /\ Multiple(y, h)
  <2>1. Multiple(q.minx, 2 * h) /\ Multiple(q.miny, 2 * h)
    BY <1>4 DEF IsQuad, s
  <2> QED
    BY <1>2, <1>4, <2>1, HalvesAreMultiples DEF IntRect, x, y
<1>13. sizeOf(q) = 2 * sizeOf(p)
  BY <1>4, <1>11 DEF s
<1> QED
  BY <1>4, <1>8, <1>9, <1>10, <1>11, <1>12, <1>13 DEF IsQuad, p

\* A multiple of a size does not lie inside a cell of a smaller one.
LEMMA CellsDoNotCross ==
    ASSUME NEW s \in Nat \ {0}, NEW c \in Nat \ {0}, NEW S, S = 2 * (c * s),
           NEW X \in Int, Multiple(X, S), NEW x \in Int, Multiple(x, s)
    PROVE  2 * (x + s) <= X + (X + S) \/ 2 * x >= X + (X + S)
<1>1. PICK a \in Int : X = a * S
  BY DEF Multiple
<1>2. PICK b \in Int : x = b * s
  BY DEF Multiple
<1> DEFINE d == a * c
           m == 2 * d + c
<1>3. d \in Int
  OBVIOUS
<1>4. X = 2 * (d * s)
  BY <1>1
<1> HIDE DEF d
<1>5. m \in Int /\ m * s = 2 * (d * s) + c * s
  BY <1>3
<1>6. X + (X + S) = 2 * (m * s)
  BY <1>3, <1>4, <1>5
<1> HIDE DEF m
<1>7. CASE b < m
  <2>1. (b + 1) * s <= m * s
    BY <1>5, <1>7
  <2>2. (b + 1) * s = x + s
    BY <1>2
  <2> QED
    BY <1>5, <1>6, <2>1, <2>2
<1>8. CASE m <= b
  <2>1. m * s <= b * s
    BY <1>5, <1>8
  <2> QED
    BY <1>2, <1>5, <1>6, <2>1
<1> QED
  BY <1>5, <1>7, <1>8

\* A quad in another lies in one of its quarters.
LEMMA QuarterHolds ==
    ASSUME NEW r, IsQuad(r), NEW p, IsQuad(p), covers(r, p), p # r
    PROVE  getSubnodeIndex(p, centre2(r)) \in 0..3 /\ sizeOf(p) < sizeOf(r)
<1> DEFINE s == sizeOf(p)
           S == sizeOf(r)
<1>1. /\ p \in IntRect /\ s \in PowersOf2 /\ p.maxx = p.minx + s /\ p.maxy = p.miny + s
      /\ r \in IntRect /\ S \in PowersOf2 /\ r.maxx = r.minx + S /\ r.maxy = r.miny + S
  BY DEF IsQuad, IntRect, sizeOf
<1>2. s \in Nat \ {0} /\ S \in Nat \ {0}
  BY <1>1, HalfOfASize
<1>3. /\ Multiple(p.minx, s) /\ Multiple(p.miny, s)
      /\ Multiple(r.minx, S) /\ Multiple(r.miny, S)
  BY DEF IsQuad
<1> HIDE DEF s, S
<1>4. s < S
  <2>1. s <= S
    BY <1>1, <1>2 DEF IntRect, covers, isNull
  <2>2. s # S
    <3> SUFFICES ASSUME s = S PROVE p = r
      OBVIOUS
    <3>1. p.minx = r.minx /\ p.miny = r.miny /\ p.maxx = r.maxx /\ p.maxy = r.maxy
      BY <1>1, <1>2 DEF IntRect, covers, isNull
    <3> QED
      BY <1>1, <3>1 DEF IntRect
  <2> QED
    BY <1>2, <2>1, <2>2
<1>5. PICK c \in Nat \ {0} : S = 2 * (c * s)
  <2>1. PICK j \in Nat : s = powerOf2[j]
    BY <1>1, LevelAssumption DEF PowersOf2
  <2>2. PICK k \in Nat : S = powerOf2[k]
    BY <1>1, LevelAssumption DEF PowersOf2
  <2> QED
    BY <1>4, <2>1, <2>2, SizesDivide
<1>6. 2 * p.maxx <= r.minx + r.maxx \/ 2 * p.minx >= r.minx + r.maxx
  BY <1>1, <1>2, <1>3, <1>5, CellsDoNotCross DEF IntRect
<1>7. 2 * p.maxy <= r.miny + r.maxy \/ 2 * p.miny >= r.miny + r.maxy
  BY <1>1, <1>2, <1>3, <1>5, CellsDoNotCross DEF IntRect
<1>8. getSubnodeIndex(p, centre2(r)) \in 0..3
  BY <1>1, <1>6, <1>7 DEF getSubnodeIndex, centre2, IntRect
<1> QED
  BY <1>4, <1>8 DEF s, S

\* What lies in a part of a quarter has the index of the quarter.
LEMMA SameQuarter ==
    ASSUME NEW r \in IntRect, NEW p \in IntRect, getSubnodeIndex(p, centre2(r)) \in 0..3,
           NEW e, Solid(e), covers(p, e)
    PROVE  getSubnodeIndex(e, centre2(r)) = getSubnodeIndex(p, centre2(r))
BY DEF getSubnodeIndex, centre2, Solid, IntRect, covers, isNull

\* Between two quads of the set, the set has every quad: the walk down finds them.
Connected(qs) == \A p, q \in qs : (covers(p, q) /\ p # q) => subquad(p, getSubnodeIndex(q, centre2(p))) \in qs

LEMMA QuadsBetween ==
    ASSUME NEW qs, Connected(qs), \A q \in qs : IsQuad(q), NEW t \in qs, NEW q \in qs,
           NEW p, IsQuad(p), covers(t, p), covers(p, q)
    PROVE  p \in qs
<1> DEFINE around == {r \in qs : covers(r, p)}
           sizes == {sizeOf(r) : r \in around}
<1>1. sizes \in SUBSET Nat /\ sizes # {}
  <2>1. \A r \in qs : sizeOf(r) \in Nat
    BY HalfOfASize DEF IsQuad
  <2> QED
    BY <2>1
<1>2. PICK n \in sizes : \A m \in sizes : n <= m
  <2> HIDE DEF sizes
  <2> QED
    BY <1>1, LeastOfNaturals
<1>3. PICK r \in qs : covers(r, p) /\ n = sizeOf(r)
  BY <1>2
<1>4. IsQuad(r) /\ IsQuad(q) /\ r \in IntRect /\ p \in IntRect /\ q \in IntRect
  BY DEF IsQuad
<1>5. SUFFICES ASSUME p # r PROVE FALSE
  BY <1>3
<1> DEFINE i == getSubnodeIndex(p, centre2(r))
           s == subquad(r, i)
<1>6. i \in 0..3 /\ Solid(p) /\ Solid(q)
  BY <1>3, <1>4, <1>5, QuarterHolds, QuadsAreSolid
<1>7. IsQuad(s) /\ covers(r, s) /\ covers(s, p)
  BY <1>3, <1>4, <1>6, SubquadHolds
<1>8. i = getSubnodeIndex(q, centre2(r))
  BY <1>4, <1>6, SameQuarter
<1>9. covers(r, q) /\ r # q
  BY <1>3, <1>4, <1>5, CoversTransitive, CoversAntisymmetric
<1>10. s \in qs
  BY <1>3, <1>8, <1>9 DEF Connected
<1>11. sizeOf(s) \in sizes
  BY <1>7, <1>10
<1>12. s # r
  <2>1. sizeOf(r) \in PowersOf2 /\ sizeOf(r) \in Nat \ {0}
    BY <1>4, HalfOfASize DEF IsQuad
  <2>2. sizeOf(s) = sizeOf(r) \div 2
    <3> DEFINE h == sizeOf(r) \div 2
    <3>1. h \in Int
      BY <2>1
    <3>2. s.maxx = s.minx + h /\ s.minx \in Int
      BY <1>7 DEF subquad, Quad, IsQuad, IntRect
    <3> HIDE DEF h, s
    <3>3. sizeOf(s) = h
      BY <3>1, <3>2 DEF sizeOf
    <3> QED
      BY <3>3 DEF h
  <2> HIDE DEF s
  <2> QED
    BY <2>1, <2>2
<1> HIDE DEF s
<1>13. sizeOf(s) < sizeOf(r)
  BY <1>4, <1>7, <1>12, QuarterHolds
<1>14. sizeOf(s) \in Nat /\ sizeOf(r) \in Nat
  BY <1>4, <1>7, HalfOfASize DEF IsQuad
<1> QED
  BY <1>2, <1>3, <1>11, <1>13, <1>14

-----------------------------------------------------------------------------
(* The quad made for an envelope.                                          *)

WithinReach(e) == e.minx >= -Reach /\ e.maxx <= Reach /\ e.miny >= -Reach /\ e.maxy <= Reach

\* One of the four largest quads at the origin.
Whole(q) == sizeOf(q) = 2 * Reach /\ q.minx \in {0, -2 * Reach} /\ q.miny \in {0, -2 * Reach}

LEMMA ReachIsASize ==
    ASSUME MaxLevel > 0
    PROVE  Reach \in Nat \ {0} /\ 2 * Reach \in PowersOf2
<1> DEFINE k == MaxLevel - 1
<1>1. k \in Nat /\ k + 1 = MaxLevel /\ MaxLevel \in 0..MaxLevel
  BY LevelAssumption
<1> HIDE DEF k
<1>2. powerOf2[MaxLevel] = 2 * powerOf2[k] /\ powerOf2[k] \in Nat \ {0}
  BY <1>1, PowersDouble, PowersPositive
<1> QED
  BY <1>1, <1>2 DEF Reach, PowersOf2, k

LEMMA CellStarts ==
    ASSUME NEW x \in Int, NEW s \in Nat \ {0}
    PROVE  cellStart(x, s) \in Int /\ cellStart(x, s) <= x /\ x < cellStart(x, s) + s
BY DEF cellStart

LEMMA CellDivides ==
    ASSUME NEW x \in Int, NEW s \in Nat \ {0}, NEW c \in Nat \ {0}, NEW r \in Nat \ {0}, r = c * s,
           -r <= x, x < r
    PROVE  /\ x >= 0 => 0 <= cellStart(x, s) /\ cellStart(x, s) + s <= r
           /\ x < 0 => -r <= cellStart(x, s) /\ cellStart(x, s) + s <= 0
<1> DEFINE d == x \div s
<1>1. d \in Int /\ d * s <= x /\ x < d * s + s
  OBVIOUS
<1> HIDE DEF d
<1>2. x >= 0 => d >= 0
  BY <1>1
<1>3. x >= 0 => 0 <= d * s /\ d + 1 <= c
  BY <1>1, <1>2
<1>4. x < 0 => d + 1 <= 0 /\ -c <= d
  BY <1>1
<1>5. (d + 1) * s = d * s + s /\ (-c) * s = -r
  BY <1>1
<1>6. x >= 0 => (d + 1) * s <= c * s
  BY <1>1, <1>3
<1>7. x < 0 => (d + 1) * s <= 0 /\ (-c) * s <= d * s
  BY <1>1, <1>4
<1> QED
  BY <1>3, <1>5, <1>6, <1>7 DEF cellStart, d

LEMMA LargestCell ==
    ASSUME NEW x \in Int, NEW r \in Nat \ {0}, -r <= x, x < r
    PROVE  cellStart(x, 2 * r) = IF x >= 0 THEN 0 ELSE -2 * r
<1> DEFINE s == 2 * r
           d == x \div s
<1>1. d \in Int /\ d * s <= x /\ x < d * s + s /\ s \in Nat
  OBVIOUS
<1> HIDE DEF d
<1>2. d = IF x >= 0 THEN 0 ELSE -1
  BY <1>1
<1> QED
  BY <1>2 DEF cellStart, d

LEMMA WholeCovers ==
    ASSUME MaxLevel > 0, NEW q, IsQuad(q), Whole(q), NEW e, Solid(e), WithinReach(e), quadrant(e) = quadrant(q)
    PROVE  covers(q, e)
<1>1. Reach \in Nat \ {0}
  BY ReachIsASize
<1> QED
  BY <1>1 DEF IsQuad, Whole, Solid, WithinReach, quadrant, getSubnodeIndex, Origin, covers, isNull,
              IntRect, sizeOf

\* keySize ends: the largest quad of the quadrant holds the envelope.
LEMMA CreatedNode ==
    ASSUME MaxLevel > 0, NEW e, Solid(e), WithinReach(e), quadrant(e) \in 0..3
    PROVE  /\ IsQuad(createNode(e)) /\ covers(createNode(e), e)
           /\ WithinReach(createNode(e)) \/ Whole(createNode(e))
<1> DEFINE cell(s) == Quad(cellStart(e.minx, s), cellStart(e.miny, s), s)
           fitting == {s \in PowersOf2 : covers(cell(s), e)}
           extent  == Most(getWidth(e), getHeight(e))
           key     == keySize(extent, fitting)
           large   == 2 * Reach
<1>1. Reach \in Nat \ {0} /\ large \in PowersOf2 /\ large \in Nat
  BY ReachIsASize
<1>2. /\ e.minx \in Int /\ e.miny \in Int /\ -Reach <= e.minx /\ e.minx < Reach
      /\ -Reach <= e.miny /\ e.miny < Reach
      /\ e.maxx \in Int /\ e.maxy \in Int /\ e.maxx <= Reach /\ e.maxy <= Reach
      /\ e.minx < e.maxx /\ e.miny < e.maxy
      /\ e.minx < 0 => e.maxx <= 0
      /\ e.miny < 0 => e.maxy <= 0
  BY <1>1 DEF Solid, WithinReach, IntRect, quadrant, getSubnodeIndex, Origin
<1>3. extent \in Nat /\ extent < large
  BY <1>1, <1>2 DEF Most, getWidth, getHeight, isNull
<1>4. covers(cell(large), e)
  BY <1>1, <1>2, LargestCell DEF Quad, covers, isNull
<1> HIDE DEF extent, large
<1>5. key \in PowersOf2 /\ covers(cell(key), e) /\ key <= large
  <2> DEFINE T == {s \in fitting : s > extent}
  <2>1. T \in SUBSET Nat /\ large \in T
    BY <1>1, <1>3, <1>4, HalfOfASize
  <2>2. \E s \in T : \A t \in T : s <= t
    <3> HIDE DEF T
    <3> QED
      BY <2>1, LeastOfNaturals
  <2>3. key \in T /\ key <= large
    <3> HIDE DEF cell
    <3>1. \E s \in fitting : s > extent /\ \A t \in fitting : t > extent => s <= t
      BY <2>2
    <3>2. key \in fitting /\ key > extent /\ \A t \in fitting : t > extent => key <= t
      <4> HIDE DEF fitting
      <4> QED
        BY <3>1 DEF keySize
    <3> QED
      BY <3>2, <2>1
  <2> QED
    BY <2>3
<1> HIDE DEF key, fitting
<1>6. key \in Nat \ {0}
  BY <1>5, HalfOfASize
<1> DEFINE x == cellStart(e.minx, key)
           y == cellStart(e.miny, key)
           q == cell(key)
<1>7. q = createNode(e)
  BY DEF createNode, key, fitting, extent
<1>8. x \in Int /\ y \in Int
  BY <1>2, <1>6, CellStarts
<1>9. q \in IntRect /\ q.minx = x /\ q.maxx = x + key /\ q.miny = y /\ q.maxy = y + key
  BY <1>6, <1>8 DEF Quad, IntRect
<1>10. sizeOf(q) = key /\ q.maxy - q.miny = key
  <2> HIDE DEF q, x, y
  <2> QED
    BY <1>6, <1>8, <1>9 DEF sizeOf
<1>13. Multiple(x, key) /\ Multiple(y, key)
  <2>1. e.minx \div key \in Int /\ e.miny \div key \in Int
    BY <1>2, <1>6
  <2> QED
    BY <2>1 DEF Multiple, cellStart
<1>11. CASE key = large
  <2>1. x = (IF e.minx >= 0 THEN 0 ELSE -2 * Reach) /\ y = (IF e.miny >= 0 THEN 0 ELSE -2 * Reach)
    BY <1>1, <1>2, <1>11, LargestCell DEF large
  <2> HIDE DEF q, x, y
  <2>2. quadrant(q) \in 0..3
    BY <1>1, <1>2, <1>6, <1>9, <1>11, <2>1 DEF quadrant, getSubnodeIndex, Origin, large
  <2>3. Whole(q)
    BY <1>1, <1>9, <1>10, <1>11, <2>1 DEF Whole, large
  <2> QED
    BY <1>5, <1>7, <1>9, <1>10, <1>13, <2>2, <2>3 DEF IsQuad, q
<1>12. CASE key # large
  <2>1. PICK c \in Nat \ {0} : large = 2 * (c * key)
    <3>1. PICK j \in Nat : key = powerOf2[j]
      BY <1>5, LevelAssumption DEF PowersOf2
    <3>2. PICK k \in Nat : large = powerOf2[k]
      BY <1>1, LevelAssumption DEF PowersOf2
    <3>3. powerOf2[j] < powerOf2[k]
      BY <1>1, <1>5, <1>6, <1>12, <3>1, <3>2
    <3> QED
      BY <3>1, <3>2, <3>3, SizesDivide
  <2>2. Reach = c * key
    BY <1>1, <1>6, <2>1 DEF large
  <2>3. /\ e.minx >= 0 => 0 <= x /\ x + key <= Reach
        /\ e.minx < 0 => -Reach <= x /\ x + key <= 0
        /\ e.miny >= 0 => 0 <= y /\ y + key <= Reach
        /\ e.miny < 0 => -Reach <= y /\ y + key <= 0
    BY <1>1, <1>2, <1>6, <2>2, CellDivides
  <2> HIDE DEF q, x, y
  <2>4. quadrant(q) \in 0..3
    BY <1>1, <1>2, <1>6, <1>8, <1>9, <2>3 DEF quadrant, getSubnodeIndex, Origin
  <2>5. WithinReach(q)
    BY <1>1, <1>2, <1>6, <1>8, <1>9, <2>3 DEF WithinReach
  <2> QED
    BY <1>5, <1>7, <1>9, <1>10, <1>13, <2>4, <2>5 DEF IsQuad, q
<1> QED
  BY <1>11, <1>12

-----------------------------------------------------------------------------
(* The walk down to an envelope.                                           *)

\* Sequences of quads around e that start at q.
PathsTo(q, e) ==
    {p \in Seq(IntRect) : /\ Len(p) > 0 /\ p[1] = q
                          /\ \A i \in 1..Len(p) : IsQuad(p[i]) /\ covers(q, p[i]) /\ covers(p[i], e)
                          /\ \A i, j \in 1..Len(p) : i <= j => covers(p[i], p[j])
                          /\ \A i \in 1..(Len(p) - 1) : p[i + 1] = subquad(p[i], getSubnodeIndex(e, centre2(p[i])))}

\* One step of the walk.
Deeper(p, e) ==
    LET i == getSubnodeIndex(e, centre2(Last(p)))
    IN  IF i = -1 THEN p ELSE Append(p, subquad(Last(p), i))

LEMMA DeeperIsAPath ==
    ASSUME NEW q, IsQuad(q), NEW e, Solid(e), NEW p \in PathsTo(q, e)
    PROVE  Deeper(p, e) \in PathsTo(q, e)
<1> DEFINE i == getSubnodeIndex(e, centre2(Last(p)))
           n == subquad(Last(p), i)
<1>1. p \in Seq(IntRect) /\ Len(p) \in Nat \ {0} /\ p[1] = q /\ Len(p) \in 1..Len(p)
  BY DEF PathsTo
<1>2. IsQuad(Last(p)) /\ covers(q, Last(p)) /\ covers(Last(p), e) /\ Last(p) \in IntRect
  BY <1>1 DEF PathsTo, Last, IsQuad
<1>3. CASE i = -1
  BY <1>3 DEF Deeper
<1>4. CASE i # -1
  <2>1. IsQuad(n) /\ covers(Last(p), n) /\ covers(n, e)
    BY <1>2, <1>4, SubquadHolds
  <2>2. n \in IntRect /\ q \in IntRect /\ covers(q, n)
    BY <1>2, <2>1, CoversTransitive DEF IsQuad
  <2> HIDE DEF n
  <2> DEFINE r == Append(p, n)
  <2>3. /\ r \in Seq(IntRect) /\ Len(r) = Len(p) + 1 /\ r[1] = q
        /\ \A k \in 1..Len(r) : r[k] = IF k = Len(p) + 1 THEN n ELSE p[k]
    BY <1>1, <2>2
  <2>4. \A k \in 1..Len(p) : IsQuad(p[k]) /\ covers(q, p[k]) /\ covers(p[k], e)
    BY DEF PathsTo
  <2>5. Deeper(p, e) = r
    BY <1>4 DEF Deeper, n
  <2> HIDE DEF r
  <2>6. \A k \in 1..Len(r) : IsQuad(r[k]) /\ covers(q, r[k]) /\ covers(r[k], e)
    BY <1>1, <2>1, <2>2, <2>3, <2>4
  <2>7. ASSUME NEW j \in 1..Len(r), NEW k \in 1..Len(r), j <= k PROVE covers(r[j], r[k])
    <3>1. CASE k # Len(p) + 1
      <4>1. j \in 1..Len(p) /\ k \in 1..Len(p) /\ r[j] = p[j] /\ r[k] = p[k]
        BY <1>1, <2>3, <2>7, <3>1
      <4> QED
        BY <2>7, <4>1 DEF PathsTo
    <3>2. CASE k = Len(p) + 1 /\ j # k
      <4>1. j \in 1..Len(p) /\ r[j] = p[j] /\ r[k] = n /\ j <= Len(p)
        BY <1>1, <2>3, <2>7, <3>2
      <4>2. covers(p[j], Last(p)) /\ p[j] \in IntRect
        BY <1>1, <4>1 DEF PathsTo, Last
      <4> QED
        BY <1>2, <2>1, <2>2, <4>1, <4>2, CoversTransitive
    <3>3. CASE k = Len(p) + 1 /\ j = k
      <4>1. covers(n, n)
        BY <2>1, QuadsAreSolid, CoversItself
      <4> QED
        BY <2>3, <3>3, <4>1
    <3> QED
      BY <3>1, <3>2, <3>3
  <2>8. ASSUME NEW k \in 1..(Len(r) - 1) PROVE r[k + 1] = subquad(r[k], getSubnodeIndex(e, centre2(r[k])))
    <3>1. CASE k = Len(p)
      <4>1. r[k + 1] = n /\ r[k] = Last(p)
        BY <1>1, <2>3, <3>1 DEF Last
      <4> QED
        BY <4>1 DEF n
    <3>2. CASE k # Len(p)
      <4>1. k \in 1..(Len(p) - 1) /\ r[k + 1] = p[k + 1] /\ r[k] = p[k]
        BY <1>1, <2>3, <3>2
      <4> QED
        BY <4>1 DEF PathsTo
    <3> QED
      BY <3>1, <3>2
  <2> QED
    BY <1>1, <2>3, <2>5, <2>6, <2>7, <2>8 DEF PathsTo
<1> QED
  BY <1>3, <1>4

LEMMA WalkDown ==
    ASSUME NEW q, IsQuad(q), NEW e, Solid(e), covers(q, e)
    PROVE  \E path \in [Nat -> PathsTo(q, e)] :
              /\ path[0] = <<q>> /\ \A k \in Nat : path[k + 1] = Deeper(path[k], e)
              /\ pathTo(q, e) = path[MaxLevel + 1]
<1> DEFINE S == PathsTo(q, e)
           F == [p \in S |-> Deeper(p, e)]
<1>1. F \in [S -> S]
  BY DeeperIsAPath
<1>2. <<q>> \in S
  <2>1. q \in IntRect /\ covers(q, q)
    BY QuadsAreSolid, CoversItself DEF IsQuad
  <2>2. <<q>> \in Seq(IntRect) /\ Len(<<q>>) = 1 /\ <<q>>[1] = q
    BY <2>1
  <2>3. \A i \in 1..Len(<<q>>) : <<q>>[i] = q
    OBVIOUS
  <2> QED
    BY <2>1, <2>2, <2>3 DEF PathsTo
<1>3. \E f \in [Nat -> S] : IsIteration(f, <<q>>, F)
  <2> HIDE DEF S, F
  <2> QED
    BY <1>1, <1>2, IterationExists
<1>4. PICK f \in [Nat -> S] : f = [k \in Nat |-> IF k = 0 THEN <<q>> ELSE F[f[k - 1]]]
  BY <1>3 DEF IsIteration
<1>5. f = [k \in Nat |-> IF k = 0 THEN <<q>> ELSE Deeper(f[k - 1], e)]
  <2>1. \A k \in Nat : f[k] = IF k = 0 THEN <<q>> ELSE Deeper(f[k - 1], e)
    <3> TAKE k \in Nat
    <3>1. CASE k = 0
      BY <1>4, <3>1
    <3>2. CASE k # 0
      <4>1. k - 1 \in Nat /\ f[k - 1] \in S
        BY <3>2
      <4>2. f[k] = F[f[k - 1]]
        BY <1>4, <3>2
      <4> QED
        BY <3>2, <4>1, <4>2
    <3> QED
      BY <3>1, <3>2
  <2>2. f = [k \in Nat |-> f[k]]
    OBVIOUS
  <2> HIDE DEF S, F
  <2> QED
    BY <2>1, <2>2
<1> DEFINE path == CHOOSE g : g = [k \in Nat |-> IF k = 0 THEN <<q>> ELSE Deeper(g[k - 1], e)]
<1>6. path = [k \in Nat |-> IF k = 0 THEN <<q>> ELSE Deeper(path[k - 1], e)]
  BY <1>5
<1>7. pathTo(q, e) = path[MaxLevel + 1]
  BY DEF pathTo, Deeper
<1> HIDE DEF path
<1>8. path \in [Nat -> S]
  <2> DEFINE T == {k \in Nat : path[k] \in S}
  <2>1. 0 \in T
    BY <1>2, <1>6
  <2>2. ASSUME NEW k \in Nat, k \in T PROVE k + 1 \in T
    <3>1. path[k + 1] = Deeper(path[k], e)
      BY <1>6
    <3> QED
      BY <2>2, <3>1, DeeperIsAPath
  <2>3. \A k \in Nat : k \in T
    <3> HIDE DEF T
    <3> QED
      BY <2>1, <2>2, InductionOnSets
  <2>4. \A k \in Nat : path[k] \in S
    BY <2>3
  <2>5. DOMAIN path = Nat /\ path = [k \in Nat |-> path[k]]
    BY <1>6
  <2> HIDE DEF S
  <2> QED
    BY <2>4, <2>5
<1>9. path[0] = <<q>> /\ \A k \in Nat : path[k + 1] = Deeper(path[k], e)
  BY <1>6
<1> QED
  BY <1>7, <1>8, <1>9

\* The levels suffice: the walk ends at the smallest quad that can hold the envelope.
LEMMA PathToIsAPath ==
    ASSUME NEW q, IsQuad(q), NEW e, Solid(e), covers(q, e)
    PROVE  /\ pathTo(q, e) \in PathsTo(q, e)
           /\ getSubnodeIndex(e, centre2(Last(pathTo(q, e)))) = -1
<1> DEFINE ended(p) == getSubnodeIndex(e, centre2(Last(p))) = -1
<1>1. PICK path \in [Nat -> PathsTo(q, e)] :
         /\ path[0] = <<q>> /\ \A k \in Nat : path[k + 1] = Deeper(path[k], e)
         /\ pathTo(q, e) = path[MaxLevel + 1]
  BY WalkDown
<1>2. ASSUME NEW k \in Nat
      PROVE  /\ path[k] \in Seq(IntRect) /\ Len(path[k]) \in Nat \ {0}
             /\ IsQuad(Last(path[k])) /\ covers(Last(path[k]), e)
             /\ sizeOf(Last(path[k])) \in Nat \ {0}
  <2> DEFINE p == path[k]
  <2>1. p \in PathsTo(q, e)
    BY <1>1
  <2> HIDE DEF p
  <2>2. p \in Seq(IntRect) /\ Len(p) \in Nat \ {0} /\ Len(p) \in 1..Len(p)
    <3>1. p \in Seq(IntRect) /\ Len(p) > 0
      BY <2>1 DEF PathsTo
    <3> QED
      BY <3>1
  <2>3. IsQuad(Last(p)) /\ covers(Last(p), e)
    BY <2>1, <2>2 DEF PathsTo, Last
  <2> QED
    BY <2>2, <2>3, HalfOfASize DEF p, IsQuad
<1> DEFINE P == {k \in Nat : ended(path[k]) \/ sizeOf(Last(path[k])) * powerOf2[k] = sizeOf(q)}
<1>3. 0 \in P
  <2>1. Last(path[0]) = q
    BY <1>1 DEF Last
  <2>2. sizeOf(q) \in Nat
    BY <1>2, <2>1
  <2> QED
    BY <2>1, <2>2, PowersDouble
<1>4. ASSUME NEW k \in Nat, k \in P PROVE k + 1 \in P
  <2> DEFINE p == path[k]
             last == Last(p)
             i == getSubnodeIndex(e, centre2(last))
             n == subquad(last, i)
  <2>1. path[k + 1] = Deeper(p, e)
    BY <1>1
  <2>2. CASE ended(p)
    <3>1. path[k + 1] = p
      BY <2>1, <2>2 DEF Deeper
    <3> QED
      BY <2>2, <3>1
  <2>3. CASE ~ended(p)
    <3>1. path[k + 1] = Append(p, n)
      BY <2>1, <2>3 DEF Deeper
    <3>2. IsQuad(last) /\ covers(last, e)
      BY <1>2
    <3>3. IsQuad(n) /\ sizeOf(last) = 2 * sizeOf(n)
      BY <2>3, <3>2, SubquadHolds
    <3>4. n \in IntRect /\ sizeOf(n) \in Nat
      BY <3>3, HalfOfASize DEF IsQuad
    <3>5. p \in Seq(IntRect) /\ sizeOf(last) * powerOf2[k] = sizeOf(q)
      BY <1>2, <1>4, <2>3
    <3> HIDE DEF n, p, last
    <3>6. Last(Append(p, n)) = n
      BY <3>4, <3>5 DEF Last
    <3>7. powerOf2[k + 1] = 2 * powerOf2[k] /\ powerOf2[k] \in Nat
      BY PowersDouble
    <3>8. sizeOf(n) * (2 * powerOf2[k]) = (2 * sizeOf(n)) * powerOf2[k]
      BY <3>4, <3>7
    <3>9. sizeOf(Last(path[k + 1])) * powerOf2[k + 1] = sizeOf(q)
      BY <3>1, <3>3, <3>5, <3>6, <3>7, <3>8
    <3> QED
      BY <3>9
  <2> QED
    BY <2>2, <2>3
<1>5. MaxLevel + 1 \in Nat /\ MaxLevel + 1 \in P
  <2>1. MaxLevel + 1 \in Nat
    BY LevelAssumption
  <2> HIDE DEF P
  <2> QED
    BY <1>3, <1>4, <2>1, InductionOnSets
<1>6. ended(path[MaxLevel + 1])
  <2> SUFFICES ASSUME ~ended(path[MaxLevel + 1]) PROVE FALSE
    OBVIOUS
  <2> DEFINE s == sizeOf(Last(path[MaxLevel + 1]))
             m == powerOf2[MaxLevel]
  <2>1. s \in Nat \ {0}
    BY <1>2, <1>5
  <2>2. m \in Nat \ {0} /\ powerOf2[MaxLevel + 1] = 2 * m
    BY PowersPositive, PowersDouble, LevelAssumption
  <2>3. s * (2 * m) = sizeOf(q)
    BY <1>5, <2>2
  <2>4. PICK k \in 0..MaxLevel : sizeOf(q) = powerOf2[k]
    BY DEF IsQuad, PowersOf2
  <2> DEFINE d == MaxLevel - k
  <2>5. k \in Nat /\ d \in Nat /\ k + d = MaxLevel
    BY LevelAssumption
  <2> HIDE DEF s, m, d
  <2>6. PICK c \in Nat \ {0} : powerOf2[k + d] = c * powerOf2[k]
    BY <2>5, PowersDivide
  <2>7. powerOf2[k] \in Nat \ {0}
    BY <2>5, PowersPositive
  <2>8. m >= sizeOf(q)
    <3>1. c * powerOf2[k] >= powerOf2[k]
      BY <2>7
    <3> QED
      BY <2>4, <2>5, <2>6, <3>1 DEF m
  <2>9. s * (2 * m) >= 2 * m
    BY <2>1, <2>2
  <2>10. sizeOf(q) \in Nat
    BY <2>4, <2>7
  <2> QED
    BY <2>2, <2>3, <2>8, <2>9, <2>10
<1> QED
  BY <1>1, <1>5, <1>6

LEMMA PathsConnect ==
    ASSUME NEW q, IsQuad(q), NEW e, Solid(e), NEW p \in PathsTo(q, e)
    PROVE  Connected(ToSet(p))
<1>1. p \in Seq(IntRect) /\ Len(p) \in Nat /\ DOMAIN p = 1..Len(p)
  BY DEF PathsTo
<1>2. ASSUME NEW a \in ToSet(p), NEW b \in ToSet(p), covers(a, b), a # b
      PROVE  subquad(a, getSubnodeIndex(b, centre2(a))) \in ToSet(p)
  <2>1. PICK i \in 1..Len(p) : a = p[i]
    BY <1>1 DEF ToSet
  <2>2. PICK j \in 1..Len(p) : b = p[j]
    BY <1>1 DEF ToSet
  <2>3. IsQuad(a) /\ IsQuad(b) /\ covers(b, e) /\ a \in IntRect /\ b \in IntRect
    BY <2>1, <2>2 DEF PathsTo, IsQuad
  <2>4. i < j
    <3> SUFFICES ASSUME j <= i PROVE FALSE
      BY <1>1
    <3>1. covers(b, a)
      BY <2>1, <2>2 DEF PathsTo
    <3> QED
      BY <1>2, <2>3, <3>1, CoversAntisymmetric
  <2>5. i \in 1..(Len(p) - 1) /\ i + 1 \in 1..Len(p)
    BY <1>1, <2>4
  <2>6. p[i + 1] = subquad(a, getSubnodeIndex(e, centre2(a)))
    BY <2>1, <2>5 DEF PathsTo
  <2>7. getSubnodeIndex(e, centre2(a)) = getSubnodeIndex(b, centre2(a))
    BY <1>2, <2>3, QuarterHolds, SameQuarter
  <2>8. p[i + 1] \in ToSet(p)
    BY <1>1, <2>5 DEF ToSet
  <2> QED
    BY <2>6, <2>7, <2>8
<1> QED
  BY <1>2 DEF Connected

-----------------------------------------------------------------------------
(* The tree as a set of quads.                                             *)

\* t covers every quad of its quadrant.
TopOf(t, qs, i) == /\ t \in qs /\ quadrant(t) = i
                   /\ WithinReach(t) \/ Whole(t)
                   /\ \A q \in qs : quadrant(q) = i => covers(t, q)

\* Each quadrant is empty or has one top: what the insertion of an item relies on.
Rooted(qs) == /\ \A q \in qs : IsQuad(q)
              /\ \A q \in qs : \E t \in qs : TopOf(t, qs, quadrant(q))
              /\ IsFiniteSet(qs)

LEMMA TopIsFound ==
    ASSUME Rooted(DOMAIN quads), NEW t, NEW i \in 0..3, TopOf(t, DOMAIN quads, i)
    PROVE  topFor(i) = {t}
<1>1. t \in DOMAIN quads /\ quadrant(t) = i /\ IsQuad(t) /\ t \in IntRect /\ Solid(t)
  BY QuadsAreSolid DEF TopOf, Rooted, IsQuad
<1>2. ASSUME NEW p \in DOMAIN quads, covers(p, t) PROVE p = t
  <2>1. IsQuad(p) /\ p \in IntRect /\ quadrant(p) \in 0..3
    BY DEF Rooted, IsQuad
  <2>2. quadrant(p) = i
    BY <1>1, <1>2, <2>1, CoveredIsInQuadrant
  <2>3. covers(t, p)
    BY <2>2 DEF TopOf
  <2> QED
    BY <1>1, <1>2, <2>1, <2>3, CoversAntisymmetric
<1>3. t \in topFor(i)
  BY <1>1, <1>2 DEF topFor, isTop, quadrant
<1>4. ASSUME NEW q \in topFor(i) PROVE q = t
  <2>1. q \in DOMAIN quads /\ isTop(q) /\ quadrant(q) = i
    BY DEF topFor, quadrant
  <2>2. covers(t, q)
    BY <2>1 DEF TopOf
  <2> QED
    BY <1>1, <2>1, <2>2 DEF isTop
<1> QED
  BY <1>3, <1>4

LEMMA NoTopIsFound ==
    ASSUME Rooted(DOMAIN quads), NEW i \in 0..3, topFor(i) = {}
    PROVE  \A q \in DOMAIN quads : quadrant(q) # i
BY TopIsFound DEF Rooted

LEMMA UnionIsWithinReach ==
    ASSUME NEW e, Solid(e), WithinReach(e), NEW f, Solid(f), WithinReach(f),
           quadrant(e) \in 0..3, quadrant(f) = quadrant(e)
    PROVE  LET u == expandToInclude(e, f)
           IN  Solid(u) /\ WithinReach(u) /\ quadrant(u) = quadrant(e) /\ covers(u, e) /\ covers(u, f)
<1> DEFINE u == expandToInclude(e, f)
<1>1. u = [minx |-> Least(e.minx, f.minx), maxx |-> Most(e.maxx, f.maxx),
           miny |-> Least(e.miny, f.miny), maxy |-> Most(e.maxy, f.maxy)]
  BY DEF expandToInclude, isNull, Solid, IntRect
<1>2. u \in IntRect
  BY <1>1 DEF IntRect, Solid, Least, Most
<1> HIDE DEF u
<1>3. /\ u.minx \in {e.minx, f.minx} /\ u.minx <= e.minx /\ u.minx <= f.minx
      /\ u.maxx \in {e.maxx, f.maxx} /\ u.maxx >= e.maxx /\ u.maxx >= f.maxx
      /\ u.miny \in {e.miny, f.miny} /\ u.miny <= e.miny /\ u.miny <= f.miny
      /\ u.maxy \in {e.maxy, f.maxy} /\ u.maxy >= e.maxy /\ u.maxy >= f.maxy
  BY <1>1 DEF IntRect, Solid, Least, Most
<1>4. Solid(u)
  BY <1>2, <1>3 DEF Solid, IntRect
<1>5. WithinReach(u)
  BY <1>2, <1>3 DEF WithinReach
<1>6. covers(u, e) /\ covers(u, f)
  BY <1>2, <1>3, <1>4 DEF Solid, IntRect, covers, isNull
<1>7. quadrant(u) = quadrant(e)
  BY <1>2, <1>3 DEF Solid, IntRect, quadrant, getSubnodeIndex, Origin
<1> QED
  BY <1>4, <1>5, <1>6, <1>7 DEF u

LEMMA PathsAreFinite ==
    ASSUME NEW q, NEW e, NEW p \in PathsTo(q, e)
    PROVE  IsFiniteSet(ToSet(p))
<1>1. p \in Seq(IntRect) /\ Len(p) \in Nat /\ DOMAIN p = 1..Len(p)
  BY DEF PathsTo
<1>2. IsFiniteSet(1..Len(p))
  BY <1>1, FS_Interval
<1>3. ToSet(p) = {p[i] : i \in 1..Len(p)}
  BY <1>1 DEF ToSet
<1> QED
  BY <1>2, <1>3, ImageIsFinite

\* More quads under a larger top.
LEMMA GrowingStaysRooted ==
    ASSUME NEW qs, Rooted(qs), NEW i \in 0..3, NEW t, IsQuad(t), quadrant(t) = i, WithinReach(t) \/ Whole(t),
           NEW more, IsFiniteSet(more), t \in qs \cup more,
           \A q \in more : IsQuad(q) /\ covers(t, q),
           \A q \in qs : quadrant(q) = i => covers(t, q)
    PROVE  Rooted(qs \cup more) /\ TopOf(t, qs \cup more, i)
<1> DEFINE all == qs \cup more
<1>1. IsFiniteSet(all)
  BY FS_Union DEF Rooted
<1>2. \A q \in more : quadrant(q) = i
  BY QuadsAreSolid, CoveredIsInQuadrant DEF IsQuad
<1>3. TopOf(t, all, i)
  BY DEF TopOf
<1>4. ASSUME NEW q \in all PROVE \E s \in all : TopOf(s, all, quadrant(q))
  <2>1. CASE quadrant(q) = i
    BY <1>3, <2>1
  <2>2. CASE quadrant(q) # i
    <3>1. q \in qs
      BY <1>2, <2>2
    <3>2. PICK s \in qs : TopOf(s, qs, quadrant(q))
      BY <3>1 DEF Rooted
    <3>3. TopOf(s, all, quadrant(q))
      BY <1>2, <2>2, <3>2 DEF TopOf
    <3> QED
      BY <3>2, <3>3
  <2> QED
    BY <2>1, <2>2
<1>5. \A q \in all : IsQuad(q)
  BY DEF Rooted
<1> QED
  BY <1>1, <1>3, <1>4, <1>5 DEF Rooted

\* A path from the top of a quadrant joins the tree.
LEMMA UnionConnects ==
    ASSUME NEW A, Connected(A), \A q \in A : IsQuad(q), NEW B, Connected(B), \A q \in B : IsQuad(q),
           NEW t \in A \cap B, \A q \in B : covers(t, q),
           \A q \in A : quadrant(q) = quadrant(t) => covers(t, q)
    PROVE  Connected(A \cup B)
<1> SUFFICES ASSUME NEW p \in A \cup B, NEW q \in A \cup B, covers(p, q), p # q
             PROVE  subquad(p, getSubnodeIndex(q, centre2(p))) \in A \cup B
  BY DEF Connected
<1>1. IsQuad(p) /\ IsQuad(q) /\ IsQuad(t) /\ Solid(q)
  BY QuadsAreSolid
<1>2. CASE p \in A /\ q \in A
  BY <1>2 DEF Connected
<1>3. CASE p \in B /\ q \in B
  BY <1>3 DEF Connected
<1>4. CASE p \in A /\ q \in B
  <2>1. quadrant(q) = quadrant(t) /\ quadrant(q) = quadrant(p)
    BY <1>1, <1>4, CoveredIsInQuadrant DEF IsQuad
  <2>2. covers(t, p)
    BY <1>4, <2>1
  <2>3. p \in B
    BY <1>1, <1>4, <2>2, QuadsBetween
  <2> QED
    BY <1>4, <2>3 DEF Connected
<1>5. CASE p \in B /\ q \in A
  <2>1. covers(t, p)
    BY <1>5
  <2>2. p \in A
    BY <1>1, <1>5, <2>1, QuadsBetween
  <2> QED
    BY <1>5, <2>2 DEF Connected
<1> QED
  BY <1>2, <1>3, <1>4, <1>5

\* So does a path from a larger quad down to the top of a quadrant.
LEMMA GrowthConnects ==
    ASSUME NEW A, Connected(A), \A q \in A : IsQuad(q), NEW B, Connected(B),
           NEW old \in A \cap B, \A q \in B : IsQuad(q) /\ covers(q, old),
           \A q \in A : quadrant(q) = quadrant(old) => covers(old, q)
    PROVE  Connected(A \cup B)
<1> SUFFICES ASSUME NEW p \in A \cup B, NEW q \in A \cup B, covers(p, q), p # q
             PROVE  subquad(p, getSubnodeIndex(q, centre2(p))) \in A \cup B
  BY DEF Connected
<1>1. /\ IsQuad(p) /\ IsQuad(q) /\ IsQuad(old) /\ Solid(q) /\ Solid(old)
      /\ p \in IntRect /\ q \in IntRect /\ old \in IntRect
  BY QuadsAreSolid DEF IsQuad
<1>2. CASE p \in A /\ q \in A
  BY <1>2 DEF Connected
<1>3. CASE p \in B /\ q \in B
  BY <1>3 DEF Connected
<1>4. CASE p \in A /\ q \in B
  <2>1. covers(p, old)
    BY <1>1, <1>4, CoversTransitive
  <2>2. quadrant(p) = quadrant(old)
    BY <1>1, <2>1, CoveredIsInQuadrant DEF IsQuad
  <2>3. covers(old, p)
    BY <1>4, <2>2
  <2>4. p = old
    BY <1>1, <2>1, <2>3, CoversAntisymmetric
  <2> QED
    BY <1>3, <1>4, <2>4
<1>5. CASE p \in B /\ q \in A /\ p # old
  <2>1. covers(p, old)
    BY <1>5
  <2>2. quadrant(q) = quadrant(p) /\ quadrant(old) = quadrant(p)
    BY <1>1, <2>1, CoveredIsInQuadrant DEF IsQuad
  <2>3. covers(old, q)
    BY <1>5, <2>2
  <2>4. getSubnodeIndex(old, centre2(p)) \in 0..3
    BY <1>1, <1>5, <2>1, QuarterHolds
  <2>5. getSubnodeIndex(q, centre2(p)) = getSubnodeIndex(old, centre2(p))
    BY <1>1, <2>3, <2>4, SameQuarter
  <2>6. subquad(p, getSubnodeIndex(old, centre2(p))) \in B
    BY <1>5, <2>1 DEF Connected
  <2> QED
    BY <2>5, <2>6
<1> QED
  BY <1>2, <1>3, <1>4, <1>5

\* Root::insert: the quadrant gets a top that covers the envelope.
LEMMA ExpandedHolds ==
    ASSUME MaxLevel > 0, Rooted(DOMAIN quads), Connected(DOMAIN quads),
           NEW e, Solid(e), WithinReach(e), NEW i \in 0..3, quadrant(e) = i
    PROVE  /\ Rooted(expanded(i, e)) /\ Connected(expanded(i, e)) /\ DOMAIN quads \subseteq expanded(i, e)
           /\ \E t : TopOf(t, expanded(i, e), i) /\ covers(t, e)
<1> DEFINE D == DOMAIN quads
<1>1. CASE \E q \in topFor(i) : covers(q, e)
  <2>1. expanded(i, e) = D
    BY <1>1 DEF expanded
  <2>2. PICK q \in D : covers(q, e) /\ quadrant(q) = i
    BY <1>1 DEF topFor, quadrant
  <2>3. PICK t \in D : TopOf(t, D, i)
    BY <2>2 DEF Rooted
  <2>4. covers(t, q) /\ t \in IntRect /\ q \in IntRect
    BY <2>2, <2>3 DEF TopOf, Rooted, IsQuad
  <2>5. covers(t, e)
    BY <2>2, <2>4, CoversTransitive DEF Solid
  <2> QED
    BY <2>1, <2>3, <2>5
<1>2. CASE topFor(i) = {}
  <2> DEFINE t == createNode(e)
             more == {t}
  <2>1. expanded(i, e) = D \cup more
    BY <1>2 DEF expanded
  <2>2. IsQuad(t) /\ covers(t, e) /\ (WithinReach(t) \/ Whole(t))
    BY CreatedNode
  <2>3. quadrant(t) = i /\ covers(t, t)
    BY <2>2, CoveredIsInQuadrant, CoversItself, QuadsAreSolid DEF IsQuad
  <2>4. IsFiniteSet(more)
    BY FS_Singleton
  <2>5. \A q \in D : quadrant(q) # i
    BY <1>2, NoTopIsFound
  <2> HIDE DEF t
  <2>6. /\ t \in D \cup more /\ IsFiniteSet(more)
        /\ \A q \in more : IsQuad(q) /\ covers(t, q)
        /\ \A q \in D : quadrant(q) = i => covers(t, q)
    BY <2>2, <2>3, <2>4, <2>5
  <2> HIDE DEF more
  <2>7. Rooted(D \cup more) /\ TopOf(t, D \cup more, i)
    BY <2>2, <2>3, <2>6, GrowingStaysRooted
  <2>8. Connected(D \cup more)
    <3> SUFFICES ASSUME NEW p \in D \cup more, NEW q \in D \cup more, covers(p, q), p # q
                 PROVE  p \in D /\ q \in D
      BY DEF Connected
    <3>1. IsQuad(p) /\ IsQuad(q) /\ Solid(q)
      BY <2>6, QuadsAreSolid DEF Rooted
    <3>2. quadrant(p) = quadrant(q)
      BY <3>1, CoveredIsInQuadrant DEF IsQuad
    <3> QED
      BY <2>3, <2>5, <3>2 DEF more
  <2> QED
    BY <2>1, <2>2, <2>7, <2>8
<1>3. CASE topFor(i) # {} /\ ~\E q \in topFor(i) : covers(q, e)
  <2> DEFINE old == CHOOSE q \in topFor(i) : TRUE
             u == expandToInclude(e, old)
             t == createNode(u)
             more == {q \in ToSet(pathTo(t, old)) : covers(q, old)}
  <2>1. expanded(i, e) = D \cup more
    BY <1>3 DEF expanded
  <2>2. old \in topFor(i)
    BY <1>3
  <2>3. old \in D /\ quadrant(old) = i /\ ~covers(old, e)
    BY <1>3, <2>2 DEF topFor, quadrant
  <2>4. TopOf(old, D, i)
    <3>1. PICK s \in D : TopOf(s, D, i)
      BY <2>3 DEF Rooted
    <3>2. topFor(i) = {s}
      BY <3>1, TopIsFound
    <3> QED
      BY <2>2, <3>1, <3>2
  <2>5. IsQuad(old) /\ Solid(old) /\ (WithinReach(old) \/ Whole(old))
    BY <2>3, <2>4, QuadsAreSolid DEF TopOf, Rooted
  <2> HIDE DEF old
  <2>6. WithinReach(old)
    BY <2>3, <2>5, WholeCovers
  <2>7. Solid(u) /\ WithinReach(u) /\ quadrant(u) = i /\ covers(u, e) /\ covers(u, old)
    BY <2>3, <2>5, <2>6, UnionIsWithinReach
  <2> HIDE DEF u
  <2>8. IsQuad(t) /\ covers(t, u) /\ (WithinReach(t) \/ Whole(t))
    BY <2>7, CreatedNode
  <2> HIDE DEF t
  <2>9. t \in IntRect /\ Solid(t) /\ u \in IntRect /\ e \in IntRect /\ old \in IntRect
    BY <2>5, <2>7, <2>8, QuadsAreSolid DEF Solid
  <2>10. covers(t, e) /\ covers(t, old) /\ quadrant(t) = i
    BY <2>5, <2>7, <2>8, <2>9, CoversTransitive, CoveredIsInQuadrant DEF IsQuad
  <2> DEFINE path == pathTo(t, old)
  <2>11. path \in PathsTo(t, old)
    BY <2>5, <2>8, <2>10, PathToIsAPath
  <2> HIDE DEF path
  <2>12. path \in Seq(IntRect) /\ Len(path) > 0 /\ path[1] = t /\ DOMAIN path = 1..Len(path)
    BY <2>11 DEF PathsTo
  <2>13. \A q \in ToSet(path) : IsQuad(q) /\ covers(t, q)
    BY <2>11, <2>12 DEF PathsTo, ToSet
  <2>14. t \in ToSet(path) /\ IsFiniteSet(ToSet(path))
    BY <2>11, <2>12, PathsAreFinite DEF ToSet
  <2>15. more = {q \in ToSet(path) : covers(q, old)}
    BY DEF path
  <2> HIDE DEF more
  <2>16. t \in more /\ IsFiniteSet(more) /\ \A q \in more : IsQuad(q) /\ covers(t, q)
    <3>1. more \subseteq ToSet(path)
      BY <2>15
    <3> QED
      BY <2>10, <2>13, <2>14, <2>15, <3>1, FS_Subset
  <2>17. ASSUME NEW q \in D, quadrant(q) = i PROVE covers(t, q)
    <3>1. covers(old, q) /\ q \in IntRect
      BY <2>4, <2>17 DEF TopOf, Rooted, IsQuad
    <3> QED
      BY <2>9, <2>10, <3>1, CoversTransitive
  <2>18. Rooted(D \cup more) /\ TopOf(t, D \cup more, i)
    BY <2>8, <2>10, <2>16, <2>17, GrowingStaysRooted
  <2>19. /\ \A q \in ToSet(path) : IsQuad(q) /\ covers(q, old)
         /\ Connected(ToSet(path))
    <3>1. Connected(ToSet(path))
      BY <2>5, <2>8, <2>11, PathsConnect
    <3>2. \A j \in 1..Len(path) : IsQuad(path[j]) /\ covers(path[j], old)
      BY <2>11 DEF PathsTo
    <3>3. \A q \in ToSet(path) : \E j \in 1..Len(path) : q = path[j]
      BY <2>12 DEF ToSet
    <3> QED
      BY <3>1, <3>2, <3>3
  <2>20. old \in ToSet(path)
    <3> DEFINE z == Last(path)
    <3>1. z \in ToSet(path)
      BY <2>12 DEF Last, ToSet
    <3>2. getSubnodeIndex(old, centre2(z)) = -1
      BY <2>5, <2>8, <2>10, PathToIsAPath DEF path
    <3> HIDE DEF z
    <3>3. IsQuad(z) /\ covers(z, old)
      BY <2>19, <3>1
    <3>4. z = old
      BY <2>5, <3>2, <3>3, QuarterHolds
    <3> QED
      BY <3>1, <3>4
  <2>21. more = ToSet(path)
    BY <2>15, <2>19
  <2>22. Connected(D \cup more)
    <3>1. \A q \in D : quadrant(q) = quadrant(old) => covers(old, q)
      BY <2>3, <2>4 DEF TopOf
    <3>2. old \in D \cap more /\ \A q \in more : IsQuad(q) /\ covers(q, old)
      BY <2>3, <2>19, <2>20, <2>21
    <3>3. Connected(more) /\ \A q \in D : IsQuad(q)
      BY <2>19, <2>21 DEF Rooted
    <3> QED
      BY <3>1, <3>2, <3>3, GrowthConnects
  <2> QED
    BY <2>1, <2>10, <2>18, <2>22
<1> QED
  BY <1>1, <1>2, <1>3

\* Root::insertContained: the quad the item goes to covers its envelope.
LEMMA PlaceHolds ==
    ASSUME NEW qs, Rooted(qs), Connected(qs), NEW e, Solid(e), NEW i \in 0..3, quadrant(e) = i,
           NEW t, TopOf(t, qs, i), covers(t, e)
    PROVE  LET place == placeIn(qs, e)
           IN  /\ Rooted(place.quads) /\ Connected(place.quads) /\ qs \subseteq place.quads
               /\ place.at \in place.quads /\ covers(place.at, e)
<1> DEFINE top  == CHOOSE q \in qs : covers(q, e) /\ \A p \in qs : covers(p, q) => p = q
           path == pathTo(top, e)
           there == {j \in DOMAIN path : path[j] \in qs}
           deepest == CHOOSE j \in there : \A k \in there : k <= j
           place == placeIn(qs, e)
<1>1. t \in qs /\ IsQuad(t) /\ t \in IntRect /\ Solid(t) /\ quadrant(t) = i
  BY QuadsAreSolid DEF TopOf, Rooted, IsQuad
<1>2. top = t
  <2>1. ASSUME NEW p \in qs, covers(p, t) PROVE p = t
    <3>1. IsQuad(p) /\ p \in IntRect
      BY DEF Rooted, IsQuad
    <3>2. quadrant(p) = i
      BY <1>1, <2>1, <3>1, CoveredIsInQuadrant DEF IsQuad
    <3> QED
      BY <1>1, <2>1, <3>1, <3>2, CoversAntisymmetric DEF TopOf
  <2>2. \E q \in qs : covers(q, e) /\ \A p \in qs : covers(p, q) => p = q
    BY <1>1, <2>1
  <2>3. top \in qs /\ covers(top, e) /\ \A p \in qs : covers(p, top) => p = top
    BY <2>2
  <2> HIDE DEF top
  <2>4. IsQuad(top) /\ top \in IntRect
    BY <2>3 DEF Rooted, IsQuad
  <2>5. quadrant(top) = i
    BY <2>3, <2>4, CoveredIsInQuadrant DEF IsQuad
  <2> QED
    BY <1>1, <2>3, <2>5 DEF TopOf
<1> HIDE DEF top
<1>3. path \in PathsTo(t, e)
  BY <1>1, <1>2, PathToIsAPath
<1>4. /\ place = IF isZeroWidth(e.minx, e.maxx) \/ isZeroWidth(e.miny, e.maxy)
                 THEN [at |-> path[deepest], quads |-> qs]
                 ELSE [at |-> Last(path), quads |-> qs \cup ToSet(path)]
  BY DEF placeIn, top
<1> HIDE DEF path, place
<1>5. /\ path \in Seq(IntRect) /\ Len(path) \in Nat \ {0} /\ path[1] = t /\ DOMAIN path = 1..Len(path)
      /\ \A j \in 1..Len(path) : IsQuad(path[j]) /\ covers(t, path[j]) /\ covers(path[j], e)
  BY <1>3 DEF PathsTo
<1>6. CASE isZeroWidth(e.minx, e.maxx) \/ isZeroWidth(e.miny, e.maxy)
  <2>1. 1 \in there /\ there \subseteq 1..Len(path)
    BY <1>1, <1>5
  <2>2. \E j \in there : \A k \in there : k <= j
    <3> DEFINE T == {Len(path) - j : j \in there}
    <3>1. T \in SUBSET Nat /\ T # {}
      BY <1>5, <2>1
    <3>2. PICK n \in T : \A m \in T : n <= m
      <4> HIDE DEF T
      <4> QED
        BY <3>1, LeastOfNaturals
    <3>3. PICK j \in there : n = Len(path) - j
      BY <3>2
    <3>4. ASSUME NEW k \in there PROVE k <= j
      <4>1. n <= Len(path) - k
        BY <3>2
      <4> QED
        BY <1>5, <2>1, <3>3, <4>1
    <3> QED
      BY <3>3, <3>4
  <2> HIDE DEF there
  <2>3. deepest \in there
    BY <2>2
  <2> HIDE DEF deepest
  <2>4. path[deepest] \in qs /\ covers(path[deepest], e)
    BY <1>5, <2>1, <2>3 DEF there
  <2> QED
    BY <1>4, <1>6, <2>4 DEF place
<1>7. CASE ~(isZeroWidth(e.minx, e.maxx) \/ isZeroWidth(e.miny, e.maxy))
  <2>1. place.at = Last(path) /\ place.quads = qs \cup ToSet(path)
    BY <1>4, <1>7
  <2>2. Last(path) \in ToSet(path) /\ covers(Last(path), e)
    BY <1>5 DEF Last, ToSet
  <2>3. \A q \in ToSet(path) : IsQuad(q) /\ covers(t, q)
    BY <1>5 DEF ToSet
  <2>4. IsFiniteSet(ToSet(path))
    BY <1>3, PathsAreFinite
  <2>5. WithinReach(t) \/ Whole(t)
    BY DEF TopOf
  <2>6. \A q \in qs : quadrant(q) = i => covers(t, q)
    BY DEF TopOf
  <2> DEFINE more == ToSet(path)
  <2>7. IsFiniteSet(more) /\ (\A q \in more : IsQuad(q) /\ covers(t, q)) /\ t \in qs \cup more
    BY <1>1, <2>3, <2>4
  <2> HIDE DEF more
  <2>8. Rooted(qs \cup more)
    BY <1>1, <2>5, <2>6, <2>7, GrowingStaysRooted
  <2>9. Connected(qs \cup more)
    <3>1. Connected(more)
      BY <1>1, <1>3, PathsConnect DEF more
    <3>2. t \in qs \cap more
      BY <1>1, <1>5 DEF more, ToSet
    <3>3. \A q \in qs : IsQuad(q)
      BY DEF Rooted
    <3> QED
      BY <1>1, <2>6, <2>7, <3>1, <3>2, <3>3, UnionConnects
  <2> QED
    BY <2>1, <2>2, <2>8, <2>9 DEF more, place
<1> QED
  BY <1>6, <1>7

\* NodeBase::remove: the quads deleted on the way up are empty, and those that stay
\* keep their tops.
LEMMA PrunedHolds ==
    ASSUME Rooted(DOMAIN quads), Connected(DOMAIN quads), NEW q \in DOMAIN quads, NEW items
    PROVE  /\ Rooted(DOMAIN quads \ pruned(q, items)) /\ Connected(DOMAIN quads \ pruned(q, items))
           /\ \A p \in pruned(q, items) : IF p = q THEN items = <<>> ELSE quads[p] = <<>>
<1> DEFINE D == DOMAIN quads
           branch == {p \in D : covers(p, q)}
           idle(p) == IF p = q THEN items = <<>> ELSE quads[p] = <<>>
           gone == pruned(q, items)
<1>1. gone = {p \in branch : \A r \in D : covers(p, r) => (r \in branch /\ idle(r))}
  BY DEF pruned
<1> HIDE DEF gone
<1>2. ASSUME NEW p \in gone PROVE idle(p)
  <2>1. p \in D /\ Solid(p)
    BY <1>1, QuadsAreSolid DEF Rooted
  <2>2. covers(p, p)
    BY <2>1, CoversItself
  <2> QED
    BY <1>1, <2>1, <2>2
<1>3. ASSUME NEW s \in D \ gone PROVE \E t \in D \ gone : TopOf(t, D \ gone, quadrant(s))
  <2>1. PICK t \in D : TopOf(t, D, quadrant(s))
    BY DEF Rooted
  <2>2. t \notin gone
    <3> SUFFICES ASSUME t \in gone PROVE FALSE
      OBVIOUS
    <3>1. covers(t, s) /\ t \in IntRect /\ s \in IntRect /\ IsQuad(s)
      BY <2>1 DEF TopOf, Rooted, IsQuad
    <3>2. s \in branch
      BY <1>1, <3>1
    <3>3. ASSUME NEW r \in D, covers(s, r) PROVE r \in branch /\ idle(r)
      <4>1. r \in IntRect
        BY DEF Rooted, IsQuad
      <4>2. covers(t, r)
        BY <3>1, <3>3, <4>1, CoversTransitive
      <4> QED
        BY <1>1, <4>2
    <3> HIDE DEF branch, idle
    <3>4. s \in gone
      BY <1>1, <3>2, <3>3
    <3> QED
      BY <3>4
  <2>3. TopOf(t, D \ gone, quadrant(s))
    BY <2>1, <2>2 DEF TopOf
  <2> QED
    BY <2>1, <2>2, <2>3
<1>4. IsFiniteSet(D \ gone)
  BY FS_Subset DEF Rooted
<1>5. \A s \in D \ gone : IsQuad(s)
  BY DEF Rooted
<1>6. Rooted(D \ gone)
  BY <1>3, <1>4, <1>5 DEF Rooted
<1>7. ASSUME NEW p \in D \ gone, NEW r \in D \ gone, covers(p, r), p # r,
             subquad(p, getSubnodeIndex(r, centre2(p))) \in gone
      PROVE  FALSE
  <2> DEFINE i == getSubnodeIndex(r, centre2(p))
             s == subquad(p, i)
  <2>1. IsQuad(p) /\ IsQuad(r) /\ Solid(r) /\ r \in IntRect
    BY QuadsAreSolid DEF Rooted, IsQuad
  <2>2. i \in 0..3
    BY <1>7, <2>1, QuarterHolds
  <2>3. IsQuad(s) /\ covers(s, r)
    BY <1>7, <2>1, <2>2, SubquadHolds
  <2>4. s \in gone /\ s \in IntRect
    BY <1>7, <2>3 DEF IsQuad
  <2> HIDE DEF s
  <2>5. r \in branch
    BY <1>1, <2>3, <2>4
  <2>6. ASSUME NEW x \in D, covers(r, x) PROVE x \in branch /\ idle(x)
    <3>1. x \in IntRect
      BY DEF Rooted, IsQuad
    <3>2. covers(s, x)
      BY <2>1, <2>3, <2>4, <2>6, <3>1, CoversTransitive
    <3> QED
      BY <1>1, <2>4, <3>2
  <2> HIDE DEF branch, idle
  <2>7. r \in gone
    BY <1>1, <2>5, <2>6
  <2> QED
    BY <2>7
<1>8. Connected(D \ gone)
  <2> SUFFICES ASSUME NEW p \in D \ gone, NEW r \in D \ gone, covers(p, r), p # r
               PROVE  subquad(p, getSubnodeIndex(r, centre2(p))) \in D \ gone
    BY DEF Connected
  <2>1. subquad(p, getSubnodeIndex(r, centre2(p))) \in D
    BY DEF Connected
  <2> QED
    BY <1>7, <2>1
<1> QED
  BY <1>2, <1>6, <1>8 DEF gone

-----------------------------------------------------------------------------
(* The lists of the visited quads.                                         *)

\* The lists of a function's values, one after the other.
Joined(base, held, D) == base \o FlattenSeq(SetToSeq({held[q] : q \in D} \ {<<>>}))

LEMMA JoinedHolds ==
    ASSUME NEW T, NEW D, IsFiniteSet(D), NEW base, Listing(base, T), NEW held,
           \A q \in D : Listing(held[q], T) /\ ToSet(held[q]) \cap ToSet(base) = {},
           \A p, q \in D : p # q => ToSet(held[p]) \cap ToSet(held[q]) = {}
    PROVE  /\ Listing(Joined(base, held, D), T)
           /\ ToSet(Joined(base, held, D)) = ToSet(base) \cup UNION {ToSet(held[q]) : q \in D}
<1> DEFINE S == {held[q] : q \in D} \ {<<>>}
           seqs == SetToSeq(S)
           n == Len(seqs)
           rest == FlattenSeq(seqs)
<1>1. IsFiniteSet(S)
  <2>1. IsFiniteSet({held[q] : q \in D})
    BY ImageIsFinite
  <2> QED
    BY <2>1, FS_Subset
<1>2. \A s \in S : \E q \in D : s = held[q]
  OBVIOUS
<1> HIDE DEF S
<1>3. Listing(seqs, S) /\ ToSet(seqs) = S
  BY <1>1, SetsBecomeLists
<1> HIDE DEF seqs
<1>4. /\ seqs \in Seq(S) /\ n \in Nat /\ DOMAIN seqs = 1..n
      /\ \A i \in 1..n : seqs[i] \in S
      /\ \A i, j \in 1..n : seqs[i] = seqs[j] => i = j
  BY <1>3 DEF Listing, IsInjective
<1>5. ToSet(<<>>) = {}
  BY DEF ToSet
<1>6. Apart(seqs, T)
  <2>1. \A s \in S : s \in Seq(T)
    BY <1>2 DEF Listing
  <2>2. seqs \in Seq(Seq(T))
    BY <1>4, <2>1
  <2>3. \A i \in 1..n : Listing(seqs[i], T)
    BY <1>2, <1>4
  <2>4. ASSUME NEW i \in 1..n, NEW j \in 1..n, i # j PROVE ToSet(seqs[i]) \cap ToSet(seqs[j]) = {}
    <3>1. PICK p \in D : seqs[i] = held[p]
      BY <1>2, <1>4
    <3>2. PICK q \in D : seqs[j] = held[q]
      BY <1>2, <1>4
    <3>3. p # q
      BY <1>4, <2>4, <3>1, <3>2
    <3> QED
      BY <3>1, <3>2, <3>3
  <2> QED
    BY <2>2, <2>3, <2>4 DEF Apart
<1>7. Listing(rest, T) /\ ToSet(rest) = HeldBy(seqs, n)
  BY <1>6, FlattenHolds
<1>8. HeldBy(seqs, n) = UNION {ToSet(held[q]) : q \in D}
  <2>1. HeldBy(seqs, n) = UNION {ToSet(s) : s \in S}
    <3>1. S = {seqs[i] : i \in 1..n}
      BY <1>3, <1>4 DEF ToSet
    <3> QED
      BY <3>1 DEF HeldBy
  <2>2. UNION {ToSet(s) : s \in S} = UNION {ToSet(held[q]) : q \in D}
    <3>1. ASSUME NEW x, NEW s \in S, x \in ToSet(s) PROVE \E q \in D : x \in ToSet(held[q])
      BY <1>2, <3>1
    <3>2. ASSUME NEW x, NEW q \in D, x \in ToSet(held[q]) PROVE \E s \in S : x \in ToSet(s)
      <4>1. held[q] # <<>>
        BY <1>5, <3>2
      <4>2. held[q] \in S
        BY <4>1 DEF S
      <4> QED
        BY <3>2, <4>2
    <3> QED
      BY <3>1, <3>2
  <2> QED
    BY <2>1, <2>2
<1> HIDE DEF rest
<1>9. ToSet(base) \cap ToSet(rest) = {}
  BY <1>7, <1>8
<1>10. Joined(base, held, D) = base \o rest
  BY DEF Joined, rest, seqs, S
<1> QED
  BY <1>7, <1>8, <1>9, <1>10, ListingsJoin

\* remove takes one entry of the item away.
LEMMA WithoutHolds ==
    ASSUME NEW T, NEW ks, Listing(ks, T), NEW item, holds(ks, item)
    PROVE  /\ Listing(without(ks, item), T)
           /\ \E k \in ToSet(ks) : entries[k].item = item /\ ToSet(without(ks, item)) = ToSet(ks) \ {k}
<1> DEFINE I == {i \in 1..Len(ks) : entries[ks[i]].item = item}
           first == CHOOSE i \in I : \A j \in I : i <= j
<1>1. ks \in Seq(T) /\ Len(ks) \in Nat /\ DOMAIN ks = 1..Len(ks)
  BY DEF Listing
<1>2. I \in SUBSET Nat /\ I # {}
  BY <1>1 DEF holds, ToSet
<1>3. \E i \in I : \A j \in I : i <= j
  <2> HIDE DEF I
  <2> QED
    BY <1>2, LeastOfNaturals
<1>4. first \in I
  BY <1>3
<1>5. without(ks, item) = RemoveAt(ks, first)
  BY <1>2 DEF without, SelectInSeq, Min
<1> HIDE DEF first
<1>6. first \in 1..Len(ks) /\ entries[ks[first]].item = item
  BY <1>4
<1>7. ks[first] \in ToSet(ks)
  BY <1>1, <1>6 DEF ToSet
<1> QED
  BY <1>5, <1>6, <1>7, RemoveAtHolds

-----------------------------------------------------------------------------
(* The invariant.                                                          *)

\* Lists of entries without a common entry.
Disjoint(items, more) == ToSet(items) \cap ToSet(more) = {}

TreeInv == /\ Rooted(DOMAIN quads) /\ Connected(DOMAIN quads)
           /\ minExtent \in 2..Unit
           /\ entries \in Seq(Entries)
           /\ Listing(rootItems, 1..Len(entries))
           /\ \A q \in DOMAIN quads : Listing(quads[q], 1..Len(entries)) /\ Disjoint(quads[q], rootItems)
           /\ \A p, q \in DOMAIN quads : p # q => Disjoint(quads[p], quads[q])
           /\ \A q \in DOMAIN quads : \A k \in ToSet(quads[q]) : covers(q, entries[k].env)

\* Envelopes of items.
Fits(e) == /\ e \in IntRect /\ e.minx <= e.maxx /\ e.miny <= e.maxy
           /\ e.maxx - e.minx # 1 /\ e.maxy - e.miny # 1
           /\ -Reach <= e.minx - Unit /\ e.maxx <= Reach
           /\ -Reach <= e.miny - Unit /\ e.maxy <= Reach

LEMMA StatsHold ==
    ASSUME EntriesFit, NEW e, Fits(e), minExtent \in 2..Unit
    PROVE  collectStats(e) \in 2..Unit
<1> DEFINE seen == {w \in {getWidth(e), getHeight(e)} : w > 0 /\ w < minExtent}
           least == CHOOSE w \in seen \cup {minExtent} : \A v \in seen : w <= v
<1>1. Unit \in Nat
  BY UnitAssumption
<1>2. \A w \in seen : w \in 2..Unit
  <2>1. \A w \in {getWidth(e), getHeight(e)} : w \in Nat /\ w # 1
    BY DEF Fits, IntRect, getWidth, getHeight, isNull
  <2> QED
    BY <1>1, <2>1
<1>3. \A w \in seen : w < minExtent
  OBVIOUS
<1>4. seen \in SUBSET Nat /\ minExtent \in Nat
  BY <1>2
<1> HIDE DEF seen
<1>5. \E w \in seen \cup {minExtent} : \A v \in seen : w <= v
  <2> DEFINE T == seen \cup {minExtent}
  <2>1. T \in SUBSET Nat /\ T # {} /\ seen \subseteq T
    BY <1>4
  <2> HIDE DEF T
  <2>2. \E w \in T : \A v \in T : w <= v
    BY <2>1, LeastOfNaturals
  <2> QED
    BY <2>1, <2>2 DEF T
<1>6. least \in seen \cup {minExtent}
  BY <1>5
<1> HIDE DEF least
<1>7. least \in 2..Unit
  BY <1>2, <1>6
<1> QED
  BY <1>7 DEF collectStats, least, seen

\* Quadtree::ensureExtent: the padded envelope holds the item and is within reach.
LEMMA EnsuredExtent ==
    ASSUME EntriesFit, NEW e, Fits(e), NEW extent \in 2..Unit
    PROVE  LET env == ensureExtent(e, extent)
           IN  Solid(env) /\ WithinReach(env) /\ covers(env, e)
<1> DEFINE h == extent \div 2
           env == ensureExtent(e, extent)
<1>1. h \in Nat \ {0} /\ h <= Unit /\ Unit \in Nat
  BY UnitAssumption
<1>2. Reach \in Nat
  BY ReachIsASize DEF EntriesFit
<1> DEFINE x1 == IF e.minx = e.maxx THEN e.minx - h ELSE e.minx
           y1 == IF e.miny = e.maxy THEN e.miny - h ELSE e.miny
<1> HIDE DEF h
<1>3. x1 \in Int /\ y1 \in Int /\ x1 < e.maxx /\ y1 < e.maxy /\ x1 <= e.minx /\ y1 <= e.miny
  BY <1>1 DEF Fits, IntRect
<1>4. env = [minx |-> x1, maxx |-> e.maxx, miny |-> y1, maxy |-> e.maxy]
  <2>1. padded(e.minx, e.maxx, extent) = <<x1, e.maxx>>
    BY <1>1 DEF padded, h, Fits, IntRect
  <2>2. padded(e.miny, e.maxy, extent) = <<y1, e.maxy>>
    BY <1>1 DEF padded, h, Fits, IntRect
  <2>3. e.maxx \in Int /\ e.maxy \in Int
    BY DEF Fits, IntRect
  <2> HIDE DEF x1, y1
  <2> QED
    BY <1>3, <2>1, <2>2, <2>3 DEF ensureExtent, Rect, Least, Most
<1>5. x1 >= -Reach /\ y1 >= -Reach
  BY <1>1, <1>2 DEF Fits, IntRect
<1> HIDE DEF x1, y1, env
<1>6. env \in IntRect /\ env.minx = x1 /\ env.maxx = e.maxx /\ env.miny = y1 /\ env.maxy = e.maxy
  BY <1>3, <1>4 DEF Fits, IntRect
<1>7. Solid(env)
  BY <1>3, <1>6 DEF Solid
<1>8. WithinReach(env)
  BY <1>2, <1>3, <1>5, <1>6 DEF WithinReach, Fits, IntRect
<1>9. covers(env, e)
  BY <1>3, <1>6 DEF covers, isNull, Fits, IntRect
<1> QED
  BY <1>7, <1>8, <1>9 DEF env

LEMMA EntriesHold ==
    ASSUME EntriesFit, NEW e \in Entries
    PROVE  Fits(e.env) /\ e = [env |-> e.env, item |-> e.item]
BY DEF EntriesFit, Fits

LEMMA InitHolds == ASSUME EntriesFit, Init PROVE TreeInv
<1>1. DOMAIN quads = {} /\ entries = <<>> /\ rootItems = <<>> /\ minExtent = Unit
  BY DEF Init
<1>2. Rooted(DOMAIN quads) /\ Connected(DOMAIN quads)
  BY <1>1, FS_EmptySet DEF Rooted, Connected
<1>3. Unit \in Nat /\ Unit \in 2..Unit
  BY UnitAssumption DEF EntriesFit
<1>4. Listing(<<>>, 1..0) /\ Len(<<>>) = 0 /\ <<>> \in Seq(Entries)
  BY DEF Listing, IsInjective
<1> QED
  BY <1>1, <1>2, <1>3, <1>4 DEF TreeInv

-----------------------------------------------------------------------------
(* The steps.                                                              *)

\* The names of the stored entries.
Held(root, held, D) == ToSet(root) \cup UNION {ToSet(held[q]) : q \in D}

LEMMA StoredAre == DOMAIN stored = Held(rootItems, quads, DOMAIN quads)
                   /\ stored = [k \in Held(rootItems, quads, DOMAIN quads) |-> entries[k]]
BY DEF stored, Held

LEMMA ListingsWiden ==
    ASSUME NEW T, NEW U, T \subseteq U, NEW s, Listing(s, T)
    PROVE  Listing(s, U) /\ ToSet(s) \subseteq T
<1>1. s \in Seq(T) /\ \A i \in DOMAIN s : s[i] \in T
  BY DEF Listing
<1>2. s \in Seq(U)
  BY <1>1
<1> QED
  BY <1>1, <1>2 DEF Listing, ToSet

LEMMA HeldAreEntries ==
    ASSUME TreeInv
    PROVE  Held(rootItems, quads, DOMAIN quads) \subseteq 1..Len(entries)
<1>1. ToSet(rootItems) \subseteq 1..Len(entries)
  BY ListingsWiden DEF TreeInv
<1>2. \A q \in DOMAIN quads : ToSet(quads[q]) \subseteq 1..Len(entries)
  BY ListingsWiden DEF TreeInv
<1> QED
  BY <1>1, <1>2 DEF Held

\* An entry more: of the root, or of a quad that covers it.
LEMMA StoredGrows ==
    ASSUME TreeInv, NEW e \in Entries, entries' = Append(entries, e),
           NEW k, k = Len(entries) + 1,
           Held(rootItems, quads, DOMAIN quads)' = Held(rootItems, quads, DOMAIN quads) \cup {k}
    PROVE  k \notin DOMAIN stored /\ stored' = [j \in DOMAIN stored \cup {k} |-> IF j = k THEN e ELSE stored[j]]
<1> DEFINE H == Held(rootItems, quads, DOMAIN quads)
           n == Len(entries)
<1>1. H \subseteq 1..n /\ n \in Nat /\ entries \in Seq(Entries)
  BY HeldAreEntries DEF TreeInv
<1>2. k \notin H
  BY <1>1
<1>3. entries'[k] = e /\ \A j \in 1..n : entries'[j] = entries[j]
  BY <1>1
<1>4. stored' = [j \in H \cup {k} |-> entries'[j]]
  <2>1. stored' = [j \in H' |-> entries'[j]]
    BY DEF stored, Held
  <2> QED
    BY <2>1
<1>5. stored = [j \in H |-> entries[j]] /\ DOMAIN stored = H
  BY StoredAre
<1> HIDE DEF H, n
<1>6. \A j \in H \cup {k} : entries'[j] = IF j = k THEN e ELSE stored[j]
  BY <1>1, <1>2, <1>3, <1>5
<1> QED
  BY <1>2, <1>4, <1>5, <1>6

LEMMA RootInsertHolds ==
    ASSUME TreeInv, NEW e \in Entries, entries' = Append(entries, e), minExtent' \in 2..Unit,
           rootItems' = Append(rootItems, Len(entries) + 1), quads' = quads
    PROVE  /\ TreeInv'
           /\ Held(rootItems, quads, DOMAIN quads)' =
              Held(rootItems, quads, DOMAIN quads) \cup {Len(entries) + 1}
<1> DEFINE n == Len(entries)
           k == n + 1
           T == 1..k
<1>1. n \in Nat /\ entries \in Seq(Entries) /\ entries' \in Seq(Entries) /\ Len(entries') = k
  BY DEF TreeInv
<1>2. k \in T /\ 1..n \subseteq T /\ k \notin 1..n
  BY <1>1
<1>3. Listing(rootItems, 1..n) /\ \A q \in DOMAIN quads : Listing(quads[q], 1..n)
  BY DEF TreeInv
<1> HIDE DEF T
<1>4. Listing(rootItems, T) /\ ToSet(rootItems) \subseteq 1..n
  BY <1>2, <1>3, ListingsWiden
<1>5. \A q \in DOMAIN quads : Listing(quads[q], T) /\ ToSet(quads[q]) \subseteq 1..n
  BY <1>2, <1>3, ListingsWiden
<1>6. Listing(rootItems', T) /\ ToSet(rootItems') = ToSet(rootItems) \cup {k}
  BY <1>2, <1>4, ListingGrows
<1>7. \A j \in 1..n : entries'[j] = entries[j]
  BY <1>1
<1>8. \A q \in DOMAIN quads : Disjoint(quads[q], rootItems')
  BY <1>2, <1>5, <1>6 DEF TreeInv, Disjoint
<1>9. \A q \in DOMAIN quads : \A j \in ToSet(quads[q]) : covers(q, entries'[j].env)
  BY <1>5, <1>7 DEF TreeInv
<1>10. TreeInv'
  BY <1>1, <1>5, <1>6, <1>8, <1>9 DEF TreeInv, T
<1> QED
  BY <1>6, <1>10 DEF Held

InsertedAt(D, at, k) == [q \in D |-> IF q = at THEN Append(itemsAt(q), k) ELSE itemsAt(q)]

LEMMA QuadInsertHolds ==
    ASSUME TreeInv, NEW e \in Entries, entries' = Append(entries, e), minExtent' \in 2..Unit,
           rootItems' = rootItems, NEW D, Rooted(D), Connected(D), DOMAIN quads \subseteq D,
           NEW at \in D, covers(at, e.env),
           quads' = InsertedAt(D, at, Len(entries) + 1)
    PROVE  /\ TreeInv'
           /\ Held(rootItems, quads, DOMAIN quads)' =
              Held(rootItems, quads, DOMAIN quads) \cup {Len(entries) + 1}
<1> DEFINE n == Len(entries)
           k == n + 1
           T == 1..k
           old == [q \in D |-> itemsAt(q)]
<1>1. n \in Nat /\ entries \in Seq(Entries) /\ entries' \in Seq(Entries) /\ Len(entries') = k
  BY DEF TreeInv
<1>2. k \in T /\ 1..n \subseteq T /\ k \notin 1..n
  BY <1>1
<1>3. Listing(rootItems, 1..n) /\ \A q \in DOMAIN quads : Listing(quads[q], 1..n)
  BY DEF TreeInv
<1>4. /\ \A q \in DOMAIN quads : q \in D /\ old[q] = quads[q]
      /\ \A q \in D : q \notin DOMAIN quads => old[q] = <<>>
  BY DEF itemsAt
<1>5. /\ quads'[at] = Append(old[at], k)
      /\ \A q \in D : q # at => quads'[q] = old[q]
      /\ DOMAIN quads' = D
  <2> DEFINE f == InsertedAt(D, at, k)
  <2>1. quads' = f /\ DOMAIN f = D
    BY DEF InsertedAt
  <2>2. f[at] = Append(old[at], k)
    BY DEF InsertedAt
  <2>3. \A q \in D : q # at => f[q] = old[q]
    BY DEF InsertedAt
  <2> HIDE DEF f
  <2> QED
    BY <2>1, <2>2, <2>3
<1> HIDE DEF old
<1>6. ToSet(<<>>) = {} /\ Listing(<<>>, T)
  BY DEF ToSet, Listing, IsInjective
<1>7. Listing(rootItems, T) /\ ToSet(rootItems) \subseteq 1..n
  BY <1>2, <1>3, ListingsWiden
<1>8. ASSUME NEW q \in D
      PROVE  /\ Listing(old[q], T) /\ ToSet(old[q]) \subseteq 1..n
             /\ Disjoint(old[q], rootItems)
             /\ \A j \in ToSet(old[q]) : covers(q, entries[j].env)
  <2>1. CASE q \in DOMAIN quads
    <3>1. Listing(quads[q], T) /\ ToSet(quads[q]) \subseteq 1..n
      BY <1>2, <1>3, <2>1, ListingsWiden
    <3>2. Disjoint(quads[q], rootItems) /\ \A j \in ToSet(quads[q]) : covers(q, entries[j].env)
      BY <2>1 DEF TreeInv
    <3> QED
      BY <1>4, <2>1, <3>1, <3>2
  <2>2. CASE q \notin DOMAIN quads
    <3>1. old[q] = <<>>
      BY <1>4, <2>2
    <3> HIDE DEF T
    <3> QED
      BY <1>6, <3>1 DEF Disjoint
  <2> QED
    BY <2>1, <2>2
<1>9. \A p, q \in D : p # q => Disjoint(old[p], old[q])
  BY <1>4, <1>6 DEF TreeInv, Disjoint
<1>10. \A j \in 1..n : entries'[j] = entries[j]
  BY <1>1
<1>11. entries'[k] = e
  BY <1>1
<1> HIDE DEF T
<1>12. Listing(quads'[at], T) /\ ToSet(quads'[at]) = ToSet(old[at]) \cup {k}
  <2>1. Listing(old[at], T) /\ k \notin ToSet(old[at]) /\ k \in T
    BY <1>2, <1>8
  <2> HIDE DEF k
  <2>2. Listing(Append(old[at], k), T) /\ ToSet(Append(old[at], k)) = ToSet(old[at]) \cup {k}
    BY <2>1, ListingGrows
  <2> QED
    BY <1>5, <2>2
<1> HIDE DEF k, n
<1>13. ASSUME NEW q \in D
       PROVE  /\ Listing(quads'[q], T) /\ Disjoint(quads'[q], rootItems)
              /\ \A j \in ToSet(quads'[q]) : covers(q, entries'[j].env)
  <2>1. CASE q = at
    <3>1. Disjoint(quads'[at], rootItems)
      BY <1>2, <1>7, <1>8, <1>12 DEF Disjoint
    <3>2. \A j \in ToSet(quads'[at]) : covers(at, entries'[j].env)
      BY <1>8, <1>10, <1>11, <1>12
    <3> QED
      BY <1>12, <2>1, <3>1, <3>2
  <2>2. CASE q # at
    BY <1>5, <1>8, <1>10, <2>2
  <2> QED
    BY <2>1, <2>2
<1>14. ASSUME NEW p \in D, NEW q \in D, p # q PROVE Disjoint(quads'[p], quads'[q])
  <2>1. ToSet(quads'[p]) = ToSet(old[p]) \/ (p = at /\ ToSet(quads'[p]) = ToSet(old[p]) \cup {k})
    BY <1>5, <1>12
  <2>2. ToSet(quads'[q]) = ToSet(old[q]) \/ (q = at /\ ToSet(quads'[q]) = ToSet(old[q]) \cup {k})
    BY <1>5, <1>12
  <2>3. k \notin ToSet(old[p]) /\ k \notin ToSet(old[q])
    BY <1>2, <1>8
  <2>4. ToSet(old[p]) \cap ToSet(old[q]) = {}
    BY <1>9, <1>14 DEF Disjoint
  <2> QED
    BY <1>14, <2>1, <2>2, <2>3, <2>4 DEF Disjoint
<1>15. TreeInv'
  BY <1>1, <1>5, <1>7, <1>13, <1>14 DEF TreeInv, T, k, n
<1>16. UNION {ToSet(quads'[q]) : q \in D} = (UNION {ToSet(quads[q]) : q \in DOMAIN quads}) \cup {k}
  <2>1. UNION {ToSet(quads'[q]) : q \in D} = (UNION {ToSet(old[q]) : q \in D}) \cup {k}
    <3>1. \A q \in D : ToSet(quads'[q]) = IF q = at THEN ToSet(old[q]) \cup {k} ELSE ToSet(old[q])
      BY <1>5, <1>12
    <3> QED
      BY <3>1
  <2>2. ASSUME NEW x, NEW q \in D, x \in ToSet(old[q]) PROVE \E p \in DOMAIN quads : x \in ToSet(quads[p])
    BY <1>4, <1>6, <2>2
  <2>3. ASSUME NEW x, NEW q \in DOMAIN quads, x \in ToSet(quads[q]) PROVE \E p \in D : x \in ToSet(old[p])
    BY <1>4, <2>3
  <2>4. UNION {ToSet(old[q]) : q \in D} = UNION {ToSet(quads[q]) : q \in DOMAIN quads}
    BY <2>2, <2>3
  <2> QED
    BY <2>1, <2>4
<1>17. Held(rootItems, quads, DOMAIN quads)' = Held(rootItems, quads, DOMAIN quads) \cup {k}
  <2>1. Held(rootItems, quads, DOMAIN quads)' = ToSet(rootItems) \cup UNION {ToSet(quads'[q]) : q \in D}
    <3>1. DOMAIN quads' = D
      BY <1>5
    <3> QED
      BY <3>1 DEF Held
  <2>2. Held(rootItems, quads, DOMAIN quads) = ToSet(rootItems) \cup UNION {ToSet(quads[q]) : q \in DOMAIN quads}
    BY DEF Held
  <2> DEFINE U == UNION {ToSet(quads'[q]) : q \in D}
             V == UNION {ToSet(quads[q]) : q \in DOMAIN quads}
  <2>3. U = V \cup {k}
    BY <1>16
  <2> HIDE DEF U, V
  <2> QED
    BY <2>1, <2>2, <2>3 DEF U, V
<1> QED
  BY <1>15, <1>17 DEF k, n

\* Quadtree::insert.
LEMMA InsertHolds ==
    ASSUME EntriesFit, TreeInv, NEW e \in Entries, insert(e)
    PROVE  /\ TreeInv' /\ answer' = <<"none">>
           /\ \E k \in 1..MaxInserts \ DOMAIN stored :
                 stored' = [j \in DOMAIN stored \cup {k} |-> IF j = k THEN e ELSE stored[j]]
<1> DEFINE env == ensureExtent(e.env, minExtent')
           k == Len(entries) + 1
           index == getSubnodeIndex(env, Origin)
           more == expanded(index, env)
           place == placeIn(more, env)
<1>1. k \in 1..MaxInserts /\ entries' = Append(entries, e) /\ answer' = <<"none">>
  BY DEF insert, TreeInv, EntriesFit
<1>2. Fits(e.env) /\ minExtent' \in 2..Unit
  BY EntriesHold, StatsHold DEF insert, TreeInv
<1>3. Solid(env) /\ WithinReach(env) /\ covers(env, e.env)
  BY <1>2, EnsuredExtent
<1>4. index = -1 \/ index \in 0..3
  BY DEF getSubnodeIndex
<1>5. TreeInv' /\ Held(rootItems, quads, DOMAIN quads)' = Held(rootItems, quads, DOMAIN quads) \cup {k}
  <2>1. CASE index = -1
    <3>1. rootItems' = Append(rootItems, k) /\ quads' = quads
      BY <2>1 DEF insert
    <3> QED
      BY <1>1, <1>2, <3>1, RootInsertHolds
  <2>2. CASE index # -1
    <3>1. rootItems' = rootItems
          /\ quads' = InsertedAt(place.quads, place.at, k)
      BY <2>2 DEF insert, InsertedAt
    <3>2. index \in 0..3 /\ quadrant(env) = index
      BY <1>4, <2>2 DEF quadrant
    <3> HIDE DEF index, env
    <3>3. Rooted(more) /\ Connected(more) /\ DOMAIN quads \subseteq more /\ \E t : TopOf(t, more, index) /\ covers(t, env)
      BY <1>3, <3>2, ExpandedHolds DEF EntriesFit, TreeInv
    <3> HIDE DEF more
    <3>4. Rooted(place.quads) /\ Connected(place.quads) /\ more \subseteq place.quads /\ place.at \in place.quads /\ covers(place.at, env)
      BY <1>3, <3>2, <3>3, PlaceHolds
    <3> HIDE DEF place
    <3>5. covers(place.at, e.env)
      <4>1. place.at \in IntRect
        BY <3>4 DEF Rooted, IsQuad
      <4> QED
        BY <1>2, <1>3, <3>4, <4>1, CoversTransitive DEF Solid, Fits
    <3>6. DOMAIN quads \subseteq place.quads
      BY <3>3, <3>4
    <3> QED
      BY <1>1, <1>2, <3>1, <3>4, <3>5, <3>6, QuadInsertHolds
  <2> QED
    BY <2>1, <2>2
<1>6. k \notin DOMAIN stored /\ stored' = [j \in DOMAIN stored \cup {k} |-> IF j = k THEN e ELSE stored[j]]
  BY <1>1, <1>5, StoredGrows
<1> QED
  BY <1>1, <1>5, <1>6

\* A search visits the lists of some quads.
LEMMA VisitHolds ==
    ASSUME TreeInv, NEW D, D \subseteq DOMAIN quads
    PROVE  /\ IsInjective(Joined(rootItems, quads, D))
           /\ ToSet(Joined(rootItems, quads, D)) = Held(rootItems, quads, D)
<1> DEFINE T == 1..Len(entries)
<1>1. IsFiniteSet(D)
  BY FS_Subset DEF TreeInv, Rooted
<1>2. Listing(rootItems, T)
  BY DEF TreeInv
<1>3. \A q \in D : Listing(quads[q], T) /\ ToSet(quads[q]) \cap ToSet(rootItems) = {}
  BY DEF TreeInv, Disjoint
<1>4. \A p, q \in D : p # q => ToSet(quads[p]) \cap ToSet(quads[q]) = {}
  BY DEF TreeInv, Disjoint
<1> HIDE DEF T
<1>5. /\ Listing(Joined(rootItems, quads, D), T)
      /\ ToSet(Joined(rootItems, quads, D)) = ToSet(rootItems) \cup UNION {ToSet(quads[q]) : q \in D}
  BY <1>1, <1>2, <1>3, <1>4, JoinedHolds
<1> QED
  BY <1>5 DEF Listing, Held

LEMMA CoveringMeets ==
    ASSUME NEW q \in IntRect, NEW e \in IntRect, NEW env \in IntRect, covers(q, e), intersects(e, env)
    PROVE  intersects(q, env)
BY DEF IntRect, covers, intersects, isNull

LEMMA StoredFit ==
    ASSUME EntriesFit, TreeInv, NEW k \in DOMAIN stored
    PROVE  stored[k] = entries[k] /\ entries[k] \in Entries /\ Fits(entries[k].env)
<1>1. k \in 1..Len(entries) /\ stored[k] = entries[k]
  BY StoredAre, HeldAreEntries
<1>2. entries[k] \in Entries
  BY <1>1 DEF TreeInv
<1> QED
  BY <1>1, <1>2, EntriesHold

\* Quadtree::query finds every entry that meets the envelope, each once.
LEMMA QueryHolds ==
    ASSUME EntriesFit, TreeInv, NEW env \in Searches, query(env)
    PROVE  /\ TreeInv' /\ stored' = stored
           /\ answer'[1] = "query" /\ answer'[2] = env /\ IsInjective(answer'[3])
           /\ ToSet(answer'[3]) \subseteq DOMAIN stored
           /\ \A k \in DOMAIN stored : intersects(stored[k].env, env) => k \in ToSet(answer'[3])
<1> DEFINE D == {p \in DOMAIN quads : intersects(p, env)}
           found == Joined(rootItems, quads, D)
<1>1. answer' = <<"query", env, found>> /\ UNCHANGED <<minExtent, rootItems, quads, entries>>
  BY DEF query, Joined
<1>2. TreeInv' /\ stored' = stored
  BY <1>1 DEF TreeInv, stored
<1>3. IsInjective(found) /\ ToSet(found) = Held(rootItems, quads, D)
  BY VisitHolds
<1> HIDE DEF found
<1>4. ToSet(found) \subseteq DOMAIN stored
  BY <1>3, StoredAre DEF Held
<1>5. ASSUME NEW k \in DOMAIN stored, intersects(stored[k].env, env) PROVE k \in ToSet(found)
  <2>1. stored[k] = entries[k] /\ Fits(entries[k].env)
    BY StoredFit
  <2>2. CASE k \in ToSet(rootItems)
    BY <1>3, <2>2 DEF Held
  <2>3. CASE k \notin ToSet(rootItems)
    <3>1. PICK q \in DOMAIN quads : k \in ToSet(quads[q])
      BY <2>3, StoredAre DEF Held
    <3>2. covers(q, entries[k].env) /\ q \in IntRect
      BY <3>1 DEF TreeInv, Rooted, IsQuad
    <3>3. env \in IntRect
      BY DEF EntriesFit
    <3>4. q \in D
      BY <1>5, <2>1, <3>2, <3>3, CoveringMeets DEF Fits
    <3> QED
      BY <1>3, <3>1, <3>4 DEF Held
  <2> QED
    BY <2>2, <2>3
<1>6. answer'[1] = "query" /\ answer'[2] = env /\ answer'[3] = found
  BY <1>1
<1> QED
  BY <1>2, <1>3, <1>4, <1>5, <1>6

LEMMA QueryAllHolds ==
    ASSUME TreeInv, queryAll
    PROVE  /\ TreeInv' /\ stored' = stored
           /\ answer'[1] = "all" /\ IsInjective(answer'[2]) /\ ToSet(answer'[2]) = DOMAIN stored
<1> DEFINE D == DOMAIN quads
           found == Joined(rootItems, quads, D)
<1>1. answer' = <<"all", found>> /\ UNCHANGED <<minExtent, rootItems, quads, entries>>
  BY DEF queryAll, Joined
<1>2. TreeInv' /\ stored' = stored
  BY <1>1 DEF TreeInv, stored
<1>3. IsInjective(found) /\ ToSet(found) = Held(rootItems, quads, D)
  BY VisitHolds
<1> HIDE DEF found
<1>4. answer'[1] = "all" /\ answer'[2] = found
  BY <1>1
<1> QED
  BY <1>2, <1>3, <1>4, StoredAre

LEMMA StoredShrinks ==
    ASSUME TreeInv, NEW k \in DOMAIN stored, entries' = entries,
           Held(rootItems, quads, DOMAIN quads)' = Held(rootItems, quads, DOMAIN quads) \ {k}
    PROVE  stored' = [j \in DOMAIN stored \ {k} |-> stored[j]]
<1> DEFINE H == Held(rootItems, quads, DOMAIN quads)
<1>1. stored' = [j \in H \ {k} |-> entries[j]]
  <2>1. stored' = [j \in H' |-> entries'[j]]
    BY DEF stored, Held
  <2> QED
    BY <2>1
<1>2. stored = [j \in H |-> entries[j]] /\ DOMAIN stored = H
  BY StoredAre
<1> HIDE DEF H
<1>3. \A j \in H \ {k} : entries[j] = stored[j]
  BY <1>2
<1> QED
  BY <1>1, <1>2, <1>3

LEMMA RootRemoveHolds ==
    ASSUME TreeInv, NEW item, holds(rootItems, item),
           rootItems' = without(rootItems, item), UNCHANGED <<minExtent, quads, entries>>
    PROVE  /\ TreeInv'
           /\ \E k \in DOMAIN stored :
                 stored[k].item = item /\ stored' = [j \in DOMAIN stored \ {k} |-> stored[j]]
<1> DEFINE T == 1..Len(entries)
           left == without(rootItems, item)
           deep == UNION {ToSet(quads[q]) : q \in DOMAIN quads}
<1>1. Listing(rootItems, T)
  BY DEF TreeInv
<1> HIDE DEF T
<1>2. PICK k \in ToSet(rootItems) :
         Listing(left, T) /\ entries[k].item = item /\ ToSet(left) = ToSet(rootItems) \ {k}
  BY <1>1, WithoutHolds
<1>3. rootItems' = left
  OBVIOUS
<1> HIDE DEF left
<1>4. \A q \in DOMAIN quads : Disjoint(quads[q], left)
  BY <1>2 DEF TreeInv, Disjoint
<1>5. TreeInv'
  BY <1>2, <1>3, <1>4 DEF TreeInv, T
<1>6. k \notin deep
  BY DEF TreeInv, Disjoint
<1>7. Held(rootItems, quads, DOMAIN quads)' = ToSet(left) \cup deep
  BY <1>3 DEF Held
<1>8. Held(rootItems, quads, DOMAIN quads) = ToSet(rootItems) \cup deep
  BY DEF Held
<1> HIDE DEF deep
<1>9. Held(rootItems, quads, DOMAIN quads)' = Held(rootItems, quads, DOMAIN quads) \ {k}
  BY <1>2, <1>6, <1>7, <1>8
<1>10. k \in DOMAIN stored /\ stored[k].item = item
  BY <1>2, <1>8, StoredAre
<1> QED
  BY <1>5, <1>9, <1>10, StoredShrinks

RemovedFrom(q, left) == [p \in DOMAIN quads \ pruned(q, left) |-> IF p = q THEN left ELSE quads[p]]

LEMMA QuadRemoveHolds ==
    ASSUME TreeInv, NEW item, NEW q \in DOMAIN quads, holds(quads[q], item),
           quads' = RemovedFrom(q, without(quads[q], item)), UNCHANGED <<minExtent, rootItems, entries>>
    PROVE  /\ TreeInv'
           /\ \E k \in DOMAIN stored :
                 stored[k].item = item /\ stored' = [j \in DOMAIN stored \ {k} |-> stored[j]]
<1> DEFINE T == 1..Len(entries)
           left == without(quads[q], item)
           D == DOMAIN quads
           gone == pruned(q, left)
           new == [p \in D |-> IF p = q THEN left ELSE quads[p]]
<1>1. \A p \in D : Listing(quads[p], T)
  BY DEF TreeInv
<1> HIDE DEF T
<1>2. PICK k \in ToSet(quads[q]) :
         Listing(left, T) /\ entries[k].item = item /\ ToSet(left) = ToSet(quads[q]) \ {k}
  BY <1>1, WithoutHolds
<1>3. quads' = RemovedFrom(q, left)
  OBVIOUS
<1> HIDE DEF left
<1>4. Rooted(D \ gone) /\ Connected(D \ gone) /\ \A p \in gone : IF p = q THEN left = <<>> ELSE quads[p] = <<>>
  BY PrunedHolds DEF TreeInv
<1>5. gone \subseteq D
  BY DEF pruned
<1>6. new[q] = left /\ \A p \in D : p # q => new[p] = quads[p]
  OBVIOUS
<1>7. DOMAIN quads' = D \ gone /\ \A p \in D \ gone : quads'[p] = new[p]
  BY <1>3 DEF RemovedFrom
<1> HIDE DEF gone, new
<1>8. ToSet(<<>>) = {}
  BY DEF ToSet
<1>9. \A p \in gone : ToSet(new[p]) = {}
  BY <1>4, <1>5, <1>6, <1>8
<1>10. \A p \in D : /\ Listing(new[p], T) /\ ToSet(new[p]) \subseteq ToSet(quads[p])
                    /\ ToSet(new[p]) = ToSet(quads[p]) \ {k}
  <2>1. \A p \in D : p # q => k \notin ToSet(quads[p])
    BY DEF TreeInv, Disjoint
  <2> QED
    BY <1>1, <1>2, <1>6, <2>1
<1>11. \A p \in D : Disjoint(new[p], rootItems) /\ \A j \in ToSet(new[p]) : covers(p, entries[j].env)
  BY <1>10 DEF TreeInv, Disjoint
<1>12. ASSUME NEW p \in D, NEW r \in D, p # r PROVE Disjoint(new[p], new[r])
  <2>1. Disjoint(quads[p], quads[r])
    BY <1>12 DEF TreeInv
  <2> QED
    BY <1>10, <2>1 DEF Disjoint
<1>13. TreeInv'
  <2>1. /\ Rooted(DOMAIN quads)' /\ Connected(DOMAIN quads)' /\ minExtent' \in 2..Unit /\ entries' \in Seq(Entries)
        /\ Listing(rootItems', T)
    BY <1>4, <1>7 DEF TreeInv, T
  <2>2. \A p \in DOMAIN quads' : Listing(quads'[p], T) /\ Disjoint(quads'[p], rootItems')
    BY <1>7, <1>10, <1>11
  <2>3. \A p, r \in DOMAIN quads' : p # r => Disjoint(quads'[p], quads'[r])
    BY <1>7, <1>12
  <2>4. \A p \in DOMAIN quads' : \A j \in ToSet(quads'[p]) : covers(p, entries'[j].env)
    BY <1>7, <1>11
  <2> QED
    BY <2>1, <2>2, <2>3, <2>4 DEF TreeInv, T
<1>14. (UNION {ToSet(quads'[p]) : p \in D \ gone}) = (UNION {ToSet(quads[p]) : p \in D}) \ {k}
  <2>1. ASSUME NEW p \in D \ gone, NEW x \in ToSet(quads'[p]) PROVE x # k /\ x \in ToSet(quads[p])
    BY <1>7, <1>10
  <2>2. ASSUME NEW p \in D, NEW x \in ToSet(quads[p]), x # k PROVE p \in D \ gone /\ x \in ToSet(quads'[p])
    <3>1. x \in ToSet(new[p])
      BY <1>10, <2>2
    <3>2. p \notin gone
      BY <1>9, <3>1
    <3> QED
      BY <1>7, <3>1, <3>2
  <2> QED
    BY <2>1, <2>2
<1>15. k \notin ToSet(rootItems)
  BY DEF TreeInv, Disjoint
<1>16. Held(rootItems, quads, D)' = ToSet(rootItems) \cup UNION {ToSet(quads'[p]) : p \in D \ gone}
  BY <1>7 DEF Held
<1>17. Held(rootItems, quads, D) = ToSet(rootItems) \cup UNION {ToSet(quads[p]) : p \in D}
  BY DEF Held
<1>18. Held(rootItems, quads, D)' = Held(rootItems, quads, D) \ {k}
  <2> DEFINE U == UNION {ToSet(quads'[p]) : p \in D \ gone}
             V == UNION {ToSet(quads[p]) : p \in D}
  <2>1. U = V \ {k}
    BY <1>14
  <2> HIDE DEF U, V
  <2> QED
    BY <1>15, <1>16, <1>17, <2>1 DEF U, V
<1>19. k \in Held(rootItems, quads, D)
  BY <1>17
<1>20. k \in DOMAIN stored /\ stored[k].item = item
  BY <1>2, <1>19, StoredAre
<1> QED
  BY <1>13, <1>18, <1>20, StoredShrinks

\* Quadtree::remove takes one entry of the item out, or there was none.
LEMMA RemoveHolds ==
    ASSUME EntriesFit, TreeInv, NEW e \in Entries, remove(e.env, e.item)
    PROVE  /\ TreeInv'
           /\ \/ /\ answer' = <<"remove", e.env, e.item, TRUE>>
                 /\ \E k \in DOMAIN stored :
                       stored[k].item = e.item /\ stored' = [j \in DOMAIN stored \ {k} |-> stored[j]]
              \/ /\ answer' = <<"remove", e.env, e.item, FALSE>>
                 /\ \A k \in DOMAIN stored : stored[k] # [env |-> e.env, item |-> e.item]
                 /\ stored' = stored
<1> DEFINE pos == ensureExtent(e.env, minExtent)
           found == {q \in DOMAIN quads : intersects(q, pos) /\ holds(quads[q], e.item)}
<1>1. Fits(e.env) /\ Solid(pos) /\ covers(pos, e.env)
  BY EntriesHold, EnsuredExtent DEF TreeInv
<1>2. UNCHANGED <<minExtent, entries>>
  BY DEF remove
<1>3. CASE \E q \in found :
              /\ quads' = RemovedFrom(q, without(quads[q], e.item))
              /\ answer' = <<"remove", e.env, e.item, TRUE>> /\ UNCHANGED rootItems
  <2>1. PICK q \in found :
           /\ quads' = RemovedFrom(q, without(quads[q], e.item))
           /\ answer' = <<"remove", e.env, e.item, TRUE>> /\ UNCHANGED rootItems
    BY <1>3
  <2>2. q \in DOMAIN quads /\ holds(quads[q], e.item)
    OBVIOUS
  <2> QED
    BY <1>2, <2>1, <2>2, QuadRemoveHolds
<1>4. CASE /\ holds(rootItems, e.item) /\ rootItems' = without(rootItems, e.item)
           /\ answer' = <<"remove", e.env, e.item, TRUE>> /\ UNCHANGED quads
  BY <1>2, <1>4, RootRemoveHolds
<1>5. CASE /\ found = {} /\ ~holds(rootItems, e.item)
           /\ answer' = <<"remove", e.env, e.item, FALSE>> /\ UNCHANGED <<rootItems, quads>>
  <2>1. TreeInv' /\ stored' = stored
    BY <1>2, <1>5 DEF TreeInv, stored
  <2>2. ASSUME NEW k \in DOMAIN stored, stored[k] = [env |-> e.env, item |-> e.item] PROVE FALSE
    <3>1. entries[k].env = e.env /\ entries[k].item = e.item
      BY <2>2, StoredFit
    <3>2. CASE k \in ToSet(rootItems)
      BY <1>5, <3>1, <3>2 DEF holds
    <3>3. CASE k \notin ToSet(rootItems)
      <4>1. PICK q \in DOMAIN quads : k \in ToSet(quads[q])
        BY <3>3, StoredAre DEF Held
      <4>2. covers(q, e.env) /\ q \in IntRect
        BY <3>1, <4>1 DEF TreeInv, Rooted, IsQuad
      <4>3. intersects(q, pos)
        <5> HIDE DEF pos
        <5> QED
          BY <1>1, <4>2 DEF covers, intersects, isNull, IntRect, Solid, Fits
      <4>4. q \in found
        BY <3>1, <4>1, <4>3 DEF holds
      <4> QED
        BY <1>5, <4>4
    <3> QED
      BY <3>2, <3>3
  <2> QED
    BY <1>5, <2>1, <2>2
<1> QED
  BY <1>3, <1>4, <1>5 DEF remove, RemovedFrom

-----------------------------------------------------------------------------
Index == INSTANCE SpatialIndex WITH Id <- 1..MaxInserts, NULL <- "null"

\* The invariant on which the answers rest: each quadrant is empty or has one top
\* quad; each entry is listed once, in the root or in a quad that covers it; the
\* extent of padded items is never below two units.
THEOREM TreeIsSound == ASSUME EntriesFit PROVE Spec => []TreeInv
<1>1. Init => TreeInv
  BY InitHolds
<1>2. TreeInv /\ [Next]_vars => TreeInv'
  <2> SUFFICES ASSUME TreeInv, [Next]_vars PROVE TreeInv'
    OBVIOUS
  <2>1. CASE \E e \in Entries : insert(e)
    BY <2>1, InsertHolds
  <2>2. CASE \E e \in Entries : remove(e.env, e.item)
    BY <2>2, RemoveHolds
  <2>3. CASE \E env \in Searches : query(env)
    BY <2>3, QueryHolds
  <2>4. CASE queryAll
    BY <2>4, QueryAllHolds
  <2>5. CASE UNCHANGED vars
    BY <2>5 DEF vars, TreeInv
  <2> QED
    BY <2>1, <2>2, <2>3, <2>4, <2>5 DEF Next
<1> QED
  BY <1>1, <1>2, PTL DEF Spec

\* Quadtree implements SpatialIndex: after any insertions and removals a query
\* returns every entry that meets the envelope, each once, and only stored ones;
\* queryAll returns all; remove takes one entry of the item and says so, and does
\* not say FALSE of an entry that is there.
THEOREM QuadtreeIsASpatialIndex == ASSUME EntriesFit PROVE Spec => Index!Spec
<1>1. Init => Index!Init
  <2> SUFFICES ASSUME Init PROVE Index!Init
    OBVIOUS
  <2>1. rootItems = <<>> /\ quads = <<>> /\ answer = <<"none">>
    BY DEF Init
  <2>2. Held(rootItems, quads, DOMAIN quads) = {}
    BY <2>1 DEF Held, ToSet
  <2>3. stored = <<>>
    BY <2>2, StoredAre
  <2> QED
    BY <2>1, <2>3 DEF Index!Init
<1>2. TreeInv /\ [Next]_vars => [Index!Next]_Index!vars
  <2> SUFFICES ASSUME TreeInv, [Next]_vars PROVE [Index!Next]_Index!vars
    OBVIOUS
  <2>1. CASE \E e \in Entries : insert(e)
    <3>1. Index!insert
      BY <2>1, InsertHolds DEF Index!insert
    <3> QED
      BY <3>1 DEF Index!Next
  <2>2. CASE \E e \in Entries : remove(e.env, e.item)
    <3>1. \E e \in Entries : Index!remove(e.env, e.item)
      BY <2>2, RemoveHolds DEF Index!remove
    <3> QED
      BY <3>1 DEF Index!Next
  <2>3. CASE \E env \in Searches : query(env)
    <3>1. PICK env \in Searches : query(env)
      BY <2>3
    <3>2. Index!query(env)
      BY <3>1, QueryHolds DEF Index!query, Index!Matching, Index!ToSet, Index!IsInjective,
                              ToSet, IsInjective, Index!intersects, intersects, Index!isNull, isNull
    <3> QED
      BY <3>2 DEF Index!Next
  <2>4. CASE queryAll
    <3>1. Index!all
      BY <2>4, QueryAllHolds DEF Index!all, Index!ToSet, Index!IsInjective, ToSet, IsInjective
    <3> QED
      BY <3>1 DEF Index!Next
  <2>5. CASE UNCHANGED vars
    <3>1. stored' = stored
      BY <2>5 DEF vars, stored
    <3> QED
      BY <2>5, <3>1 DEF vars, Index!vars
  <2> QED
    BY <2>1, <2>2, <2>3, <2>4, <2>5 DEF Next
<1> QED
  BY <1>1, <1>2, TreeIsSound, PTL DEF Spec, Index!Spec

LEMMA MultiplesDivide ==
    ASSUME NEW s \in Nat \ {0}, NEW x \in Int, Multiple(x, s)
    PROVE  x % s = 0
<1>1. PICK c \in Int : x = c * s
  BY DEF Multiple
<1> DEFINE d == x \div s
           m == x % s
<1>2. x = s * d + m /\ m \in 0..(s - 1) /\ d \in Int
  OBVIOUS
<1> HIDE DEF d, m
<1>3. m = (c - d) * s
  BY <1>1, <1>2
<1>4. c - d < 1
  <2> SUFFICES ASSUME c - d >= 1 PROVE FALSE
    BY <1>2
  <2>1. (c - d) * s >= s
    BY <1>2
  <2> QED
    BY <1>2, <1>3, <2>1
<1>5. c - d > -1
  <2> SUFFICES ASSUME c - d <= -1 PROVE FALSE
    BY <1>2
  <2>1. (c - d) * s <= -s
    BY <1>2
  <2> QED
    BY <1>2, <1>3, <2>1
<1>6. c - d = 0
  BY <1>2, <1>4, <1>5
<1> QED
  BY <1>3, <1>6 DEF m

\* The walk down from the top of a quadrant reaches every quad of it, at its place
\* and with its width, whatever was inserted and removed; no two trees of a quadrant
\* come about when one grows upwards (Node::createExpanded, NodeBase::remove).
THEOREM QuadsStayConnected == ASSUME EntriesFit PROVE Spec => []QuadsAreConnected
<1>1. TreeInv => QuadsAreConnected
  <2> SUFFICES ASSUME TreeInv, NEW q \in DOMAIN quads
               PROVE  /\ q.minx % sizeOf(q) = 0 /\ q.miny % sizeOf(q) = 0 /\ sizeOf(q) \in PowersOf2
                      /\ \A p \in DOMAIN quads :
                            (covers(p, q) /\ p # q) => subquad(p, getSubnodeIndex(q, centre2(p))) \in DOMAIN quads
                      /\ Cardinality(topFor(getSubnodeIndex(q, Origin))) = 1
    BY DEF QuadsAreConnected
  <2>1. IsQuad(q) /\ sizeOf(q) \in PowersOf2 /\ sizeOf(q) \in Nat \ {0}
    BY HalfOfASize DEF TreeInv, Rooted, IsQuad
  <2>2. q.minx % sizeOf(q) = 0 /\ q.miny % sizeOf(q) = 0
    BY <2>1, MultiplesDivide DEF IsQuad, IntRect
  <2>3. \A p \in DOMAIN quads :
           (covers(p, q) /\ p # q) => subquad(p, getSubnodeIndex(q, centre2(p))) \in DOMAIN quads
    BY DEF TreeInv, Connected
  <2>4. Cardinality(topFor(getSubnodeIndex(q, Origin))) = 1
    <3>1. PICK t \in DOMAIN quads : TopOf(t, DOMAIN quads, quadrant(q))
      BY DEF TreeInv, Rooted
    <3>2. topFor(quadrant(q)) = {t}
      BY <2>1, <3>1, TopIsFound DEF TreeInv, IsQuad
    <3>3. Cardinality({t}) = 1
      BY FS_Singleton
    <3> QED
      BY <3>2, <3>3 DEF quadrant
  <2> QED
    BY <2>1, <2>2, <2>3, <2>4
<1> QED
  BY <1>1, TreeIsSound, PTL
=============================================================================
