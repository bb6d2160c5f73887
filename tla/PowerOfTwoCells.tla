-------------------------- MODULE PowerOfTwoCells ---------------------------
(***************************************************************************)
(* The grid of index/quadtree and index/bintree: intervals whose length is *)
(* a power of two and whose ends are multiples of it (Key, DoubleBits,     *)
(* IntervalSize).  Coordinates are integers: a unit stands for a small     *)
(* fraction of the coordinates of the program.                             *)
(***************************************************************************)
EXTENDS Integers

CONSTANTS Unit,               \* the length 1.0, the default extent of an item
          MaxLevel,           \* bound on the levels of a tree
          MIN_BINARY_EXPONENT \* widths below this power of two, relative to the
                              \* magnitude of the ends, count as zero

ASSUME UnitAssumption == Unit \in Nat /\ Unit > 0
ASSUME LevelAssumption == MaxLevel \in Nat
ASSUME ExponentAssumption == -MIN_BINARY_EXPONENT \in Nat \ {0}

powerOf2[k \in Nat] == IF k = 0 THEN 1 ELSE 2 * powerOf2[k - 1]
PowersOf2 == {powerOf2[k] : k \in 0..MaxLevel}

\* The cell of length size in which x lies: floor(x / size) * size.
cellStart(x, size) == (x \div size) * size

\* Key::computeKey: the length of the smallest cell that can hold an interval of
\* length extent: the first guess is above the extent, and is doubled until it is
\* one of the lengths whose cell holds the interval.
keySize(extent, fitting) ==
    CHOOSE s \in fitting : s > extent /\ \A t \in fitting : t > extent => s <= t

magnitude(x) == IF x < 0 THEN -x ELSE x

isZeroWidth(mn, mx) ==
    LET maxAbs == IF magnitude(mn) > magnitude(mx) THEN magnitude(mn) ELSE magnitude(mx)
    IN  mx = mn \/ (mx - mn) * 2^(-MIN_BINARY_EXPONENT - 1) < maxAbs

\* ensureExtent pads an interval without length; the new maximum is computed from
\* the new minimum, and is the old one.
padded(mn, mx, minExtent) ==
    IF mn = mx THEN LET low == mn - minExtent \div 2
                    IN  <<low, low + minExtent \div 2>>
    ELSE <<mn, mx>>
=============================================================================
