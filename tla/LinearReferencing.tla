------------------------- MODULE LinearReferencing --------------------------
(***************************************************************************)
(* linearref: LengthIndexedLine and LocationIndexedLine, which refer to    *)
(* the points of a line, or of several lines one after the other, by the   *)
(* length along them or by a LinearLocation, with LengthLocationMap,       *)
(* LinearIterator, ExtractLineByLocation, LinearGeometryBuilder and the    *)
(* LengthIndexOf and LocationIndexOf classes.                              *)
(*                                                                         *)
(* Segments are axis-parallel and of a length that divides Whole, so that  *)
(* a fraction is an integer number of parts of a segment, and lengths are  *)
(* integers.  Components and segments are counted from 1.                  *)
(***************************************************************************)
EXTENDS RingGeometry, FiniteSetsExt

CONSTANTS Linears,      \* the geometries referred to: sequences of lines
          Asked,        \* the points looked for
          NULL          \* no call, and the result of a call that throws

VARIABLES linear, call  \* the geometry, and what the last call asked and gave
refVars == <<linear, call>>

Whole == 12

Abs(x) == IF x < 0 THEN -x ELSE x
size(p, q) == Abs(p[1] - q[1]) + Abs(p[2] - q[2])
square(p, q) == (p[1] - q[1]) * (p[1] - q[1]) + (p[2] - q[2]) * (p[2] - q[2])
lengthOf(line) == FoldFunction(+, 0, [i \in 1..(Len(line) - 1) |-> size(line[i], line[i + 1])])
getLength == FoldFunction(+, 0, [c \in DOMAIN linear |-> lengthOf(linear[c])])

-----------------------------------------------------------------------------
(* LinearIterator: all vertices, in order.                                 *)
iterator == FlattenSeq([c \in DOMAIN linear |-> [v \in DOMAIN linear[c] |-> <<c, v>>]])

isEndOfLine(it) == it[2] >= Len(linear[it[1]])
segmentStart(it) == linear[it[1]][it[2]]
segmentEnd(it) == linear[it[1]][it[2] + 1]
segLen(it) == IF isEndOfLine(it) THEN 0 ELSE size(segmentStart(it), segmentEnd(it))

\* totalLength, before each vertex
totalLengths ==
    LET its == iterator
        total[k \in Nat] == IF k = 1 THEN 0 ELSE total[k - 1] + segLen(its[k - 1])
    IN  [k \in DOMAIN its |-> total[k]]

-----------------------------------------------------------------------------
(* LinearLocation                                                          *)
Location(c, s, f) ==
    IF f >= Whole THEN [component |-> c, segment |-> s + 1, fraction |-> 0]
                  ELSE [component |-> c, segment |-> s, fraction |-> Max({f, 0})]

getEndLocation == [component |-> Len(linear), segment |-> Len(Last(linear)), fraction |-> Whole]

isBefore(a, b) ==
    \/ a.component < b.component
    \/ a.component = b.component /\ a.segment < b.segment
    \/ a.component = b.component /\ a.segment = b.segment /\ a.fraction < b.fraction

isVertex(loc) == loc.fraction <= 0 \/ loc.fraction >= Whole

isEndpoint(loc) == loc.segment >= Len(linear[loc.component])

getCoordinate(loc) ==
    LET p0 == linear[loc.component][loc.segment]
        p1 == linear[loc.component][loc.segment + 1]
    IN  IF isEndpoint(loc) THEN p0
        ELSE << p0[1] + ((p1[1] - p0[1]) * loc.fraction) \div Whole,
                p0[2] + ((p1[2] - p0[2]) * loc.fraction) \div Whole >>

-----------------------------------------------------------------------------
(* LengthLocationMap                                                       *)

\* Mutant: the end of a component is not looked for.
getLocationForward_NoEnds(length) ==
    LET its  == iterator
        total == totalLengths
        hits == {k \in DOMAIN its : total[k] + segLen(its[k]) > length}
        k    == Min(hits)
    IN  IF length <= 0 THEN Location(1, 1, 0)
        ELSE IF hits = {} THEN getEndLocation
        ELSE Location(its[k][1], its[k][2], (Whole * (length - total[k])) \div segLen(its[k]))

\* A length that ends a component is resolved to its end.
getLocationForward(length) ==
    LET its  == iterator
        total == totalLengths
        hits == {k \in DOMAIN its : IF isEndOfLine(its[k]) THEN total[k] = length
                                    ELSE total[k] + segLen(its[k]) > length}
        k    == Min(hits)
    IN  IF length <= 0 THEN Location(1, 1, 0)
        ELSE IF hits = {} THEN getEndLocation
        ELSE Location(its[k][1], its[k][2],
                      IF isEndOfLine(its[k]) THEN 0
                      ELSE (Whole * (length - total[k])) \div segLen(its[k]))

resolveHigher(loc) ==
    LET n == Len(linear)
        higher == {c \in (loc.component + 1)..n : c = n \/ lengthOf(linear[c]) # 0}
    IN  IF ~isEndpoint(loc) \/ higher = {} THEN loc ELSE Location(Min(higher), 1, 0)

getLocation(length, resolveLower) ==
    LET loc == getLocationForward(IF length < 0 THEN getLength + length ELSE length)
    IN  IF resolveLower THEN loc ELSE resolveHigher(loc)

\* The length of a location; one at the end of a component is never found.
getLengthOf(loc) ==
    LET its  == iterator
        hits == {k \in DOMAIN its : /\ ~isEndOfLine(its[k])
                                    /\ its[k] = <<loc.component, loc.segment>>}
        k    == Min(hits)
    IN  IF hits = {} THEN getLength
        ELSE totalLengths[k] + (segLen(its[k]) * loc.fraction) \div Whole

-----------------------------------------------------------------------------
(* ExtractLineByLocation, with LinearGeometryBuilder                       *)

\* A line of one point is fixed by repeating it.
endLine(b) ==
    IF b.coordList = <<>> THEN b
    ELSE [coordList |-> <<>>,
          lines |-> Append(b.lines, IF Len(b.coordList) = 1 THEN b.coordList \o b.coordList ELSE b.coordList)]

addPt(b, p) == [b EXCEPT !.coordList = Append(@, p)]

addLocation(b, loc) == IF isVertex(loc) THEN b ELSE addPt(b, getCoordinate(loc))

computeLinear(start, end) ==
    LET endVertex == IF start.fraction > 0 THEN start.segment + 1 ELSE start.segment
        its == SelectSeq(iterator, LAMBDA it :
                 /\ it[1] > start.component \/ (it[1] = start.component /\ it[2] >= endVertex)
                 /\ ~isBefore(end, [component |-> it[1], segment |-> it[2], fraction |-> 0]))
        empty == [lines |-> <<>>, coordList |-> <<>>]
        walked == FoldLeft(LAMBDA b, it :
                     IF isEndOfLine(it) THEN endLine(addPt(b, segmentStart(it))) ELSE addPt(b, segmentStart(it)),
                     addLocation(empty, start), its)
    IN  endLine(addLocation(walked, end)).lines

reverseLines(lines) == Reverse([c \in DOMAIN lines |-> Reverse(lines[c])])

extract(start, end) ==
    IF isBefore(end, start) THEN reverseLines(computeLinear(end, start)) ELSE computeLinear(start, end)

clampIndex(index) ==
    LET posIndex == IF index >= 0 THEN index ELSE getLength + index
    IN  IF posIndex < 0 THEN 0 ELSE IF posIndex > getLength THEN getLength ELSE posIndex

\* Mutant: the start is resolved to the end of the component before.
extractLine_StartLower(startIndex, endIndex) ==
    extract(getLocation(clampIndex(startIndex), TRUE), getLocation(clampIndex(endIndex), TRUE))

extractLine(startIndex, endIndex) ==
    LET startIndex2 == clampIndex(startIndex)
        endIndex2   == clampIndex(endIndex)
    IN  extract(getLocation(startIndex2, startIndex2 = endIndex2), getLocation(endIndex2, TRUE))

-----------------------------------------------------------------------------
(* LengthIndexOfPoint, LocationIndexOfPoint and LocationIndexOfLine        *)

\* LineSegment::projectionFactor, in parts of the segment, kept between its ends
segmentFraction(it, p) ==
    LET a == segmentStart(it)
        b == segmentEnd(it)
        r == (p[1] - a[1]) * (b[1] - a[1]) + (p[2] - a[2]) * (b[2] - a[2])
        len2 == square(a, b)
    IN  IF r <= 0 THEN 0 ELSE IF r >= len2 THEN Whole ELSE (r * Whole) \div len2

\* the square of LineSegment::distance
segDistance(it, p) ==
    square(p, getCoordinate([component |-> it[1], segment |-> it[2], fraction |-> segmentFraction(it, p)]))

\* The first segment whose nearest point to p is nearest of all those that count.
nearestSegment(p, ks) ==
    IF ks = {} THEN 0
    ELSE Min({k \in ks : \A j \in ks : segDistance(iterator[k], p) <= segDistance(iterator[j], p)})

segments == {k \in DOMAIN iterator : ~isEndOfLine(iterator[k])}

measureOn(k, p) == totalLengths[k] + (segLen(iterator[k]) * segmentFraction(iterator[k], p)) \div Whole

\* indexOfFromStart
lengthIndexFrom(p, minIndex) ==
    LET k == nearestSegment(p, {j \in segments : measureOn(j, p) > minIndex})
    IN  IF k = 0 THEN minIndex ELSE measureOn(k, p)

indexOf(p) == lengthIndexFrom(p, -1)

indexOfAfter(p, minIndex) ==
    IF minIndex < 0 THEN indexOf(p)
    ELSE IF getLength < minIndex THEN getLength
    ELSE IF lengthIndexFrom(p, minIndex) <= minIndex THEN NULL ELSE lengthIndexFrom(p, minIndex)

\* LocationIndexOfPoint::indexOfFromStart, over the segments that count
locationFrom(p, ks) ==
    LET k == nearestSegment(p, ks)
    IN  IF k = 0 THEN Location(1, 1, 0)
        ELSE Location(iterator[k][1], iterator[k][2], segmentFraction(iterator[k], p))

locationIndexOf(p) == locationFrom(p, segments)

locationIndexOfAfter(p, minLoc) ==
    LET later == {k \in segments :
                    isBefore(minLoc, [component |-> iterator[k][1], segment |-> iterator[k][2],
                                      fraction |-> segmentFraction(iterator[k], p)])}
        closestAfter == locationFrom(p, later)
    IN  IF ~isBefore(minLoc, getEndLocation) THEN getEndLocation
        ELSE IF isBefore(closestAfter, minLoc) THEN NULL ELSE closestAfter

\* LengthIndexedLine::indicesOf
indicesOf(subLine) ==
    LET start == locationIndexOf(Head(Head(subLine)))
        isPoint == \A c \in DOMAIN subLine : lengthOf(subLine[c]) = 0
        end == IF isPoint THEN start ELSE locationIndexOfAfter(Last(Last(subLine)), start)
    IN  IF end = NULL THEN NULL ELSE <<getLengthOf(start), getLengthOf(end)>>

-----------------------------------------------------------------------------
\* Indexes before the start, on the line and behind its end
Indexes == -(getLength + 1)..(getLength + 1)

RefInit == linear \in Linears /\ call = NULL

calls(o, a, r) == call' = [op |-> o, args |-> a, answer |-> r] /\ UNCHANGED linear

extractPointCall ==
    \E i \in Indexes : calls("extractPoint", <<i>>, getCoordinate(getLocation(i, TRUE)))
extractLineCall == \E s, e \in Indexes : calls("extractLine", <<s, e>>, extractLine(s, e))
projectCall == \E p \in Asked : calls("indexOf", <<p>>, indexOf(p))
indexOfAfterCall ==
    \E p \in Asked, i \in -1..(getLength + 1) : calls("indexOfAfter", <<p, i>>, indexOfAfter(p, i))
\* The fraction of a point next to a line of no length is not a number.
hasFractions == \A c \in DOMAIN linear : lengthOf(linear[c]) > 0

locationCall == hasFractions /\ \E p \in Asked : calls("locationOf", <<p>>, locationIndexOf(p))

\* indicesOf a line that extractLine gave
indicesOfCall ==
    /\ call # NULL /\ call.op = "extractLine" /\ hasFractions
    /\ calls("indicesOf", call.args, indicesOf(call.answer))

RefNext ==
    \/ /\ call = NULL
       /\ extractPointCall \/ extractLineCall \/ projectCall \/ indexOfAfterCall \/ locationCall
    \/ indicesOfCall
=============================================================================
