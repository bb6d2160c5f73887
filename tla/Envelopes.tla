----------------------------- MODULE Envelopes ------------------------------
(***************************************************************************)
(* geom::Envelope: a rectangle with closed sides, or null, which the code  *)
(* encodes as a rectangle whose maximum is below its minimum.  The indexes *)
(* over one dimension use envelopes without height.                        *)
(***************************************************************************)
EXTENDS Integers

Least(a, b) == IF a < b THEN a ELSE b
Most(a, b)  == IF a > b THEN a ELSE b

Rect(x1, x2, y1, y2) == [minx |-> Least(x1, x2), maxx |-> Most(x1, x2),
                         miny |-> Least(y1, y2), maxy |-> Most(y1, y2)]
NullEnvelope == [minx |-> 0, maxx |-> -1, miny |-> 0, maxy |-> -1]

isNull(e)    == e.maxx < e.minx
getWidth(e)  == IF isNull(e) THEN 0 ELSE e.maxx - e.minx
getHeight(e) == IF isNull(e) THEN 0 ELSE e.maxy - e.miny

expandToInclude(e, f) ==
    IF isNull(f) THEN e ELSE IF isNull(e) THEN f
    ELSE [minx |-> Least(e.minx, f.minx), maxx |-> Most(e.maxx, f.maxx),
          miny |-> Least(e.miny, f.miny), maxy |-> Most(e.maxy, f.maxy)]

covers(e, f) == /\ ~isNull(e) /\ ~isNull(f)
                /\ f.minx >= e.minx /\ f.maxx <= e.maxx
                /\ f.miny >= e.miny /\ f.maxy <= e.maxy

intersects(e, f) == /\ ~isNull(e) /\ ~isNull(f)
                    /\ f.minx <= e.maxx /\ f.maxx >= e.minx
                    /\ f.miny <= e.maxy /\ f.maxy >= e.miny

\* The square of Envelope::distance, which orders envelopes in the same way.
distance2(e, f) ==
    LET gap(lo1, hi1, lo2, hi2) == Most(0, Most(lo2 - hi1, lo1 - hi2))
        dx == gap(e.minx, e.maxx, f.minx, f.maxx)
        dy == gap(e.miny, e.maxy, f.miny, f.maxy)
    IN  dx * dx + dy * dy
=============================================================================
