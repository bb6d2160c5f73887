----------------------------- MODULE MCPrepared -----------------------------
(***************************************************************************)
(* Targets: a rectangle, an L, a square with a hole, two squares that      *)
(* touch in a vertex, a line and two points.  The segments of all          *)
(* geometries are horizontal, vertical or diagonal between points of a     *)
(* grid of step 4, so that every piece into which they cut each other has  *)
(* an integer point in its interior: the integer points decide every       *)
(* relation between two of them.                                           *)
(***************************************************************************)
EXTENDS PreparedGeometry, TLC

at(path) == [i \in DOMAIN path |-> <<4 * path[i][1], 4 * path[i][2]>>]
box(x, y, n) == at(<<<<x, y>>, <<x + n, y>>, <<x + n, y + n>>, <<x, y + n>>, <<x, y>>>>)

points(ps)     == [dim |-> 0, parts |-> [i \in DOMAIN ps |-> <<at(<<ps[i]>>)>>]]
line(path)     == [dim |-> 1, parts |-> <<<<at(path)>>>>]
polygon(rings) == [dim |-> 2, parts |-> <<rings>>]

MCGeometries ==
    [rectangle |-> polygon(<<box(1, 1, 2)>>),
     ell       |-> polygon(<<at(<<<<0,0>>, <<3,0>>, <<3,1>>, <<1,1>>, <<1,3>>, <<0,3>>, <<0,0>>>>)>>),
     holed     |-> polygon(<<box(0, 0, 4), box(1, 1, 2)>>),
     touching  |-> [dim |-> 2, parts |-> <<<<box(0, 0, 2)>>, <<box(2, 2, 2)>>>>],
     bent      |-> line(<<<<0,0>>, <<2,2>>, <<4,2>>>>),
     dots      |-> points(<<<<1,1>>, <<3,2>>>>),
     centre    |-> points(<<<<2,2>>>>),
     corners   |-> points(<<<<1,1>>, <<3,3>>>>),
     diagonal  |-> line(<<<<1,1>>, <<3,3>>>>),
     across    |-> line(<<<<0,3>>, <<3,0>>>>),
     edge      |-> line(<<<<1,1>>, <<3,1>>>>),
     inside    |-> line(<<<<1,2>>, <<2,1>>, <<3,2>>>>),
     small     |-> polygon(<<box(2, 2, 1)>>),
     diamond   |-> polygon(<<at(<<<<2,1>>, <<3,2>>, <<2,3>>, <<1,2>>, <<2,1>>>>)>>),
     square    |-> polygon(<<box(0, 0, 4)>>),
     frame     |-> polygon(<<box(0, 0, 4), box(1, 1, 2)>>)]

MCTargets == {"rectangle", "ell", "holed", "touching", "bent", "dots"}
MCTests   == DOMAIN MCGeometries \ (MCTargets \ {"touching"})

TwoTargets == {"holed"}
TwoTests   == {"across", "small"}

-----------------------------------------------------------------------------
(* The relations, by the integer points of the plane.                      *)

Plane == (0..16) \X (0..16)

\* Where a point lies: rings are crossed by a ray upwards.
below(p, s) == /\ (s[1][1] > p[1]) # (s[2][1] > p[1])
               /\ LET left  == IF s[1][1] < s[2][1] THEN s[1] ELSE s[2]
                      right == IF s[1][1] < s[2][1] THEN s[2] ELSE s[1]
                  IN  orientationIndex(left, right, p) < 0

locationIn(g, p) ==
    IF \E s \in LineSegments(g) : liesOn(p, s[1], s[2])
      THEN "boundary"
      ELSE IF \E i \in DOMAIN g.parts :
                Cardinality({s \in LineSegments([dim |-> 2, parts |-> <<g.parts[i]>>]) : below(p, s)}) % 2 = 1
             THEN "interior" ELSE "exterior"

\* The ends of a line are its boundary, unless it is closed.
location(g, p) ==
    CASE g.dim = 0 -> IF p \in Vertices(g) THEN "interior" ELSE "exterior"
      [] g.dim = 1 -> IF ~\E s \in LineSegments(g) : liesOn(p, s[1], s[2]) THEN "exterior"
                      ELSE IF \E path \in Paths(g) : p \in {Head(path), Last(path)} THEN "boundary"
                      ELSE "interior"
      [] g.dim = 2 -> locationIn(g, p)

Located == [n \in MCTargets \cup MCTests |-> [p \in Plane |-> location(MCGeometries[n], p)]]

MCRelation(pred, a, b) ==
    LET of   == {p \in Plane : Located[b][p] # "exterior"}
        meet == \E p \in Plane : Located[a][p] = "interior" /\ Located[b][p] = "interior"
    IN  CASE pred = "intersects" -> \E p \in of : Located[a][p] # "exterior"
          [] pred = "covers" -> \A p \in of : Located[a][p] # "exterior"
          [] pred = "contains" -> meet /\ \A p \in of : Located[a][p] # "exterior"
          [] pred = "containsProperly" -> \A p \in of : Located[a][p] = "interior"

Related == [pred \in Predicates |-> [a \in MCTargets |-> [b \in MCTests |-> MCRelation(pred, a, b)]]]

RelationTable(pred, a, b) == Related[pred][a][b]

\* Without caches the tests agree with the relations: what the proof assumes.
ASSUME TestsAgree == TestsDecide
=============================================================================
