------------------------------ MODULE MCNoders ------------------------------
(***************************************************************************)
(* What a call on a noder promises, and lines that a noder which promises  *)
(* more does not node.                                                     *)
(***************************************************************************)
EXTENDS Noders

\* The last vertex of the second line lies within half a unit of the first.
SnapInputs == {<< <<<<0,3>>, <<3,2>>, <<0,0>>>>, <<<<2,0>>, <<2,3>>, <<1,3>>>> >>}

-----------------------------------------------------------------------------
\* PROPERTY.  When the IteratedNoder returns, the lines GeometryNoder makes
\* of its strings pass the NodingValidator and cover no segment twice:
\* "The set of segmentStrings is fully noded; i.e. noding is repeated until
\* no further intersections are detected" (IteratedNoder.h).  The last pass
\* counts the intersections of the strings before it splits them.
IteratedIsFullyNoded ==
    pc = "returned" /\ noder = "iterated" =>
        /\ checkValid(result)
        /\ \A k, l \in DOMAIN result : \A i \in Segments(result[k]), j \in Segments(result[l]) :
              {result[k][i], result[k][i + 1]} = {result[l][j], result[l][j + 1]} => k = l /\ i = j

\* PROPERTY.  Noding only cuts: every vertex of the input is still a vertex
\* of the result, the ends of the input are ends of result lines, and no
\* result line is a single point or has a segment without length.
InputSurvives ==
    pc = "returned" =>
        LET vertices(ls) == UNION {{ls[k][i] : i \in DOMAIN ls[k]} : k \in DOMAIN ls}
            ends(ls)     == UNION {{Head(ls[k]), Last(ls[k])} : k \in DOMAIN ls}
        IN  /\ vertices(lines) \subseteq vertices(result)
            /\ ends(lines) \subseteq ends(result)
            /\ \A k \in DOMAIN result : /\ Len(result[k]) >= 2
                                        /\ \A i \in Segments(result[k]) :
                                              result[k][i] # result[k][i + 1]

\* PROPERTY.  Every call ends, with a result or an exception: the iteration
\* stops although the number of nodes created may cease to fall.
CallEnds == (pc # "idle") ~> (pc = "idle")

\* PROPERTY (violated).  The MCIndexSnapRounder computes "a rounded, fully
\* noded arrangement" and is "fully robust using an integer precision model"
\* (MCIndexSnapRounder.h).
SnapRoundedIsFullyNoded ==
    pc = "returned" /\ noder = "index" => checkValid(result)
=============================================================================
