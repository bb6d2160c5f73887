------------------------------ MODULE Retries -------------------------------
(***************************************************************************)
(* Overlays and buffers that try again, with less precision, when an       *)
(* attempt throws: BinaryOp and its relatives, and BufferOp.  Both look at *)
(* the precision models of their operands.                                 *)
(***************************************************************************)
EXTENDS Integers, FiniteSets, Sequences

CONSTANT NULL

-----------------------------------------------------------------------------
(* PrecisionModel: the grid a geometry's coordinates lie on.  A scale is   *)
(* given in tenths, so 5 is a grid of two units, and a fixed model has a   *)
(* positive one.  A floating model carries a scale too, which means        *)
(* nothing: 0 from the default constructor and 1 from the one that takes   *)
(* a type.                                                                 *)
DefaultModel == [type |-> "FLOATING", scale |-> 0]
PrecisionModelOfType(t) == [type |-> t, scale |-> 10]
PrecisionModelOfScale(s) == [type |-> "FIXED", scale |-> s]

isFloating(pm) == pm.type \in {"FLOATING", "FLOATING_SINGLE"}

\* Bound: scales up to 10^MaxDigits.
MaxDigits == 8

\* ceil(log10(scale)) for a scale of at least 1: the powers of ten below it; and
\* floor(log10(scale)) else.
getMaximumSignificantDigits(pm) ==
    CASE pm.type = "FLOATING" -> 16
      [] pm.type = "FLOATING_SINGLE" -> 6
      [] OTHER -> IF pm.scale < 10 THEN -1
                  ELSE Cardinality({k \in 1..MaxDigits : 10^k < pm.scale})

compareTo(a, b) ==
    LET m == getMaximumSignificantDigits(a)
        n == getMaximumSignificantDigits(b)
    IN  IF m < n THEN -1 ELSE IF m = n THEN 0 ELSE 1

-----------------------------------------------------------------------------
(* How GEOS computes an overlay in spite of rounding: the front ends of    *)
(* Geometry, BinaryOp with its attempts on the original input, with common *)
(* bits removed, snapped, and at ever smaller precision, and the two other *)
(* retrying front ends, SnapIfNeededOverlayOp and EnhancedPrecisionOp.     *)
(*                                                                         *)
(* The overlay itself is left open: an attempt yields a result, valid or   *)
(* not, or throws a TopologyException or another exception.  A geometry is *)
(* what the retries look at: whether it is empty, lineal and valid, and    *)
(* its precision model.  A result is the factory it belongs to, how far    *)
(* its coordinates are shifted, and whether it is valid.                   *)
CONSTANTS Operands,     \* pairs of geometries
          Fronts,       \* the entry points called: "binary", "enhanced", "snapIfNeeded"
          MaxScale      \* the largest scale tried, in tenths: 1e16 in the code

ASSUME BinaryOpAssumption == MaxScale \in Nat /\ MaxScale >= 10
\* No exception: NULL is none of them.
Types == {"TopologyException", "another exception", "GEOSException"}
Sources == {"original", "input 1", "input 2", "commonBits", "snap", "reduce"}
ASSUME NullAssumption == NULL \notin [type : Types, from : Sources]

VARIABLES front, op,
          in,          \* the two operands: this and the other
          common,      \* the coordinate common bits removal shifts them by
          apart,       \* the envelopes are disjoint
          pc,
          orig,        \* origException
          saved,       \* originalEx of EnhancedPrecisionOp
          scale,       \* of the precision reduction: [t, d] for t tenths / d
          ret,         \* the result
          thrown       \* the exception that left the call
vars == <<front, op, in, common, apart, pc, orig, saved, scale, ret, thrown>>
call == <<front, op, in, common, apart>>

Op == {"intersection", "union", "difference", "symdifference"}

Init ==
    /\ front \in Fronts /\ op \in Op /\ in \in Operands
    /\ common \in {0, 1} /\ apart \in BOOLEAN
    /\ pc = "front"
    /\ orig = NULL /\ saved = NULL /\ scale = NULL /\ ret = NULL /\ thrown = NULL

Return(r) == ret' = r /\ pc' = "done" /\ UNCHANGED <<call, orig, saved, scale, thrown>>
Goto(p) == pc' = p /\ UNCHANGED <<call, orig, saved, scale, ret, thrown>>

\* An exception leaves the call, or is caught by EnhancedPrecisionOp around it.
Throw(e) ==
    /\ IF front = "enhanced" /\ saved = NULL
       THEN saved' = e /\ pc' = "enhanced" /\ UNCHANGED thrown
       ELSE thrown' = e /\ pc' = "done" /\ UNCHANGED saved
    /\ UNCHANGED <<call, orig, scale, ret>>

Geom(f, s, v) == [factory |-> f, shift |-> s, valid |-> v]

-----------------------------------------------------------------------------
(* Geometry::intersection, Union, difference, symDifference.  A clone has  *)
(* the factory of its original.                                            *)
cloneOf(i) == Geom(i, 0, in[i].valid)

shortcut ==
    CASE op = "intersection" -> IF in[1].empty \/ in[2].empty THEN Geom(1, 0, TRUE) ELSE NULL
      [] op = "difference" ->
           IF in[1].empty THEN Geom(1, 0, TRUE) ELSE IF in[2].empty THEN cloneOf(1) ELSE NULL
      [] OTHER ->
           IF in[1].empty THEN cloneOf(2) ELSE IF in[2].empty THEN cloneOf(1)
           ELSE IF apart THEN Geom(1, 0, in[1].valid /\ in[2].valid) ELSE NULL

enter ==
    /\ pc = "front"
    /\ IF front # "snapIfNeeded" /\ shortcut # NULL THEN Return(shortcut) ELSE Goto("original")

-----------------------------------------------------------------------------
(* The attempts.  An exception is named after the attempt that threw it.   *)
Topology(k) == [type |-> "TopologyException", from |-> k]
Other(k)    == [type |-> "another exception", from |-> k]

removeCommonBits(g) == [g EXCEPT !.shift = @ - common]
addCommonBits(g)    == [g EXCEPT !.shift = @ + common]

\* The overlay of g with the other operand may have a result like g, throw a
\* TopologyException, which is handed on, or throw another exception.
Attempt(k, g, Then(_), Caught(_)) ==
    \/ \E v \in BOOLEAN : Then([g EXCEPT !.valid = v])
    \/ Caught(Topology(k))
    \/ Throw(Other(k))

\* check_valid: a line is checked for simplicity, unless only validity counts.
check_valid(g, validOnly) == (g.lineal /\ validOnly) \/ g.valid

original ==
    /\ pc = "original"
    /\ Attempt("original", cloneOf(1), Return, LAMBDA e :
           /\ pc' = IF front = "snapIfNeeded" THEN "snap" ELSE "checkInput"
           /\ orig' = e
           /\ UNCHANGED <<call, saved, scale, ret, thrown>>)

\* An invalid input is reported instead of the exception.
checkInput ==
    /\ pc = "checkInput"
    /\ IF ~check_valid(in[1], TRUE) THEN Throw(Topology("input 1"))
       ELSE IF ~check_valid(in[2], TRUE) THEN Throw(Topology("input 2"))
       ELSE Goto("commonBits")

\* Mutant: an invalid result is tried once more.
commonBits_Again ==
    /\ pc = "commonBits"
    /\ Attempt("commonBits", removeCommonBits(cloneOf(1)),
               LAMBDA g : IF g.valid THEN Return(addCommonBits(g)) ELSE Goto("checkInput"),
               LAMBDA e : Goto("snap"))

\* A result that is invalid once the bits are added back is thrown away.
commonBits ==
    /\ pc = "commonBits"
    /\ Attempt("commonBits", removeCommonBits(cloneOf(1)),
               LAMBDA g : IF g.valid THEN Return(addCommonBits(g)) ELSE Goto("snap"),
               LAMBDA e : Goto("snap"))

\* Mutant: the common bits are not added back to a result of the snapped operands.
SnapOp_Shifted ==
    /\ pc = "snap" /\ front # "snapIfNeeded"
    /\ Attempt("snap", removeCommonBits(cloneOf(1)),
               LAMBDA g : IF g.valid THEN Return(g) ELSE Goto("reduce"),
               LAMBDA e : Goto("reduce"))

\* SnapOp removes common bits too, snaps the first operand to the second and the
\* second to the first as snapped.
SnapOp ==
    /\ pc = "snap" /\ front # "snapIfNeeded"
    /\ Attempt("snap", removeCommonBits(cloneOf(1)),
               LAMBDA g : IF g.valid THEN Return(addCommonBits(g)) ELSE Goto("reduce"),
               LAMBDA e : Goto("reduce"))

\* SnapIfNeededOverlayOp throws the exception of its first attempt again.
snapIfNeeded == Throw(orig)

\* SnapOverlayOp does the same and does not check the result.
SnapOverlayOp ==
    /\ pc = "snap" /\ front = "snapIfNeeded"
    /\ Attempt("snap", removeCommonBits(cloneOf(1)), LAMBDA g : Return(addCommonBits(g)),
               LAMBDA e : snapIfNeeded)

-----------------------------------------------------------------------------
(* Precision reduction.                                                    *)
Least(S) == CHOOSE x \in S : \A y \in S : x <= y

\* Mutant: only the scale of the first operand limits.
maxScale_FirstOnly ==
    IF in[1].pm.scale >= 10 /\ in[1].pm.scale < MaxScale THEN 10 * (in[1].pm.scale \div 10) ELSE MaxScale

\* The scales of the operands, cut to integers: 0 does not limit.
maxScale ==
    Least({MaxScale} \cup {10 * (in[i].pm.scale \div 10) : i \in {j \in 1..2 : in[j].pm.scale >= 10}})

reduceStart ==
    /\ pc = "reduce" /\ scale = NULL
    /\ scale' = [t |-> maxScale, d |-> 1]
    /\ UNCHANGED <<call, pc, orig, saved, ret, thrown>>

nextScale(s) == [s EXCEPT !.d = 10 * @]

isOne(s) == s.t = 10 * s.d

\* The factory of the operand with less precision.
leastPrecise == IF compareTo(in[1].pm, in[2].pm) < 0 THEN 1 ELSE 2

\* Mutant: the exception of scale 1 leaves the call.
reduceRound_ThrowsLast ==
    /\ pc = "reduce" /\ scale # NULL
    /\ IF scale.t < 10 * scale.d THEN Throw(orig)
       ELSE Attempt("reduce", cloneOf(leastPrecise), Return, LAMBDA e :
                   IF isOne(scale) THEN Throw(e)
                   ELSE /\ scale' = nextScale(scale)
                        /\ UNCHANGED <<call, pc, orig, saved, ret, thrown>>)

\* GeometryPrecisionReducer::reduce may fix a polygon with a buffer of width 0, which
\* may throw; the round does not catch that, and a TopologyException of it ends the
\* reduction.
reduceFails == Throw(Other("reduce")) \/ Throw(orig)

\* One round at a scale of at least 1; the exception of scale 1 ends the reduction.
reduceRound ==
    /\ pc = "reduce" /\ scale # NULL
    /\ IF scale.t < 10 * scale.d THEN Throw(orig)
       ELSE \/ reduceFails
            \/ Attempt("reduce", cloneOf(leastPrecise), Return, LAMBDA e :
                   IF isOne(scale) THEN Throw(orig)
                   ELSE /\ scale' = nextScale(scale)
                        /\ UNCHANGED <<call, pc, orig, saved, ret, thrown>>)

-----------------------------------------------------------------------------
\* CommonBitsOp: the overlay with the bits removed, and added to its result.
commonBitsOp(g) == addCommonBits(removeCommonBits(g))

\* EnhancedPrecisionOp has caught any exception of the call above: the overlay is
\* tried once more by CommonBitsOp, which goes through all attempts again, and an
\* invalid result or any exception throws the saved one, as a GEOSException.
enhanced ==
    LET Failed == Throw([type |-> "GEOSException", from |-> saved.from])
    IN  /\ pc = "enhanced"
        /\ \/ Return(commonBitsOp(Geom(1, 0, TRUE)))
           \/ Failed

Next ==
    \/ enter \/ original \/ checkInput \/ commonBits \/ SnapOp \/ SnapOverlayOp
    \/ reduceStart \/ reduceRound \/ enhanced

\* A call runs until it is done: nothing in it waits.
Spec == Init /\ [][Next]_vars /\ WF_vars(Next)

-----------------------------------------------------------------------------
(* A call whose operands are valid and whose attempts all failed throws    *)
(* the exception of the attempt on the original operands, whichever        *)
(* attempt failed last; the TopologyException of an invalid operand names  *)
(* the first one.                                                          *)
ExceptionIsTheOriginal ==
    thrown # NULL /\ thrown.type # "another exception" =>
        thrown.from \in (IF check_valid(in[1], TRUE) /\ check_valid(in[2], TRUE)
                         THEN IF front = "enhanced" THEN {"original", "commonBits", "snap", "reduce"}
                              ELSE {"original"}
                         ELSE IF front = "snapIfNeeded" THEN {"original"}
                         ELSE IF ~check_valid(in[1], TRUE) THEN {"original", "input 1"}
                         ELSE {"original", "input 2"})

(* A result is where its operands are: the common bits removed from them   *)
(* are in it again, and it belongs to the factory of one of them, the less *)
(* precise one after a reduction.                                          *)
ResultBelongsToOperands ==
    ret # NULL =>
        /\ ret.shift = 0
        /\ ret.factory \in {1, 2}
        /\ scale # NULL /\ saved = NULL => \A i \in 1..2 : compareTo(in[ret.factory].pm, in[i].pm) <= 0
        /\ orig # NULL /\ scale = NULL /\ front # "snapIfNeeded" => ret.valid

(* The comment in BinaryOp: "Don't use a scale bigger than the input one". *)
ScaleWithinInput ==
    scale # NULL => \A i \in 1..2 : in[i].pm.type = "FIXED" => scale.t <= in[i].pm.scale * scale.d

(* Every call ends, whatever its attempts do.                              *)
CallEnds == <>(pc = "done")

-----------------------------------------------------------------------------
(* A BufferOp object and the calls of getResultGeometry on it: the buffer  *)
(* is computed at the original precision, then on the grid of a fixed      *)
(* precision model or, for a floating one, with 12 down to 6 significant   *)
(* digits.  Whether an attempt succeeded is told by resultGeometry, which  *)
(* the object keeps between calls.                                         *)
(*                                                                         *)
(* BufferBuilder is left open: it returns the buffer for the distance it   *)
(* is given or throws.  A result is that distance and the digits it was    *)
(* computed with (NULL: all, 0: those of the fixed model); a saved         *)
(* exception is the digits of its attempt and the number of its call.      *)
CONSTANTS Distances, Models,
          MaxCalls,                 \* bound on the calls on one object
          MAX_PRECISION_DIGITS,     \* 12 in the code
          MIN_PRECISION_DIGITS      \* 6 in the code

ASSUME BufferOpAssumption ==
    /\ MIN_PRECISION_DIGITS \in Nat /\ MAX_PRECISION_DIGITS \in Nat
    /\ MIN_PRECISION_DIGITS <= MAX_PRECISION_DIGITS
    /\ MaxCalls \in Nat /\ NULL \notin Distances
    /\ NULL \notin [of : Distances, grid : {NULL} \cup 0..MAX_PRECISION_DIGITS]

VARIABLES argPM,              \* the precision model of argGeom
          distance, resultGeometry, saveException,
          at,                 \* where the call is; precDigits in the loop
          precDigits,
          answer,             \* what the last call gave: a result or an exception
          done                \* the calls completed
bvars == <<argPM, distance, resultGeometry, saveException, at, precDigits, answer, done>>

BufferInit ==
    /\ argPM \in Models
    /\ distance = NULL /\ resultGeometry = NULL /\ saveException = NULL
    /\ at = "idle" /\ precDigits = NULL /\ answer = NULL /\ done = 0

\* getResultGeometry(nDistance)
getResultGeometry(d) ==
    /\ at = "idle" /\ done < MaxCalls
    /\ distance' = d /\ at' = "original" /\ answer' = NULL
    /\ UNCHANGED <<argPM, resultGeometry, saveException, precDigits, done>>

Leaves(a) == at' = "idle" /\ precDigits' = NULL /\ answer' = a /\ done' = done + 1

\* computeGeometry after an attempt: resultGeometry tells whether it succeeded.
computeGeometry ==
    IF resultGeometry' # NULL THEN Leaves([result |-> resultGeometry'])
    ELSE /\ at' = (IF argPM.type = "FIXED" THEN "fixed" ELSE "reduced")
         /\ precDigits' = MAX_PRECISION_DIGITS
         /\ UNCHANGED <<answer, done>>

bufferOriginalPrecision ==
    /\ at = "original"
    /\ \/ resultGeometry' = [of |-> distance, grid |-> NULL] /\ UNCHANGED saveException
       \/ saveException' = <<NULL, done>> /\ UNCHANGED resultGeometry
    /\ computeGeometry
    /\ UNCHANGED <<argPM, distance>>

\* A non-topology exception of any attempt leaves the call.
escape ==
    /\ at # "idle"
    /\ Leaves([exception |-> NULL])
    /\ UNCHANGED <<argPM, distance, resultGeometry, saveException>>

\* With a fixed model the exception of the second attempt is not caught.
bufferFixedPrecision ==
    /\ at = "fixed"
    /\ \/ /\ resultGeometry' = [of |-> distance, grid |-> 0]
          /\ Leaves([result |-> resultGeometry'])
       \/ /\ Leaves([exception |-> <<0, done>>]) /\ UNCHANGED resultGeometry
    /\ UNCHANGED <<argPM, distance, saveException>>

\* Mutant: the last exception is kept and nothing is thrown.
loopEnd_Silent(n) == IF n = MIN_PRECISION_DIGITS THEN Leaves([result |-> NULL])
                     ELSE at' = at /\ precDigits' = n - 1 /\ UNCHANGED <<answer, done>>

\* The round of n digits failed.
loopEnd(n) == IF n = MIN_PRECISION_DIGITS THEN Leaves([exception |-> saveException'])
              ELSE at' = at /\ precDigits' = n - 1 /\ UNCHANGED <<answer, done>>

bufferReducedPrecision ==
    /\ at = "reduced"
    /\ \/ /\ resultGeometry' = [of |-> distance, grid |-> precDigits]
          /\ Leaves([result |-> resultGeometry']) /\ UNCHANGED saveException
       \/ /\ saveException' = <<precDigits, done>>
          /\ loopEnd(precDigits) /\ UNCHANGED resultGeometry
    /\ UNCHANGED <<argPM, distance>>

BufferNext ==
    \/ \E d \in Distances : getResultGeometry(d)
    \/ bufferOriginalPrecision \/ bufferFixedPrecision \/ bufferReducedPrecision \/ escape

-----------------------------------------------------------------------------
(* A call that returns gives the buffer of the distance asked for (the     *)
(* class comment of BufferOp: "Returns the buffer computed for a geometry  *)
(* for a given buffer distance").                                          *)
BufferAnswersTheCall ==
    answer # NULL /\ "result" \in DOMAIN answer =>
        answer.result # NULL /\ answer.result.of = distance
=============================================================================
