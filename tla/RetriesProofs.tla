--------------------------- MODULE RetriesProofs ---------------------------
(***************************************************************************)
(* Whatever the attempts of an overlay or of a buffer do, for any operands *)
(* and any bounds on scale and digits: what a call that failed throws, and *)
(* what one that succeeded gives.                                          *)
(***************************************************************************)
EXTENDS Retries, Listings

\* What BinaryOp reads of a geometry and of its precision model.
PrecisionModels == [type : {"FLOATING", "FLOATING_SINGLE", "FIXED"}, scale : Nat]
Shape == [empty : BOOLEAN, lineal : BOOLEAN, valid : BOOLEAN, pm : PrecisionModels]
OperandsAreShapes == Operands \subseteq Shape \X Shape

-----------------------------------------------------------------------------
(* The exception that leaves a call.                                       *)

\* What a call may report: the attempts that may throw and, for an invalid operand,
\* the check that found it.
Reports ==
    IF check_valid(in[1], TRUE) /\ check_valid(in[2], TRUE)
    THEN {"original", "commonBits", "snap", "reduce"}
    ELSE IF ~check_valid(in[1], TRUE) THEN {"original", "input 1"} ELSE {"original", "input 2"}

\* From the first failure to the end of a call its exception is the one of the
\* original operands; past the check of the input both are valid.
ExceptionInv ==
    /\ pc \in {"checkInput", "commonBits", "reduce"} => front # "snapIfNeeded"
    /\ pc \in {"checkInput", "commonBits", "snap", "reduce"} => orig = Topology("original")
    /\ pc \in {"commonBits", "snap", "reduce"} =>
           front = "snapIfNeeded" \/ (check_valid(in[1], TRUE) /\ check_valid(in[2], TRUE))
    /\ pc = "enhanced" => front = "enhanced" /\ saved.from \in Reports
    /\ ExceptionIsTheOriginal

ValidInput == check_valid(in[1], TRUE) /\ check_valid(in[2], TRUE)

\* The call goes on with another attempt, or is done.
GoesOn ==
    /\ UNCHANGED <<call, saved, thrown>>
    /\ \/ pc' \in {"original", "done"}
       \/ /\ pc' \in {"checkInput", "commonBits", "snap", "reduce"}
          /\ orig' = Topology("original")
          /\ front = "snapIfNeeded" => pc' = "snap"
          /\ pc' = "checkInput" \/ front = "snapIfNeeded" \/ ValidInput

LEMMA GoingOnKeeps == ASSUME ExceptionInv, GoesOn PROVE ExceptionInv'
BY DEF ExceptionInv, GoesOn, ValidInput, ExceptionIsTheOriginal, Reports, check_valid, call

LEMMA ThrowingKeeps ==
    ASSUME ExceptionInv, NEW e, Throw(e), e.from \in Reports,
           e.type = "another exception" \/ e.from = "original" \/
               (front # "snapIfNeeded" /\ e.from \in {"input 1", "input 2"}) \/ front = "enhanced"
    PROVE  ExceptionInv'
<1> USE DEF ExceptionInv, ExceptionIsTheOriginal, Reports, check_valid, call
<1>1. CASE front = "enhanced" /\ saved = NULL
  BY <1>1 DEF Throw
<1>2. CASE ~(front = "enhanced" /\ saved = NULL)
  BY <1>2 DEF Throw
<1> QED
  BY <1>1, <1>2

\* An attempt: a step that goes on, another exception of that attempt, or the
\* original one.
LEMMA AttemptKeeps ==
    ASSUME ExceptionInv, NEW k \in Reports,
           GoesOn \/ Throw(Other(k)) \/ (Throw(orig) /\ orig = Topology("original"))
    PROVE  ExceptionInv'
<1>1. CASE GoesOn
  BY <1>1, GoingOnKeeps
<1>2. CASE Throw(Other(k))
  BY <1>2, ThrowingKeeps DEF Other
<1>3. CASE Throw(orig) /\ orig = Topology("original")
  BY <1>3, ThrowingKeeps DEF Topology, Reports
<1> QED
  BY <1>1, <1>2, <1>3

LEMMA ExceptionInvHolds == Spec => []ExceptionInv
<1>1. Init => ExceptionInv
  BY DEF Init, ExceptionInv, ExceptionIsTheOriginal
<1>2. ExceptionInv /\ [Next]_vars => ExceptionInv'
  <2> SUFFICES ASSUME ExceptionInv, [Next]_vars PROVE ExceptionInv'
    OBVIOUS
  <2> DEFINE Step(k) == GoesOn \/ Throw(Other(k)) \/ (Throw(orig) /\ orig = Topology("original"))
  <2>0. "original" \in Reports /\ (ValidInput => {"commonBits", "snap", "reduce"} \subseteq Reports)
    BY DEF Reports, ValidInput
  <2> USE DEF GoesOn, Return, Goto
  <2>1. CASE enter
    BY <2>0, <2>1, AttemptKeeps DEF enter
  <2>2. CASE original
    <3>1. Step("original")
      BY <2>2 DEF original, Attempt, call
    <3> QED
      BY <2>0, <3>1, AttemptKeeps
  <2>3. CASE checkInput
    <3>0. orig = Topology("original") /\ front # "snapIfNeeded"
      BY <2>3 DEF checkInput, ExceptionInv
    <3>1. CASE ~check_valid(in[1], TRUE)
      BY <2>3, <3>0, <3>1, ThrowingKeeps DEF checkInput, Topology, Reports
    <3>2. CASE check_valid(in[1], TRUE) /\ ~check_valid(in[2], TRUE)
      BY <2>3, <3>0, <3>2, ThrowingKeeps DEF checkInput, Topology, Reports
    <3>3. CASE ValidInput
      BY <2>0, <2>3, <3>0, <3>3, AttemptKeeps DEF checkInput, ValidInput
    <3> QED
      BY <3>1, <3>2, <3>3 DEF ValidInput
  <2>4. CASE commonBits
    <3>0. orig = Topology("original") /\ front # "snapIfNeeded" /\ ValidInput
      BY <2>4 DEF commonBits, ExceptionInv, ValidInput
    <3>1. Step("commonBits")
      BY <2>4, <3>0 DEF commonBits, Attempt
    <3> QED
      BY <2>0, <3>0, <3>1, AttemptKeeps
  <2>5. CASE SnapOp
    <3>0. orig = Topology("original") /\ front # "snapIfNeeded" /\ ValidInput
      BY <2>5 DEF SnapOp, ExceptionInv, ValidInput
    <3>1. Step("snap")
      BY <2>5, <3>0 DEF SnapOp, Attempt
    <3> QED
      BY <2>0, <3>0, <3>1, AttemptKeeps
  <2>6. CASE SnapOverlayOp
    <3>0. orig = Topology("original") /\ front = "snapIfNeeded"
      BY <2>6 DEF SnapOverlayOp, ExceptionInv
    <3>1. GoesOn \/ Throw(Other("snap")) \/ Throw(orig)
      BY <2>6 DEF SnapOverlayOp, Attempt, snapIfNeeded
    <3>2. CASE Throw(Other("snap"))
      <4>1. pc' = "done" /\ thrown'.type = "another exception"
        <5>1. front # "enhanced"
          BY <3>0
        <5>2. pc' = "done" /\ thrown' = Other("snap")
          BY <3>2, <5>1 DEF Throw
        <5> QED
          BY <5>2 DEF Other
      <4> QED
        BY <4>1 DEF ExceptionInv, ExceptionIsTheOriginal
    <3> QED
      BY <2>0, <3>0, <3>1, <3>2, AttemptKeeps
  <2>7. CASE reduceStart
    BY <2>7 DEF reduceStart, ExceptionInv, ExceptionIsTheOriginal, Reports, check_valid, call
  <2>8. CASE reduceRound
    <3>0. orig = Topology("original") /\ front # "snapIfNeeded" /\ ValidInput
      BY <2>8 DEF reduceRound, ExceptionInv, ValidInput
    <3>1. Step("reduce")
      BY <2>8, <3>0 DEF reduceRound, reduceFails, Attempt
    <3> QED
      BY <2>0, <3>0, <3>1, AttemptKeeps
  <2>9. CASE enhanced
    <3>0. front = "enhanced" /\ saved.from \in Reports
      BY <2>9 DEF enhanced, ExceptionInv
    <3>1. CASE GoesOn
      BY <3>1, GoingOnKeeps
    <3>2. CASE Throw([type |-> "GEOSException", from |-> saved.from])
      BY <3>0, <3>2, ThrowingKeeps
    <3> QED
      BY <2>9, <3>1, <3>2 DEF enhanced
  <2>10. CASE UNCHANGED vars
    BY <2>10 DEF vars, ExceptionInv, ExceptionIsTheOriginal, Reports, check_valid
  <2> QED
    BY <2>1, <2>2, <2>3, <2>4, <2>5, <2>6, <2>7, <2>8, <2>9, <2>10 DEF Next
<1> QED
  BY <1>1, <1>2, PTL DEF Spec

\* A call whose operands are valid throws the TopologyException of its first attempt,
\* however the later ones fail; an invalid operand is named (BinaryOp.h,
\* SnapIfNeededOverlayOp.cpp, EnhancedPrecisionOp.cpp).
THEOREM FirstExceptionIsThrown == Spec => []ExceptionIsTheOriginal
<1>1. ExceptionInv => ExceptionIsTheOriginal
  BY DEF ExceptionInv
<1> QED
  BY <1>1, ExceptionInvHolds, PTL

-----------------------------------------------------------------------------
(* The result of a call.                                                   *)

LEMMA DigitsAreIntegers ==
    ASSUME NEW m \in PrecisionModels PROVE getMaximumSignificantDigits(m) \in Int
<1> DEFINE K == {k \in 1..MaxDigits : 10^k < m.scale}
<1>1. IsFiniteSet(1..MaxDigits)
  <2>1. MaxDigits \in Int
    BY DEF MaxDigits
  <2> QED
    BY <2>1, FS_Interval
<1>2. Cardinality(K) \in Nat
  BY <1>1, FS_Subset, FS_CardinalityType
<1> QED
  BY <1>2 DEF getMaximumSignificantDigits

\* The factory a reduced result belongs to is that of the operand with less precision.
LEMMA LeastPreciseIsLeast ==
    ASSUME in \in Shape \X Shape
    PROVE  /\ leastPrecise \in {1, 2}
           /\ \A i \in 1..2 : compareTo(in[leastPrecise].pm, in[i].pm) <= 0
<1>1. getMaximumSignificantDigits(in[1].pm) \in Int /\ getMaximumSignificantDigits(in[2].pm) \in Int
  BY DigitsAreIntegers DEF Shape
<1> QED
  BY <1>1 DEF leastPrecise, compareTo

ResultInv ==
    /\ in \in Shape \X Shape
    /\ common \in Int
    /\ ret # NULL => pc = "done"
    /\ pc \in {"front", "original"} => orig = NULL
    /\ pc \in {"front", "original", "checkInput", "commonBits", "snap"} => scale = NULL
    /\ pc = "enhanced" => saved # NULL
    /\ ResultBelongsToOperands

\* A result of an attempt, before it is handed back.
Belongs(r) ==
    /\ r.shift = 0 /\ r.factory \in {1, 2}
    /\ scale # NULL /\ saved = NULL => \A i \in 1..2 : compareTo(in[r.factory].pm, in[i].pm) <= 0
    /\ orig # NULL /\ scale = NULL /\ front # "snapIfNeeded" => r.valid

LEMMA ReturningKeeps == ASSUME ResultInv, NEW r, Return(r), Belongs(r) PROVE ResultInv'
<1>1. ret' = r /\ pc' = "done" /\ UNCHANGED <<in, common, front, orig, saved, scale>>
  BY DEF Return, call
<1>2. ResultBelongsToOperands'
  BY <1>1 DEF Belongs, ResultBelongsToOperands, compareTo, getMaximumSignificantDigits
<1> QED
  BY <1>1, <1>2 DEF ResultInv

LEMMA NotReturningKeeps ==
    ASSUME ResultInv, ret = NULL, ret' = NULL, UNCHANGED call,
           pc' \in {"original"} => UNCHANGED orig /\ pc = "front",
           pc' # "front",
           pc' \in {"original", "checkInput", "commonBits", "snap"} =>
               UNCHANGED scale /\ pc \in {"front", "original", "checkInput", "commonBits", "snap"},
           pc' = "enhanced" => saved' # NULL
    PROVE  ResultInv'
BY DEF ResultInv, ResultBelongsToOperands, call

\* An attempt's result is in the frame of the operands again once its common bits are
\* added back.
LEMMA FramesOfResults ==
    ASSUME common \in Int, NEW f, NEW v, NEW b
    PROVE  /\ [cloneOf(f) EXCEPT !.valid = v] = Geom(f, 0, v)
           /\ addCommonBits([removeCommonBits(cloneOf(f)) EXCEPT !.valid = v]) = Geom(f, 0, v)
           /\ commonBitsOp(Geom(f, 0, b)) = Geom(f, 0, b)
<1>a. \A x : removeCommonBits(Geom(f, 0, x)) = Geom(f, 0 - common, x)
  BY DEF Geom, removeCommonBits
<1>b. \A x : addCommonBits(Geom(f, 0 - common, x)) = Geom(f, (0 - common) + common, x)
  BY DEF Geom, addCommonBits
<1>c. (0 - common) + common = 0
  OBVIOUS
<1>d. \A x, w : [Geom(f, 0 - common, x) EXCEPT !.valid = w] = Geom(f, 0 - common, w)
  BY DEF Geom
<1>1. \A x, w : addCommonBits([removeCommonBits(Geom(f, 0, x)) EXCEPT !.valid = w]) = Geom(f, 0, w)
  BY <1>a, <1>b, <1>c, <1>d
<1>2. addCommonBits(removeCommonBits(Geom(f, 0, b))) = Geom(f, 0, b)
  BY <1>a, <1>b, <1>c
<1>3. cloneOf(f) = Geom(f, 0, in[f].valid)
  BY DEF cloneOf
<1>4. [cloneOf(f) EXCEPT !.valid = v] = Geom(f, 0, v)
  BY DEF cloneOf, Geom
<1> QED
  BY <1>1, <1>2, <1>3, <1>4 DEF commonBitsOp

\* An attempt's result is returned or thrown away, an exception handled or thrown.
LEMMA ResultInvKept == ResultInv /\ ExceptionInv /\ [Next]_vars => ResultInv'
<1> SUFFICES ASSUME ResultInv, ExceptionInv, [Next]_vars PROVE ResultInv'
  OBVIOUS
<1> USE DEF Goto
<1>a. ASSUME ret = NULL, pc # "enhanced", NEW e, e # NULL, Throw(e) PROVE ResultInv'
  <2>1. UNCHANGED call /\ UNCHANGED orig /\ ret' = NULL /\ (pc' = "done" \/ (pc' = "enhanced" /\ saved' # NULL))
    BY <1>a DEF Throw
  <2> QED
    BY <1>a, <2>1, NotReturningKeeps
<1>b. \A k \in Sources : Topology(k) # NULL /\ Other(k) # NULL
  <2>1. ASSUME NEW k \in Sources, NEW t \in Types PROVE [type |-> t, from |-> k] # NULL
    <3>1. [type |-> t, from |-> k] \in [type : Types, from : Sources]
      OBVIOUS
    <3> QED
      BY <3>1, NullAssumption
  <2> QED
    BY <2>1 DEF Topology, Other, Types
<1>c. {"original", "input 1", "input 2", "commonBits", "snap", "reduce"} \subseteq Sources
  BY DEF Sources
<1>1. CASE enter
  <2>1. CASE front # "snapIfNeeded" /\ shortcut # NULL
    <3>1. Return(shortcut)
      BY <1>1, <2>1 DEF enter
    <3>2. shortcut.shift = 0 /\ shortcut.factory \in {1, 2}
      BY <2>1 DEF shortcut, Geom, cloneOf
    <3>3. Belongs(shortcut)
      BY <1>1, <3>2 DEF Belongs, ResultInv, enter
    <3> QED
      BY <3>1, <3>3, ReturningKeeps
  <2>2. CASE ~(front # "snapIfNeeded" /\ shortcut # NULL)
    <3>1. pc = "front" /\ ret = NULL
      BY <1>1 DEF enter, ResultInv
    <3> QED
      BY <1>1, <2>2, <3>1, NotReturningKeeps DEF enter
  <2> QED
    BY <2>1, <2>2
<1>2. CASE original
  <2>0. pc = "original" /\ ret = NULL /\ orig = NULL /\ scale = NULL
    BY <1>2 DEF original, ResultInv
  <2>1. ASSUME NEW v \in BOOLEAN, Return([cloneOf(1) EXCEPT !.valid = v]) PROVE ResultInv'
    <3>1. Belongs(Geom(1, 0, v))
      BY <2>0 DEF Belongs, Geom
    <3> QED
      BY <2>1, <3>1, FramesOfResults, ReturningKeeps DEF ResultInv
  <2>2. ASSUME pc' = (IF front = "snapIfNeeded" THEN "snap" ELSE "checkInput"),
               UNCHANGED <<call, saved, scale, ret, thrown>>
        PROVE  ResultInv'
    BY <2>0, <2>2, NotReturningKeeps
  <2>3. \/ \E v \in BOOLEAN : Return([cloneOf(1) EXCEPT !.valid = v])
        \/ /\ pc' = IF front = "snapIfNeeded" THEN "snap" ELSE "checkInput"
           /\ UNCHANGED <<call, saved, scale, ret, thrown>>
        \/ Throw(Other("original"))
    BY <1>2 DEF original, Attempt
  <2> QED
    BY <1>a, <1>b, <1>c, <2>0, <2>1, <2>2, <2>3
<1>3. CASE checkInput
  <2>0. pc = "checkInput" /\ ret = NULL
    BY <1>3 DEF checkInput, ResultInv
  <2>1. ASSUME Goto("commonBits") PROVE ResultInv'
    BY <2>0, <2>1, NotReturningKeeps
  <2> QED
    BY <1>3, <1>a, <1>b, <1>c, <2>0, <2>1 DEF checkInput
<1>4. CASE commonBits
  <2>0. pc = "commonBits" /\ ret = NULL
    BY <1>4 DEF commonBits, ResultInv
  <2> DEFINE r(v) == [removeCommonBits(cloneOf(1)) EXCEPT !.valid = v]
  <2>1. ASSUME NEW v \in BOOLEAN, r(v).valid, Return(addCommonBits(r(v))) PROVE ResultInv'
    <3>1. Belongs(Geom(1, 0, TRUE)) /\ v = TRUE
      BY <2>0, <2>1 DEF Belongs, Geom, ResultInv, removeCommonBits, cloneOf
    <3> QED
      BY <2>1, <3>1, FramesOfResults, ReturningKeeps DEF ResultInv
  <2>2. ASSUME Goto("snap") PROVE ResultInv'
    BY <2>0, <2>2, NotReturningKeeps
  <2>3. \/ \E v \in BOOLEAN : IF r(v).valid THEN Return(addCommonBits(r(v))) ELSE Goto("snap")
        \/ Goto("snap")
        \/ Throw(Other("commonBits"))
    BY <1>4 DEF commonBits, Attempt
  <2> QED
    BY <1>a, <1>b, <1>c, <2>0, <2>1, <2>2, <2>3
<1>5. CASE SnapOp
  <2>0. pc = "snap" /\ ret = NULL
    BY <1>5 DEF SnapOp, ResultInv
  <2> DEFINE r(v) == [removeCommonBits(cloneOf(1)) EXCEPT !.valid = v]
  <2>1. ASSUME NEW v \in BOOLEAN, r(v).valid, Return(addCommonBits(r(v))) PROVE ResultInv'
    <3>1. Belongs(Geom(1, 0, TRUE)) /\ v = TRUE
      BY <2>0, <2>1 DEF Belongs, Geom, ResultInv, removeCommonBits, cloneOf
    <3> QED
      BY <2>1, <3>1, FramesOfResults, ReturningKeeps DEF ResultInv
  <2>2. ASSUME Goto("reduce") PROVE ResultInv'
    BY <2>0, <2>2, NotReturningKeeps
  <2>3. \/ \E v \in BOOLEAN : IF r(v).valid THEN Return(addCommonBits(r(v))) ELSE Goto("reduce")
        \/ Goto("reduce")
        \/ Throw(Other("snap"))
    BY <1>5 DEF SnapOp, Attempt
  <2> QED
    BY <1>a, <1>b, <1>c, <2>0, <2>1, <2>2, <2>3
<1>6. CASE SnapOverlayOp
  <2>0. pc = "snap" /\ front = "snapIfNeeded" /\ ret = NULL /\ scale = NULL /\ orig = Topology("original")
    BY <1>6 DEF SnapOverlayOp, ResultInv, ExceptionInv
  <2> DEFINE r(v) == [removeCommonBits(cloneOf(1)) EXCEPT !.valid = v]
  <2>1. ASSUME NEW v \in BOOLEAN, Return(addCommonBits(r(v))) PROVE ResultInv'
    <3>1. Belongs(Geom(1, 0, v))
      BY <2>0 DEF Belongs, Geom
    <3> QED
      BY <2>1, <3>1, FramesOfResults, ReturningKeeps DEF ResultInv
  <2>2. \/ \E v \in BOOLEAN : Return(addCommonBits(r(v)))
        \/ Throw(orig)
        \/ Throw(Other("snap"))
    BY <1>6 DEF SnapOverlayOp, Attempt, snapIfNeeded
  <2> QED
    BY <1>a, <1>b, <1>c, <2>0, <2>1, <2>2
<1>7. CASE reduceStart
  <2>0. pc = "reduce" /\ ret = NULL
    BY <1>7 DEF reduceStart, ResultInv
  <2> QED
    BY <1>7, <2>0, NotReturningKeeps DEF reduceStart
<1>8. CASE reduceRound
  <2>0. pc = "reduce" /\ ret = NULL /\ scale # NULL /\ orig = Topology("original")
    BY <1>8 DEF reduceRound, ResultInv, ExceptionInv
  <2>1. ASSUME NEW v \in BOOLEAN, Return([cloneOf(leastPrecise) EXCEPT !.valid = v]) PROVE ResultInv'
    <3>1. Belongs(Geom(leastPrecise, 0, v))
      BY <2>0, LeastPreciseIsLeast DEF Belongs, Geom, ResultInv
    <3> QED
      BY <2>1, <3>1, FramesOfResults, ReturningKeeps DEF ResultInv
  <2>2. ASSUME scale' = nextScale(scale), UNCHANGED <<call, pc, orig, saved, ret, thrown>> PROVE ResultInv'
    BY <2>0, <2>2, NotReturningKeeps
  <2>3. ASSUME NEW e \in {Other("reduce"), orig}, Throw(e) PROVE ResultInv'
    BY <1>a, <1>b, <1>c, <2>0, <2>3
  <2> QED
    BY <1>8, <2>1, <2>2, <2>3 DEF reduceRound, reduceFails, Attempt
<1>9. CASE enhanced
  <2>0. pc = "enhanced" /\ ret = NULL /\ saved # NULL
    BY <1>9 DEF enhanced, ResultInv
  <2>1. ASSUME Return(commonBitsOp(Geom(1, 0, TRUE))) PROVE ResultInv'
    <3>1. Belongs(Geom(1, 0, TRUE))
      BY <2>0 DEF Belongs, Geom
    <3> QED
      BY <2>1, <3>1, FramesOfResults, ReturningKeeps DEF ResultInv
  <2>2. ASSUME NEW e, Throw(e) PROVE ResultInv'
    BY <2>0, <2>2, NotReturningKeeps DEF Throw
  <2> QED
    BY <1>9, <2>1, <2>2 DEF enhanced
<1>10. CASE UNCHANGED vars
  <2>1. UNCHANGED <<in, common, front, orig, saved, scale, ret, pc>>
    BY <1>10 DEF vars
  <2>2. ResultBelongsToOperands'
    BY <2>1 DEF ResultInv, ResultBelongsToOperands, compareTo, getMaximumSignificantDigits
  <2> QED
    BY <2>1, <2>2 DEF ResultInv
<1> QED
  BY <1>1, <1>2, <1>3, <1>4, <1>5, <1>6, <1>7, <1>8, <1>9, <1>10 DEF Next

\* A result is where its operands are, belongs to the less precise of their factories
\* after a reduction, and is valid after a failed first attempt (BinaryOp.h,
\* CommonBitsOp.cpp, SnapOverlayOp.cpp).
THEOREM ResultsBelong == ASSUME OperandsAreShapes PROVE Spec => []ResultBelongsToOperands
<1>1. Init => ResultInv
  BY OperandsAreShapes DEF OperandsAreShapes, Init, ResultInv, ResultBelongsToOperands
<1>2. ResultInv => ResultBelongsToOperands
  BY DEF ResultInv
<1> QED
  BY <1>1, <1>2, ResultInvKept, ExceptionInvHolds, PTL DEF Spec

-----------------------------------------------------------------------------
(* The scale of the precision reduction.                                   *)

\* The reduction starts no finer than an operand that limits it.
LEMMA MaxScaleIsWithin ==
    ASSUME in \in Shape \X Shape
    PROVE  /\ maxScale \in Nat
           /\ \A i \in 1..2 : in[i].pm.scale >= 10 => maxScale <= in[i].pm.scale
<1> DEFINE J == {j \in 1..2 : in[j].pm.scale >= 10}
           T == {MaxScale} \cup {10 * (in[i].pm.scale \div 10) : i \in J}
<1>0. \A i \in 1..2 : in[i].pm.scale \in Nat
  BY DEF Shape, PrecisionModels
<1>1. \A i \in 1..2 : 10 * (in[i].pm.scale \div 10) \in Nat /\ 10 * (in[i].pm.scale \div 10) <= in[i].pm.scale
  BY <1>0
<1>2. T \in SUBSET Nat /\ T # {}
  BY <1>1, BinaryOpAssumption
<1>3. \E x \in T : \A y \in T : x <= y
  <2> HIDE DEF T
  <2> QED
    BY <1>2, LeastOfNaturals
<1>4. maxScale \in T /\ \A y \in T : maxScale <= y
  BY <1>3 DEF maxScale, Least
<1>5. ASSUME NEW i \in 1..2, in[i].pm.scale >= 10 PROVE maxScale <= in[i].pm.scale
  <2>1. 10 * (in[i].pm.scale \div 10) \in T
    BY <1>5
  <2>2. maxScale <= 10 * (in[i].pm.scale \div 10)
    BY <1>4, <2>1
  <2>3. maxScale \in Nat
    BY <1>2, <1>4
  <2> HIDE DEF T
  <2> QED
    BY <1>0, <1>1, <2>2, <2>3
<1> QED
  BY <1>2, <1>4, <1>5

\* A fixed grid has at least a point in every unit.
UnitGrids == \A i \in 1..2 : in[i].pm.type = "FIXED" => in[i].pm.scale >= 10

ScaleInv ==
    /\ in \in Shape \X Shape /\ UnitGrids
    /\ scale # NULL => scale.t = maxScale /\ scale.d \in Nat \ {0} /\ scale = [t |-> scale.t, d |-> scale.d]

LEMMA ScaleInvKept == ScaleInv /\ [Next]_vars => ScaleInv'
<1> SUFFICES ASSUME ScaleInv, [Next]_vars PROVE ScaleInv'
  OBVIOUS
<1>1. ASSUME UNCHANGED <<in, scale>> PROVE ScaleInv'
  BY <1>1 DEF ScaleInv, UnitGrids, maxScale, Least
<1>2. CASE reduceStart
  BY <1>2 DEF reduceStart, ScaleInv, UnitGrids, maxScale, Least, call
<1>3. ASSUME UNCHANGED in, scale # NULL, scale' = nextScale(scale) PROVE ScaleInv'
  BY <1>3 DEF ScaleInv, UnitGrids, maxScale, Least, nextScale
<1>4. CASE reduceRound
  <2>1. UNCHANGED <<in, scale>> \/ (UNCHANGED in /\ scale # NULL /\ scale' = nextScale(scale))
    BY <1>4 DEF reduceRound, reduceFails, Attempt, Throw, Return, call
  <2> QED
    BY <1>1, <1>3, <2>1
<1>5. CASE enter \/ checkInput \/ enhanced \/ UNCHANGED vars
  BY <1>1, <1>5 DEF enter, checkInput, enhanced, Return, Goto, Throw, call, vars
<1>6. CASE original \/ commonBits \/ SnapOp \/ SnapOverlayOp
  BY <1>1, <1>6 DEF original, commonBits, SnapOp, SnapOverlayOp, snapIfNeeded, Attempt, Return, Goto, Throw, call
<1> QED
  BY <1>2, <1>4, <1>5, <1>6 DEF Next

\* No attempt is made at a scale finer than that of an operand on a grid
\* (BinaryOp.h: "Don't use a scale bigger than the input one"), if no grid is coarser
\* than a unit: the code takes the scale of such an operand for none.
THEOREM ScaleStaysWithin ==
    ASSUME OperandsAreShapes,
           \A o \in Operands : \A i \in 1..2 : o[i].pm.type = "FIXED" => o[i].pm.scale >= 10
    PROVE  Spec => []ScaleWithinInput
<1>1. Init => ScaleInv
  BY OperandsAreShapes DEF OperandsAreShapes, Init, ScaleInv, UnitGrids
<1>2. ScaleInv => ScaleWithinInput
  <2> SUFFICES ASSUME ScaleInv, scale # NULL, NEW i \in 1..2, in[i].pm.type = "FIXED"
               PROVE  scale.t <= in[i].pm.scale * scale.d
    BY DEF ScaleWithinInput
  <2>1. scale.t \in Nat /\ scale.d \in Nat \ {0} /\ in[i].pm.scale \in Nat /\ scale.t <= in[i].pm.scale
    BY MaxScaleIsWithin DEF ScaleInv, UnitGrids, Shape, PrecisionModels
  <2>2. \A a \in Nat, d \in Nat \ {0} : a <= a * d
    OBVIOUS
  <2>3. in[i].pm.scale * scale.d \in Nat /\ in[i].pm.scale <= in[i].pm.scale * scale.d
    BY <2>1, <2>2
  <2> QED
    BY <2>1, <2>3
<1> QED
  BY <1>1, <1>2, ScaleInvKept, PTL DEF Spec

-----------------------------------------------------------------------------
(* The buffer of a call.                                                   *)

BufferSpec == BufferInit /\ [][BufferNext]_bvars

\* The result of an object is a buffer of some call; that of its first call is its own.
BufferInv ==
    /\ done \in 0..MaxCalls /\ (at # "idle" => done < MaxCalls)
    /\ resultGeometry # NULL => resultGeometry.of \in Distances
    /\ at # "idle" => distance \in Distances
    /\ at = "reduced" => precDigits \in MIN_PRECISION_DIGITS..MAX_PRECISION_DIGITS
    /\ done = 0 => resultGeometry = NULL
    /\ answer # NULL /\ "result" \in DOMAIN answer => answer.result # NULL /\ answer.result.of \in Distances
    /\ done <= 1 => BufferAnswersTheCall

\* A buffer is not NULL, which stands for none.
LEMMA BuffersAreNotNull ==
    ASSUME NEW d \in Distances, NEW g \in {NULL} \cup 0..MAX_PRECISION_DIGITS
    PROVE  [of |-> d, grid |-> g] # NULL
<1>1. [of |-> d, grid |-> g] \in [of : Distances, grid : {NULL} \cup 0..MAX_PRECISION_DIGITS]
  OBVIOUS
<1> QED
  BY <1>1, BufferOpAssumption

LEMMA BufferInvKept == BufferInv /\ [BufferNext]_bvars => BufferInv'
<1> SUFFICES ASSUME BufferInv, [BufferNext]_bvars PROVE BufferInv'
  OBVIOUS
<1> USE DEF BufferInv, BufferAnswersTheCall
<1>1. ASSUME NEW d \in Distances, getResultGeometry(d) PROVE BufferInv'
  BY <1>1 DEF getResultGeometry
<1>2. ASSUME NEW g \in {NULL} \cup 0..MAX_PRECISION_DIGITS, at # "idle", UNCHANGED distance,
             resultGeometry' = [of |-> distance, grid |-> g], Leaves([result |-> resultGeometry'])
      PROVE  BufferInv'
  <2>1. resultGeometry' # NULL /\ resultGeometry'.of = distance /\ distance \in Distances
    BY <1>2, BuffersAreNotNull
  <2>2. answer'.result = resultGeometry' /\ done' = done + 1 /\ at' = "idle"
    BY <1>2 DEF Leaves
  <2>3. done' \in 1..MaxCalls
    BY <1>2, <2>2, BufferOpAssumption
  <2> QED
    <3>1. answer'.result # NULL /\ answer'.result.of = distance' /\ distance \in Distances
      BY <1>2, <2>1, <2>2
    <3>2. BufferAnswersTheCall'
      BY <3>1
    <3> QED
      BY <1>2, <2>1, <2>2, <2>3, <3>1, <3>2
<1>3. ASSUME NEW e, at # "idle", Leaves([exception |-> e]), UNCHANGED <<distance, resultGeometry>> PROVE BufferInv'
  <2>1. "result" \notin DOMAIN answer' /\ done' = done + 1 /\ at' = "idle"
    BY <1>3 DEF Leaves
  <2>2. done' \in 1..MaxCalls
    BY <1>3, <2>1, BufferOpAssumption
  <2> QED
    BY <1>3, <2>1, <2>2
<1>4. CASE bufferOriginalPrecision
  <2>0. at = "original" /\ UNCHANGED distance /\ computeGeometry
    BY <1>4 DEF bufferOriginalPrecision
  <2>1. CASE resultGeometry' = [of |-> distance, grid |-> NULL]
    <3>1. resultGeometry' # NULL
      BY <2>0, <2>1, BuffersAreNotNull
    <3> QED
      BY <1>2, <2>0, <2>1, <3>1 DEF computeGeometry
  <2>2. CASE UNCHANGED resultGeometry /\ resultGeometry = NULL
    BY <2>0, <2>2, BufferOpAssumption DEF computeGeometry
  <2>3. CASE UNCHANGED resultGeometry /\ resultGeometry # NULL
    <3>1. Leaves([result |-> resultGeometry]) /\ done > 0
      BY <2>0, <2>3 DEF computeGeometry
    <3>2. answer'.result = resultGeometry /\ done' = done + 1 /\ at' = "idle"
      BY <3>1 DEF Leaves
    <3>3. done' \in 2..MaxCalls
      BY <2>0, <3>1, <3>2, BufferOpAssumption
    <3> QED
      BY <2>0, <2>3, <3>2, <3>3
  <2> QED
    BY <1>4, <2>1, <2>2, <2>3 DEF bufferOriginalPrecision
<1>5. CASE escape
  <2>1. at # "idle" /\ Leaves([exception |-> NULL]) /\ UNCHANGED <<distance, resultGeometry>>
    BY <1>5 DEF escape
  <2> QED
    BY <1>3, <2>1
<1>6. CASE bufferFixedPrecision
  <2>1. at # "idle" /\ UNCHANGED distance /\ 0 \in {NULL} \cup 0..MAX_PRECISION_DIGITS
    BY <1>6, BufferOpAssumption DEF bufferFixedPrecision
  <2> QED
    BY <1>2, <1>3, <1>6, <2>1 DEF bufferFixedPrecision
<1>7. CASE bufferReducedPrecision
  <2>0. at = "reduced" /\ UNCHANGED distance /\ precDigits \in MIN_PRECISION_DIGITS..MAX_PRECISION_DIGITS
    BY <1>7 DEF bufferReducedPrecision
  <2>1. CASE resultGeometry' = [of |-> distance, grid |-> precDigits] /\ Leaves([result |-> resultGeometry'])
    <3>1. precDigits \in {NULL} \cup 0..MAX_PRECISION_DIGITS
      BY <2>0, BufferOpAssumption
    <3> QED
      BY <1>2, <2>0, <2>1, <3>1
  <2>2. CASE loopEnd(precDigits) /\ UNCHANGED resultGeometry
    <3>1. CASE precDigits = MIN_PRECISION_DIGITS
      BY <1>3, <2>0, <2>2, <3>1 DEF loopEnd
    <3>2. CASE precDigits # MIN_PRECISION_DIGITS
      <4>1. at' = "reduced" /\ precDigits' = precDigits - 1 /\ UNCHANGED <<answer, done>>
        BY <2>0, <2>2, <3>2 DEF loopEnd
      <4>2. precDigits' \in MIN_PRECISION_DIGITS..MAX_PRECISION_DIGITS
        BY <2>0, <3>2, <4>1, BufferOpAssumption
      <4> QED
        BY <2>0, <2>2, <4>1, <4>2
    <3> QED
      BY <3>1, <3>2
  <2> QED
    BY <1>7, <2>1, <2>2 DEF bufferReducedPrecision
<1>8. CASE UNCHANGED bvars
  BY <1>8 DEF bvars
<1> QED
  BY <1>1, <1>4, <1>5, <1>6, <1>7, <1>8 DEF BufferNext

\* The first call on a BufferOp gives the buffer of the distance asked for, or throws
\* (BufferOp.h); the code resets nothing between calls, so that no more holds of a
\* second one.
THEOREM FirstBufferAnswersTheCall == ASSUME MaxCalls <= 1 PROVE BufferSpec => []BufferAnswersTheCall
<1>1. BufferInit => BufferInv
  BY BufferOpAssumption DEF BufferInit, BufferInv, BufferAnswersTheCall
<1>2. BufferInv => BufferAnswersTheCall
  BY BufferOpAssumption DEF BufferInv
<1> QED
  BY <1>1, <1>2, BufferInvKept, PTL DEF BufferSpec
=============================================================================
