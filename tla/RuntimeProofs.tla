---------------------------- MODULE RuntimeProofs ---------------------------
(***************************************************************************)
(* Proofs about the state that the threads of a client share.  Interrupt:  *)
(* no request is lost, whatever the number of threads; when one thread     *)
(* alone calls the library, a request terminates the operation it finds    *)
(* running and interrupts once.  GeometryFactory: when one thread uses a   *)
(* factory and its geometries, the factory lives exactly as long as it     *)
(* must, whatever the number of geometries and the order in which they and *)
(* the factory are given up.                                               *)
(***************************************************************************)
EXTENDS Interrupt, GeometryFactory, FiniteSetTheorems, TLAPS

\* The variables keep their types: the flag, the callback and each thread's
\* place in process() (Interrupt.cpp).
THEOREM TypeCorrect == Spec => []TypeOK
<1>1. Init => TypeOK
  <2> SUFFICES ASSUME Init PROVE TypeOK
    OBVIOUS
  <2>1. 0 \in 0..MaxChecks
    BY ChecksAssumption
  <2>2. left \in [Threads -> 0..MaxChecks]
    BY <2>1 DEF Init
  <2> QED
    BY <2>2 DEF Init, TypeOK, PCs
<1>2. TypeOK /\ [Next]_vars => TypeOK'
  <2> SUFFICES ASSUME TypeOK, [Next]_vars PROVE TypeOK'
    OBVIOUS
  <2> USE DEF TypeOK, PCs
  <2>1. CASE request
    BY <2>1 DEF request, raiseRequest, Ahead
  <2>2. ASSUME NEW t \in Threads, cancel(t) PROVE TypeOK'
    BY <2>2 DEF cancel, dropRequest
  <2>3. ASSUME NEW t \in Threads, registerCallback(t) PROVE TypeOK'
    BY <2>3 DEF registerCallback
  <2>4. ASSUME NEW t \in Threads, begin(t) PROVE TypeOK'
    <3> PICK n \in 0..MaxChecks : left' = [left EXCEPT ![t] = n] /\ due' = [due EXCEPT ![t] = requested /\ n > 0]
      BY <2>4 DEF begin
    <3>1. due' \in [Threads -> BOOLEAN]
      OBVIOUS
    <3> QED
      BY <2>4, <3>1 DEF begin
  <2>5. ASSUME NEW t \in Threads, return(t) PROVE TypeOK'
    BY <2>5 DEF return
  <2>6. ASSUME NEW t \in Threads, process(t) PROVE TypeOK'
    <3>1. left[t] \in 0..MaxChecks /\ left[t] > 0
      BY <2>6 DEF process
    <3>2. left[t] - 1 \in 0..MaxChecks
      BY <3>1, ChecksAssumption
    <3> QED
      BY <2>6, <3>2 DEF process
  <2>7. ASSUME NEW t \in Threads, invoke(t) PROVE TypeOK'
    <3>1. requested' \in BOOLEAN /\ unserved' \in BOOLEAN /\ due' \in [Threads -> BOOLEAN]
      <4>1. raiseRequest \/ UNCHANGED <<requested, due, unserved>>
        BY <2>7 DEF invoke
      <4>2. CASE raiseRequest
        BY <4>2 DEF raiseRequest
      <4>3. CASE UNCHANGED <<requested, due, unserved>>
        BY <4>3
      <4> QED
        BY <4>1, <4>2, <4>3
    <3>2. pc' \in [Threads -> PCs]
      BY <2>7 DEF invoke
    <3> QED
      BY <2>7, <3>1, <3>2 DEF invoke
  <2>8. ASSUME NEW t \in Threads, test(t) PROVE TypeOK'
    BY <2>8 DEF test
  <2>9. ASSUME NEW t \in Threads, reset(t) PROVE TypeOK'
    BY <2>9 DEF reset
  <2>10. ASSUME NEW t \in Threads, interrupt(t) PROVE TypeOK'
    BY <2>10 DEF interrupt
  <2>11. CASE UNCHANGED vars
    BY <2>11 DEF vars
  <2> QED
    BY <2>1, <2>2, <2>3, <2>4, <2>5, <2>6, <2>7, <2>8, <2>9, <2>10, <2>11 DEF Next, Operation
<1> QED
  BY <1>1, <1>2, PTL DEF Spec

\* However many threads test, reset and throw concurrently, a request that
\* nobody served or cancelled is still pending or about to be served: the
\* two resets of the flag in process() and interrupt() lose none.
THEOREM RequestsAreKept == Spec => []RequestNotLost
<1>1. Init => RequestNotLost
  BY DEF Init, RequestNotLost
<1>2. TypeOK /\ RequestNotLost /\ [Next]_vars => RequestNotLost'
  <2> SUFFICES ASSUME TypeOK, RequestNotLost, [Next]_vars PROVE RequestNotLost'
    OBVIOUS
  <2> USE DEF TypeOK, RequestNotLost
  <2>1. CASE request
    BY <2>1 DEF request, raiseRequest
  <2>2. ASSUME NEW t \in Threads, cancel(t) PROVE RequestNotLost'
    BY <2>2 DEF cancel, dropRequest
  <2>3. ASSUME NEW t \in Threads, registerCallback(t) PROVE RequestNotLost'
    BY <2>3 DEF registerCallback
  <2>4. ASSUME NEW t \in Threads, begin(t) PROVE RequestNotLost'
    BY <2>4 DEF begin
  <2>5. ASSUME NEW t \in Threads, return(t) PROVE RequestNotLost'
    BY <2>5 DEF return
  <2>6. ASSUME NEW t \in Threads, process(t) PROVE RequestNotLost'
    BY <2>6 DEF process
  <2>7. ASSUME NEW t \in Threads, invoke(t) PROVE RequestNotLost'
    BY <2>7 DEF invoke, raiseRequest
  <2>8. ASSUME NEW t \in Threads, test(t) PROVE RequestNotLost'
    BY <2>8 DEF test
  <2>9. ASSUME NEW t \in Threads, reset(t) PROVE RequestNotLost'
    <3>1. pc'[t] = "interrupt"
      BY <2>9 DEF reset
    <3> QED
      BY <2>9, <3>1 DEF reset
  <2>10. ASSUME NEW t \in Threads, interrupt(t) PROVE RequestNotLost'
    BY <2>10 DEF interrupt
  <2>11. CASE UNCHANGED vars
    BY <2>11 DEF vars
  <2> QED
    BY <2>1, <2>2, <2>3, <2>4, <2>5, <2>6, <2>7, <2>8, <2>9, <2>10, <2>11 DEF Next, Operation
<1> QED
  BY <1>1, <1>2, TypeCorrect, PTL DEF Spec

----------------------------------------------------------------------------
(* One thread calls the library; requests may still come at any time. *)

SingleThread == \A t, u \in Threads : t = u

\* Why a due operation cannot complete: the flag stays up until process() has
\* seen it, and the callback it tested is the one it calls.
DueInv ==
  /\ NoSpuriousInterrupt
  /\ \A t \in Threads :
       /\ pc[t] = "invoke" => loaded[t] = callback /\ callback # NULL
       /\ pc[t] # "crashed"
       /\ due[t] => (requested /\ Ahead(t)) \/ pc[t] \in {"reset", "interrupt"}

LEMMA DueInvHolds == ASSUME SingleThread PROVE Spec => []DueInv
<1>1. Init => DueInv
  BY DEF Init, DueInv, NoSpuriousInterrupt
<1>2. TypeOK /\ DueInv /\ [Next]_vars => DueInv'
  <2> SUFFICES ASSUME TypeOK, DueInv, [Next]_vars PROVE DueInv'
    OBVIOUS
  <2> USE SingleThread DEF SingleThread, TypeOK, DueInv, NoSpuriousInterrupt, Ahead
  <2>1. CASE request
    BY <2>1 DEF request, raiseRequest
  <2>2. ASSUME NEW t \in Threads, cancel(t) PROVE DueInv'
    BY <2>2 DEF cancel, dropRequest
  <2>3. ASSUME NEW t \in Threads, registerCallback(t) PROVE DueInv'
    BY <2>3 DEF registerCallback
  <2>4. ASSUME NEW t \in Threads, begin(t) PROVE DueInv'
    <3> PICK n \in 0..MaxChecks : left' = [left EXCEPT ![t] = n] /\ due' = [due EXCEPT ![t] = requested /\ n > 0]
      BY <2>4 DEF begin
    <3>1. \A u \in Threads : u = t
      OBVIOUS
    <3>2. pc'[t] = "working" /\ left'[t] = n /\ due'[t] = (requested /\ n > 0)
      BY <2>4 DEF begin
    <3>3. UNCHANGED <<requested, callback, loaded, unserved>>
      BY <2>4 DEF begin
    <3> QED
      BY <2>4, <3>1, <3>2, <3>3
  <2>5. ASSUME NEW t \in Threads, return(t) PROVE DueInv'
    BY <2>5 DEF return
  <2>6. ASSUME NEW t \in Threads, process(t) PROVE DueInv'
    BY <2>6 DEF process
  <2>7. ASSUME NEW t \in Threads, invoke(t) PROVE DueInv'
    BY <2>7, CallbackAssumption DEF invoke, raiseRequest
  <2>8. ASSUME NEW t \in Threads, test(t) PROVE DueInv'
    BY <2>8 DEF test
  <2>9. ASSUME NEW t \in Threads, reset(t) PROVE DueInv'
    BY <2>9 DEF reset
  <2>10. ASSUME NEW t \in Threads, interrupt(t) PROVE DueInv'
    BY <2>10 DEF interrupt
  <2>11. CASE UNCHANGED vars
    BY <2>11 DEF vars
  <2> QED
    BY <2>1, <2>2, <2>3, <2>4, <2>5, <2>6, <2>7, <2>8, <2>9, <2>10, <2>11 DEF Next, Operation
<1> QED
  BY <1>1, <1>2, TypeCorrect, PTL DEF Spec

\* With one thread in the library, the operation a request finds running with
\* a check point ahead never completes (Interrupt::request: "Operations will be
\* terminated ... at first occasion").
THEOREM OneThreadIsTerminated == ASSUME SingleThread PROVE Spec => []OperationsTerminated
<1>1. DueInv => OperationsTerminated
  BY DEF DueInv, OperationsTerminated, Ahead
<1> QED
  BY <1>1, DueInvHolds, PTL

\* With one thread in the library a request interrupts once, and never after a
\* cancel: a flag that is up stems from a request that interrupted nothing yet
\* (Interrupt::process, interrupt and cancel).
THEOREM RequestsInterruptOnce == ASSUME SingleThread PROVE Spec => []NoSpuriousInterrupt
<1>1. DueInv => NoSpuriousInterrupt
  BY DEF DueInv
<1> QED
  BY <1>1, DueInvHolds, PTL

-----------------------------------------------------------------------------
(* The geometry factory.                                                   *)

\* One thread uses the factory and its geometries.
SingleUser == \A t, u \in Users : t = u

\* What a thread has at hand at its place.
AtHand(t) ==
  /\ place[t] \in {"addStore", "dropStore"} => reg[t] = refCount
  /\ place[t] \in {"addLoad", "addStore"} => /\ cur[t] \in Geoms \ geoms
                                             /\ via[t] \in geoms \/ (via[t] = Owner /\ owned)
  /\ place[t] \in {"construct", "dropLoad", "dropStore"} => cur[t] \in geoms
  /\ place[t] \in {"idle", "dropTest", "destroyTest"} => cur[t] = NONE
  /\ place[t] \notin {"addLoad", "addStore"} => via[t] = NONE
  /\ place[t] # "idle" => ~freed
  /\ place[t] = "dropTest" => geoms = {}
  /\ place[t] = "destroyTest" => ~owned

\* The count counts the geometries, and an unowned factory without geometries
\* is deleted as soon as the thread has made its last test.
CountInv ==
  /\ refCount = Cardinality(geoms)
  /\ autoDestroy = ~owned
  /\ freed => ~owned /\ geoms = {}
  /\ \A t \in Users : AtHand(t)
  /\ ~owned /\ geoms = {} => freed \/ \E t \in Users : place[t] \in {"dropTest", "destroyTest"}

\* What adding or removing one geometry does to the number of geometries.
LEMMA CountOne ==
  ASSUME NEW S \in SUBSET Geoms, NEW g \in Geoms
  PROVE  /\ IsFiniteSet(S) /\ Cardinality(S) \in Nat
         /\ Cardinality(S) = 0 <=> S = {}
         /\ g \notin S => Cardinality(S \cup {g}) = Cardinality(S) + 1
         /\ g \in S => Cardinality(S \ {g}) = Cardinality(S) - 1 /\ Cardinality(S) # 0
<1>1. IsFiniteSet(S)
  BY FS_Subset, GeomsAssumption
<1>2. Cardinality(S) \in Nat
  BY <1>1, FS_CardinalityType
<1>3. Cardinality(S) = 0 <=> S = {}
  BY <1>1, FS_EmptySet
<1>4. g \notin S => Cardinality(S \cup {g}) = Cardinality(S) + 1
  BY <1>1, FS_AddElement
<1>5. g \in S => Cardinality(S \ {g}) = Cardinality(S) - 1
  BY <1>1, FS_RemoveElement
<1>6. g \in S => Cardinality(S) # 0
  BY <1>3
<1> QED
  BY <1>1, <1>2, <1>3, <1>4, <1>5, <1>6

LEMMA CountInvHolds == ASSUME SingleUser PROVE FactorySpec => [](FactoryTypeOK /\ CountInv)
<1>1. FactoryInit => FactoryTypeOK /\ CountInv
  <2> SUFFICES ASSUME FactoryInit PROVE FactoryTypeOK /\ CountInv
    OBVIOUS
  <2>1. Cardinality({}) = 0
    BY FS_EmptySet
  <2>2. FactoryTypeOK
    BY DEF FactoryInit, FactoryTypeOK, Places
  <2>3. CountInv
    BY <2>1 DEF FactoryInit, CountInv, AtHand
  <2> QED
    BY <2>2, <2>3
<1>2. FactoryTypeOK /\ CountInv /\ [FactoryNext]_factoryVars => (FactoryTypeOK /\ CountInv)'
  <2> SUFFICES ASSUME FactoryTypeOK, CountInv, [FactoryNext]_factoryVars PROVE FactoryTypeOK' /\ CountInv'
    OBVIOUS
  <2>12. CASE UNCHANGED factoryVars
    BY <2>12 DEF factoryVars, FactoryTypeOK, CountInv, AtHand
  <2>13. ASSUME NEW t \in Users, FactoryNext, ~UNCHANGED factoryVars PROVE FactoryTypeOK' /\ CountInv'
    <3>0. \A u \in Users : u = t
      BY SingleUser DEF SingleUser
    <3> USE DEF FactoryTypeOK, CountInv, AtHand, goto, Places
    <3>1. CASE createGeometry(t)
      <4>1. PICK g \in Geoms \ (geoms \cup {cur[u] : u \in Users}) : cur' = [cur EXCEPT ![t] = g]
        BY <3>1 DEF createGeometry
      <4>2. PICK f \in Live \cup (IF owned THEN {Owner} ELSE {}) : via' = [via EXCEPT ![t] = f]
        BY <3>1 DEF createGeometry
      <4>3. f \in geoms \/ (f = Owner /\ owned)
        BY <4>2 DEF Live
      <4> QED
        BY <3>0, <3>1, <4>1, <4>2, <4>3 DEF createGeometry
    <3>2. CASE addLoad(t)
      BY <3>0, <3>2 DEF addLoad
    <3>3. CASE addRef(t)
      BY <3>0, <3>3, CountOne DEF addRef
    <3>4. CASE constructed(t)
      BY <3>0, <3>4 DEF constructed
    <3>5. CASE constructorThrows(t)
      BY <3>0, <3>5 DEF constructorThrows
    <3>6. CASE destroyGeometry(t)
      <4>1. PICK g \in Live : cur' = [cur EXCEPT ![t] = g]
        BY <3>6 DEF destroyGeometry
      <4>2. g \in geoms
        BY <4>1 DEF Live
      <4> QED
        BY <3>0, <3>6, <4>1, <4>2 DEF destroyGeometry
    <3>7. CASE dropLoad(t)
      BY <3>0, <3>7 DEF dropLoad
    <3>8. CASE dropRef(t)
      <4>1. cur[t] \in geoms /\ reg[t] = refCount /\ geoms \in SUBSET Geoms
        BY <3>8 DEF dropRef
      <4>2. Cardinality(geoms \ {cur[t]}) = Cardinality(geoms) - 1 /\ Cardinality(geoms) \in Nat \ {0}
        BY <4>1, CountOne
      <4>3. Cardinality(geoms \ {cur[t]}) = 0 <=> geoms \ {cur[t]} = {}
        BY <4>1, CountOne
      <4>4. refCount' = Cardinality(geoms') /\ refCount' \in Nat
        BY <3>8, <4>1, <4>2 DEF dropRef
      <4>5. place'[t] = (IF geoms' = {} THEN "dropTest" ELSE "idle")
        BY <3>8, <4>1, <4>2, <4>3 DEF dropRef
      <4>6. cur'[t] = NONE /\ geoms' \subseteq geoms
        BY <3>8 DEF dropRef
      <4> QED
        BY <3>0, <3>8, <4>4, <4>5, <4>6 DEF dropRef
    <3>9. CASE dropTest(t)
      BY <3>0, <3>9 DEF dropTest
    <3>10. CASE destroy(t)
      BY <3>0, <3>10 DEF destroy
    <3>11. CASE destroyTest(t)
      <4>1. refCount = 0 <=> geoms = {}
        <5>1. CASE Geoms = {}
          BY <5>1, FS_EmptySet
        <5>2. CASE Geoms # {}
          BY <5>2, CountOne
        <5> QED
          BY <5>1, <5>2
      <4> QED
        BY <3>0, <3>11, <4>1 DEF destroyTest
    <3> QED
      BY <2>13, <3>0, <3>1, <3>2, <3>3, <3>4, <3>5, <3>6, <3>7, <3>8, <3>9, <3>10, <3>11 DEF FactoryNext
  <2> QED
    BY <2>12, <2>13 DEF FactoryNext
<1> QED
  BY <1>1, <1>2, PTL DEF FactorySpec

\* With one thread the factory is deleted only after the last of its geometries,
\* however many there are (GeometryFactory::dropRef and destroy).
THEOREM FactoryLivesAsLongAsNeeded == ASSUME SingleUser PROVE FactorySpec => []FactoryOutlivesGeometries
<1>1. FactoryTypeOK /\ CountInv => FactoryOutlivesGeometries
  BY DEF FactoryTypeOK, CountInv, AtHand, FactoryOutlivesGeometries
<1> QED
  BY <1>1, CountInvHolds, PTL

\* With one thread nobody reaches the factory once it is deleted, and once it is
\* given up and its last geometry is gone it is deleted (GeometryFactory::addRef,
\* dropRef and destroy, and constructors that throw).
THEOREM FactoryIsFreedOnce == ASSUME SingleUser PROVE FactorySpec => []FreedWhenUnused
<1>1. FactoryTypeOK /\ CountInv => FreedWhenUnused
  BY DEF FactoryTypeOK, CountInv, AtHand, FreedWhenUnused
<1> QED
  BY <1>1, CountInvHolds, PTL
=============================================================================
