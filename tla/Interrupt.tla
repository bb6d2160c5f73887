----------------------------- MODULE Interrupt -----------------------------
(***************************************************************************)
(* geos::util::Interrupt and the entry points of the C API that use it.    *)
(* The request flag and the callback are process-wide globals; process()   *)
(* is called at every GEOS_CHECK_FOR_INTERRUPTS of an operation and is not *)
(* atomic.  A request may come from a signal handler or another thread,    *)
(* hence at any moment.                                                    *)
(*                                                                         *)
(* An operation is abstracted to the number of check points it passes.     *)
(* due and unserved are history variables: due[t] says that the operation  *)
(* of t still had a check point ahead when a request was pending, unserved *)
(* that no operation was interrupted since the last request.               *)
(***************************************************************************)
EXTENDS Naturals
CONSTANTS Threads,      \* threads of the client
          Callbacks,    \* the functions a client registers
          Requesting,   \* those of them that call request()
          MaxChecks,    \* the check points of the longest operation
          NULL
ASSUME CallbackAssumption == Requesting \subseteq Callbacks /\ NULL \notin Callbacks
ASSUME ChecksAssumption == MaxChecks \in Nat

VARIABLES requested,    \* the flag
          callback,     \* the registered callback
          pc,           \* where each thread is: "idle" outside the library
          left,         \* check points ahead of each thread's operation
          loaded,       \* the callback process() has tested
          due, unserved
vars == <<requested, callback, pc, left, loaded, due, unserved>>

PCs == {"idle", "working", "invoke", "test", "reset", "interrupt", "crashed"}

\* The types of the variables.
TypeOK ==
  /\ requested \in BOOLEAN /\ unserved \in BOOLEAN
  /\ callback \in Callbacks \cup {NULL}
  /\ pc \in [Threads -> PCs]
  /\ left \in [Threads -> 0..MaxChecks]
  /\ loaded \in [Threads -> Callbacks \cup {NULL}]
  /\ due \in [Threads -> BOOLEAN]

Init ==
  /\ requested = FALSE /\ callback = NULL /\ unserved = FALSE
  /\ pc = [t \in Threads |-> "idle"]
  /\ left = [t \in Threads |-> 0]
  /\ loaded = [t \in Threads |-> NULL]
  /\ due = [t \in Threads |-> FALSE]

\* The operation of t will still read the flag.
Ahead(t) == (pc[t] = "working" /\ left[t] > 0) \/ pc[t] \in {"invoke", "test"}

raiseRequest ==
  /\ requested' = TRUE
  /\ unserved' = TRUE
  /\ due' = [t \in Threads |-> due[t] \/ Ahead(t)]

\* Mutant: the request flag survives the cancellation.
dropRequest_Kept ==
  /\ UNCHANGED requested
  /\ unserved' = FALSE
  /\ due' = [t \in Threads |-> FALSE]

dropRequest ==
  /\ requested' = FALSE
  /\ unserved' = FALSE
  /\ due' = [t \in Threads |-> FALSE]

----------------------------------------------------------------------------
(* The client. *)

\* GEOS_interruptRequest(), from anywhere and at any time.
request == raiseRequest /\ UNCHANGED <<callback, pc, left, loaded>>

\* GEOS_interruptCancel(), or the cancel() that GEOS_init_r() and initGEOS() end with.
cancel(t) == pc[t] = "idle" /\ dropRequest /\ UNCHANGED <<callback, pc, left, loaded>>

\* Mutant: registering a callback clears the flag.
registerCallback_Cancels(t) ==
  /\ pc[t] = "idle"
  /\ \E cb \in Callbacks \cup {NULL} : callback' = cb
  /\ requested' = FALSE
  /\ UNCHANGED <<pc, left, loaded, due, unserved>>

registerCallback(t) ==
  /\ pc[t] = "idle"
  /\ \E cb \in Callbacks \cup {NULL} : callback' = cb
  /\ UNCHANGED <<requested, pc, left, loaded, due, unserved>>

\* A client calls an operation with n check points.
begin(t) ==
  /\ pc[t] = "idle"
  /\ \E n \in 0..MaxChecks :
       /\ left' = [left EXCEPT ![t] = n]
       /\ due' = [due EXCEPT ![t] = requested /\ n > 0]
  /\ pc' = [pc EXCEPT ![t] = "working"]
  /\ UNCHANGED <<requested, callback, loaded, unserved>>

----------------------------------------------------------------------------
(* The operation and Interrupt::process(). *)

\* The operation completes.
return(t) ==
  /\ pc[t] = "working" /\ left[t] = 0
  /\ pc' = [pc EXCEPT ![t] = "idle"]
  /\ UNCHANGED <<requested, callback, left, loaded, due, unserved>>

\* A check point: process() tests whether there is a callback.
process(t) ==
  /\ pc[t] = "working" /\ left[t] > 0
  /\ left' = [left EXCEPT ![t] = @ - 1]
  /\ loaded' = [loaded EXCEPT ![t] = callback]
  /\ pc' = [pc EXCEPT ![t] = IF callback # NULL THEN "invoke" ELSE "test"]
  /\ UNCHANGED <<requested, callback, due, unserved>>

\* Mutant: with a callback the flag is not tested (else if).
invoke_ElseIf(t) ==
  /\ pc[t] = "invoke"
  /\ pc' = [pc EXCEPT ![t] = "working"]
  /\ IF loaded[t] \in Requesting THEN raiseRequest ELSE UNCHANGED <<requested, due, unserved>>
  /\ UNCHANGED <<callback, left, loaded>>

\* Mutant: process() starts over after the callback.
invoke_Again(t) ==
  /\ pc[t] = "invoke"
  /\ IF loaded[t] \in Requesting THEN raiseRequest ELSE UNCHANGED <<requested, due, unserved>>
  /\ UNCHANGED <<callback, pc, left, loaded>>

\* (*callback)(): the build may call the pointer it tested or load it again,
\* which another thread may have reset meanwhile.
invoke(t) ==
  /\ pc[t] = "invoke"
  /\ \E cb \in {loaded[t], callback} :
       /\ pc' = [pc EXCEPT ![t] = IF cb = NULL THEN "crashed" ELSE "test"]
       /\ IF cb \in Requesting THEN raiseRequest ELSE UNCHANGED <<requested, due, unserved>>
  /\ UNCHANGED <<callback, left, loaded>>

test(t) ==
  /\ pc[t] = "test"
  /\ pc' = [pc EXCEPT ![t] = IF requested THEN "reset" ELSE "working"]
  /\ UNCHANGED <<requested, callback, left, loaded, due, unserved>>

reset(t) ==
  /\ pc[t] = "reset"
  /\ requested' = FALSE
  /\ pc' = [pc EXCEPT ![t] = "interrupt"]
  /\ UNCHANGED <<callback, left, loaded, due, unserved>>

\* interrupt() resets the flag again and throws: the operation ends here.
interrupt(t) ==
  /\ pc[t] = "interrupt"
  /\ requested' = FALSE
  /\ pc' = [pc EXCEPT ![t] = "idle"]
  /\ due' = [due EXCEPT ![t] = FALSE]
  /\ unserved' = FALSE
  /\ UNCHANGED <<callback, left, loaded>>

Operation(t) == return(t) \/ process(t) \/ invoke(t) \/ test(t) \/ reset(t) \/ interrupt(t)

Next ==
  \/ request
  \/ \E t \in Threads : cancel(t) \/ registerCallback(t) \/ begin(t) \/ Operation(t)

Spec == Init /\ [][Next]_vars

\* An operation is straight-line code that a thread keeps executing.
FairSpec == Spec /\ \A t \in Threads : WF_vars(Operation(t))

----------------------------------------------------------------------------
(* Properties. *)

\* Interrupt::request: "Operations will be terminated ... at first occasion".
\* An operation with a check point ahead of a request does not complete.
OperationsTerminated == \A t \in Threads : pc[t] = "idle" => ~due[t]

\* A pending flag, and a process() about to throw, stem from a request that has
\* interrupted nothing yet: one request never interrupts twice, and none does
\* after cancel().
NoSpuriousInterrupt ==
  requested \/ (\E t \in Threads : pc[t] \in {"reset", "interrupt"}) => unserved

\* The flag is reset in two places and by every thread; even so a request that
\* was neither served nor cancelled is still pending or about to be served.
RequestNotLost ==
  unserved => requested \/ \E t \in Threads : pc[t] \in {"reset", "interrupt"}

\* An operation that runs into a request is interrupted in the end.
DueIsServed == \A t \in Threads : due[t] ~> ~due[t]
=============================================================================
