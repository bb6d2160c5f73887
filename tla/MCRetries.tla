----------------------------- MODULE MCRetries -----------------------------
(***************************************************************************)
(* A retried overlay next to a BufferOp, for TLC.                          *)
(***************************************************************************)
EXTENDS Retries

MCModels == {DefaultModel, PrecisionModelOfType("FLOATING_SINGLE"), PrecisionModelOfScale(10),
             PrecisionModelOfScale(150)}

Shapes(models) ==
    {[empty |-> FALSE, lineal |-> l, valid |-> v, pm |-> m] : l, v \in BOOLEAN, m \in models}
    \cup {[empty |-> TRUE, lineal |-> FALSE, valid |-> TRUE, pm |-> DefaultModel]}

MCOperands == Shapes(MCModels) \X Shapes(MCModels)

\* The two are independent: a behaviour is one call of an overlay or some calls on
\* one BufferOp.
NoOverlay ==
    /\ front = NULL /\ op = NULL /\ in = NULL /\ common = NULL /\ apart = NULL /\ pc = "done"
    /\ orig = NULL /\ saved = NULL /\ scale = NULL /\ ret = NULL /\ thrown = NULL

MCInit == BufferInit /\ (NoOverlay \/ (Init /\ argPM = DefaultModel))

Overlays == Next /\ UNCHANGED bvars
Buffers == front = NULL /\ BufferNext /\ UNCHANGED vars
MCNext == Overlays \/ Buffers

MCSpec == MCInit /\ [][MCNext]_<<vars, bvars>> /\ WF_<<vars, bvars>>(Overlays)
=============================================================================
