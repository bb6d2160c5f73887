----------------------------- MODULE MCRuntime -----------------------------
(***************************************************************************)
(* What the library keeps for all callers: the interruption flag with its  *)
(* callback, and a factory that counts its geometries.  They share nothing *)
(* and a behaviour is about one of them.                                   *)
(***************************************************************************)
EXTENDS Interrupt, GeometryFactory

VARIABLE part    \* interrupt or factory

runtimeVars == <<part, vars, factoryVars>>

RuntimeInit == part \in {"interrupt", "factory"} /\ Init /\ FactoryInit

Interruption == part = "interrupt" /\ Next /\ UNCHANGED <<part, factoryVars>>
Counting     == part = "factory" /\ FactoryNext /\ UNCHANGED <<part, vars>>

\* An operation is straight-line code that a thread keeps executing.
Running(t) == part = "interrupt" /\ Operation(t) /\ UNCHANGED <<part, factoryVars>>

RuntimeSpec == /\ RuntimeInit /\ [][Interruption \/ Counting]_runtimeVars
               /\ \A t \in Threads : WF_runtimeVars(Running(t))
=============================================================================
