------------------------------ MODULE Callers ------------------------------
(***************************************************************************)
(* The requests that one tenant has in progress at a time, shared by the   *)
(* limits they pass.                                                       *)
(***************************************************************************)
EXTENDS FiniteSets

CONSTANT Caller  \* requests of one tenant, by the task that serves them

ASSUME CallersAssumption == IsFiniteSet(Caller)
=============================================================================
