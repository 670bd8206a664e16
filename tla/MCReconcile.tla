---------------------------- MODULE MCReconcile ----------------------------
(***************************************************************************)
(* Reconcile for TLC: the faults of each run.                              *)
(***************************************************************************)
EXTENDS Reconcile

AllFaults == FaultNames
LateAndLose == {"late", "lose"}
NoFaults == {}
=============================================================================
