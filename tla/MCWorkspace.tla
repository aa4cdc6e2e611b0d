---------------------------- MODULE MCWorkspace ----------------------------
(* A disk with two models and an empty one, either of which comes and goes. *)
EXTENDS Workspace, TLC

CONSTANTS d1, d2

MCHolds == d1 :> {1, 2} @@ d2 :> {}
=============================================================================
