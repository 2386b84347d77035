------------------------- MODULE MCBoundaryWorkflow -------------------------
(***************************************************************************)
(* The builds of MCBoundaryStudy, in one job.                              *)
(***************************************************************************)
EXTENDS BoundaryWorkflow, MCBoundaryStudy

OneProcess == {Job}
=============================================================================
