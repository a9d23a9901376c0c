-------------------------- MODULE MCOptimizerState --------------------------
(* The instance of OptimizerState for TLC.                                   *)
EXTENDS OptimizerState

=============================================================================
