------------------------ MODULE MCPolicyPublication ------------------------
(* The instance of PolicyPublication for TLC.                               *)
EXTENDS PolicyPublication

=============================================================================
