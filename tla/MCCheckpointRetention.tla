----------------------- MODULE MCCheckpointRetention -----------------------
(* Instances of CheckpointRetention for TLC.                                *)
EXTENDS CheckpointRetention

Both == {"local", "megatron"}
Megatron == {"megatron"}

=============================================================================
