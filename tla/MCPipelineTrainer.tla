------------------------- MODULE MCPipelineTrainer -------------------------
(* Small instances of PipelineTrainer for TLC.                              *)
EXTENDS PipelineTrainer, TLC

CONSTANTS w1, w2

(* max_steps_off_policy zero closes the gate of the workers during every    *)
(* step; one lets the packing stage work ahead of training.                 *)
MostOff == [local |-> {0}, shared |-> {0}, packed |-> {0, 1}]
OneOff == [packed |-> {1}]

(* What may raise in each mode.  A rollout that fails while a batch is      *)
(* packed ahead is the subject of FailureIsPropagated.                      *)
MostFailures ==
    [local |-> {"rollout", "train"}, shared |-> {"rollout", "group", "train"},
     packed |-> {"group", "prepare", "train"}]
RolloutFailures == [packed |-> {"rollout"}]
=============================================================================
