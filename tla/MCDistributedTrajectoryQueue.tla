-------------------- MODULE MCDistributedTrajectoryQueue --------------------
(* Small instances of DistributedTrajectoryQueue for TLC.                   *)
EXTENDS DistributedTrajectoryQueue, TLC

Unit == [g \in Groups |-> 1]

CONSTANTS g1, g2, g3

(* Two groups fit together; the third needs the whole queue.                *)
Mixed == g1 :> 1 @@ g2 :> 1 @@ g3 :> 2

Batch(size_, min, max) == [maxsize |-> size_, minBatch |-> min, maxBatch |-> max]

(* The tuner shrinks a queue of two to one.                                 *)
Shrinking == <<Batch(2, 2, 2), Batch(1, 1, 1)>>
(* The tuner grows it, and with it the minimum a batch asks for.            *)
Growing == <<Batch(1, 1, 1), Batch(2, 2, 2)>>
(* It shrinks the queue and grows it again.                                 *)
Pulsing == Shrinking \o <<Batch(2, 2, 2)>>
One == <<Batch(1, 1, 1)>>
Fixed == <<Batch(2, 2, 2)>>

Schedule(ordered_, snapshots_) == [ordered |-> ordered_, snapshots |-> snapshots_]
InOrder == {Schedule(TRUE, FALSE)}
(* A snapshot may take resizes away from the flush of get_many: what is sure *)
(* then rests on the order of calls.                                        *)
Resizing == {Schedule(FALSE, FALSE), Schedule(TRUE, TRUE)}

Symmetry == Permutations(Groups)
=============================================================================
