----------------------- MODULE MCTrajectoryQueueStore -----------------------
(* A small instance of TrajectoryQueueStore for TLC: four groups of unequal *)
(* size, the last of them larger than the queue, two consumers.             *)
EXTENDS TrajectoryQueueStore, TLC

CONSTANTS g1, g2, g3, g4

MCRecords == g1 :> 1 @@ g2 :> 1 @@ g3 :> 2 @@ g4 :> 4
MCBytes == g1 :> 2 @@ g2 :> 1 @@ g3 :> 1 @@ g4 :> 1

Symmetry == Permutations(Consumers)
=============================================================================
