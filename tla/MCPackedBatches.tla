------------------------ MODULE MCPackedBatches ------------------------
EXTENDS PackedBatches

(* Enough hosts for a copy to arrive at one and not at another, enough     *)
(* batches for every slot, and both in small.                              *)
Meshes == {[hosts |-> <<"h1", "h2", "h3">>, batches |-> 2],
           [hosts |-> <<"h1", "h2">>, batches |-> 3],
           [hosts |-> <<"h1">>, batches |-> 5]}
========================================================================
