-------------------------- MODULE DurableTraining --------------------------
(***************************************************************************)
(* What the optimizer state of art/megatron/optimizer_state.py promises    *)
(* the training process: of the steps it has learned some are committed;   *)
(* a crash loses exactly the others, and training goes on from the last    *)
(* committed one.                                                          *)
(***************************************************************************)
EXTENDS Integers

CONSTANT MaxStep

VARIABLES running, step, committed

vars == <<running, step, committed>>

Init == running = TRUE /\ step = 0 /\ committed = 0

Learn ==
    /\ running /\ step < MaxStep
    /\ step' = step + 1
    /\ UNCHANGED <<running, committed>>

Commit ==
    /\ running
    /\ committed' \in committed + 1..step
    /\ UNCHANGED <<running, step>>

(* A step that trains nothing is learned and committed at once.             *)
Pass ==
    /\ running /\ step < MaxStep
    /\ step' = step + 1 /\ committed' = step'
    /\ UNCHANGED running

Crash ==
    /\ running
    /\ running' = FALSE /\ step' = committed
    /\ UNCHANGED committed

Restart ==
    /\ ~running
    /\ running' = TRUE
    /\ UNCHANGED <<step, committed>>

Next == Learn \/ Commit \/ Pass \/ Crash \/ Restart

Spec == Init /\ [][Next]_vars

=============================================================================
