------------------------- MODULE PolicyPublication -------------------------
(***************************************************************************)
(* How a learned policy reaches the rollouts: the publication tasks, the   *)
(* serving lock and the replica recovery of                                *)
(* art/megatron/distributed_service.py, with the adapter leases of         *)
(* art/local/adapter_leases.py and the calls the pipeline trainer makes.   *)
(*                                                                         *)
(* Every committed step has a task that receives the adapter on the        *)
(* inference hosts, waits for the step before to be served, loads the      *)
(* adapter under the serving lock, and ends when the step is durable.      *)
(* Pruning unloads adapters that are neither in the retention window nor   *)
(* leased; it keeps the lease manager while it waits for the serving lock. *)
(* A replica that fails is restarted, under the train and the serving      *)
(* lock, with the serving and the exact adapters alone.                    *)
(*                                                                         *)
(* Modelled: a managed model service with adapter transfers, one name per  *)
(* step (step_lora), one evaluation at a time.  The mutation lock is held  *)
(* across no await here (CheckpointRetention has the one that is), so each *)
(* section under it is one step.  The serving lock is first in, first out, *)
(* as asyncio.Lock is; a lock that is free is taken in the same step.      *)
(***************************************************************************)
EXTENDS Integers, Sequences, FiniteSets

CONSTANTS
    Workers,    \* the rollout workers
    MaxStep,    \* bound: the last step trained
    Window,     \* _retention_window_steps
    EvalSteps,  \* the steps that are evaluated
    MaxFaults,  \* bound: the failures of the replica, a transfer or a job
    None

ASSUME PublicationAssumption ==
    /\ {MaxStep, Window, MaxFaults} \subseteq Nat
    /\ EvalSteps \subseteq 0..MaxStep
    /\ None \notin Nat
    /\ Workers \cap {"scheduled", "eval"} = {}

VARIABLES
    trainer,    \* "top", "preparing", "training", "committed", "done", "failed"
    latest,     \* _latest_step: the learner
    policy,     \* PipelineState.policy_version
    post,       \* [pc, step]: the post-train task
    pub,        \* the phase of the publication task of each step
    written,    \* the steps whose checkpoint is on disk
    failure,    \* whether _publication_failure is set
    serving,    \* _serving_step
    endpoint,   \* "up", "unpublished", or "cleared"
    manager,    \* the phase of the replica manager
    engine,     \* the steps whose adapter the engine has loaded
    loaded,     \* _loaded_adapter_steps
    exact,      \* _loaded_exact_adapter_steps
    restored,   \* the serving step of the last restart of the replica
    train,      \* the holder of the train lock, or None
    serve,      \* the holder of the serving lock and those waiting for it
    leases,     \* the <<holder, step>> of the lease manager
    rollout,    \* [pc, step] of each worker
    eval,       \* [pc, queue]: the evaluation of the head of the queue
    prune,      \* [pc, request, retain, failed]: the prune task
    faults      \* the failures so far

serviceVars == <<failure, serving, endpoint, manager, engine, loaded, exact, restored>>
pipelineVars == <<trainer, latest, policy, post, train>>
clientVars == <<leases, rollout, eval, prune>>
vars == <<pipelineVars, pub, written, serviceVars, serve, clientVars, faults>>

Steps == 1..MaxStep
Idle == [pc |-> "idle", step |-> 0]

(* A service that serves the initial adapter, evaluated first or not.       *)
Init ==
    /\ trainer = "top" /\ latest = 0 /\ policy = 0 /\ post = Idle
    /\ pub = [s \in Steps |-> "none"] /\ written = {0}
    /\ failure = FALSE /\ serving = 0 /\ endpoint = "up" /\ manager = "ready"
    /\ engine = {0} /\ loaded = {0} /\ exact = {} /\ restored = 0
    /\ train = None /\ serve = <<>>
    /\ rollout = [w \in Workers |-> Idle]
    /\ eval = [pc |-> "idle", queue |-> IF 0 \in EvalSteps THEN <<0>> ELSE <<>>]
    /\ leases = {<<"scheduled", s>> : s \in {0} \cap EvalSteps}
    /\ prune = [pc |-> "idle", request |-> None, retain |-> {}, failed |-> FALSE]
    /\ faults = 0

(* Those that hold the locks or wait for them, besides the workers.         *)
Publication(s) == <<"publication", s>>
Evaluation == <<"evaluation">>
Pruning == <<"pruning">>
Recovery == <<"recovery">>
Tasks == {Publication(s) : s \in Steps} \cup {Evaluation, Pruning, Recovery}

ASSUME HoldersAssumption == Workers \cap Tasks = {}

Holds(lock, p) == lock # <<>> /\ Head(lock) = p

(* The lease manager is held by a prune.                                    *)
Guarded == prune.pc = "queued"

Running == trainer \notin {"done", "failed"}
LeasedSteps == {l[2] : l \in leases}

(* _retained_adapter_steps.                                                 *)
Retained(s) == {t \in 0..s : t >= s - Window}

(* The serving future of a step is done, with a result or an error.         *)
Settled(s) == s <= serving \/ (s \in Steps /\ pub[s] \in {"reported", "failed"})

-----------------------------------------------------------------------------
(* The event loop runs what is ready in the order it became so: a task that *)
(* can go on does before the loop hears of the next job, load, write or     *)
(* failure.  The post-train task may be held until the next job is          *)
(* dispatched.                                                              *)

Ready ==
    \/ post.pc = "prune" /\ trainer \notin {"top", "preparing"}
    \/ prune.pc = "idle" /\ prune.request # None
    \/ ~Guarded /\ post.pc = "lease"
    \/ ~Guarded /\ eval.pc \in {"leasing", "unscheduling"}
    \/ ~Guarded /\ \E w \in Workers : rollout[w].pc = "leasing"
    \/ serve # <<>> /\ Head(serve) \in Workers
    \/ serve # <<>> /\ Head(serve) = Evaluation /\ eval.pc # "acquiring"
    \/ \E w \in Workers : rollout[w].pc = "waiting" /\ Settled(rollout[w].step)
    \/ eval.pc = "waiting" /\ Settled(Head(eval.queue))

-----------------------------------------------------------------------------
(* Training: _run_train_job, and the loop of the pipeline around it.        *)

(* What an earlier prune met is raised first, and is raised once.           *)
TrainStart ==
    /\ trainer = "top" /\ latest < MaxStep
    /\ IF prune.failed
       THEN /\ trainer' = "failed" /\ UNCHANGED train
            /\ prune' = [prune EXCEPT !.failed = FALSE]
       ELSE /\ train = None
            /\ IF failure
               THEN trainer' = "failed" /\ UNCHANGED train
               ELSE trainer' = "preparing" /\ train' = "trainer"
            /\ UNCHANGED prune
    /\ UNCHANGED <<latest, policy, post, pub, written, serviceVars, serve,
                   leases, rollout, eval, faults>>

(* Mutant: the transfer of the next step is prepared at once.               *)
TrainPreparedAtOnce ==
    /\ trainer = "preparing"
    /\ IF failure
       THEN trainer' = "failed" /\ train' = None
       ELSE trainer' = "training" /\ UNCHANGED train
    /\ UNCHANGED <<latest, policy, post, pub, written, serviceVars, serve,
                   clientVars, faults>>

(* The transfer of a step is prepared once the step two before it is served.*)
TrainPrepared ==
    /\ trainer = "preparing"
    /\ latest > 1 => Settled(latest - 1)
    /\ IF failure
       THEN trainer' = "failed" /\ train' = None
       ELSE trainer' = "training" /\ UNCHANGED train
    /\ UNCHANGED <<latest, policy, post, pub, written, serviceVars, serve,
                   clientVars, faults>>

TrainCommits ==
    /\ trainer = "training" /\ ~Ready
    /\ trainer' = "committed" /\ train' = None
    /\ latest' = latest + 1
    /\ pub' = [pub EXCEPT ![latest'] = "moving"]
    /\ UNCHANGED <<policy, post, written, serviceVars, serve, clientVars, faults>>

(* The job fails, and the trainer is stopped.                               *)
TrainFails ==
    /\ trainer = "training" /\ faults < MaxFaults /\ ~Ready
    /\ trainer' = "failed" /\ train' = None /\ faults' = faults + 1
    /\ UNCHANGED <<latest, policy, post, pub, written, serviceVars, serve,
                   clientVars>>

(* The step returns once the post-train task of the last one is over.       *)
TrainReturns ==
    /\ trainer = "committed" /\ post.pc \in {"idle", "failed"}
    /\ IF post.pc = "failed"
       THEN trainer' = "failed" /\ UNCHANGED <<policy, post>>
       ELSE /\ trainer' = "top" /\ policy' = latest
            /\ post' = [pc |-> "prune", step |-> latest]
    /\ UNCHANGED <<latest, pub, written, serviceVars, train, serve, clientVars, faults>>

TrainEnds ==
    /\ trainer = "top" /\ latest = MaxStep /\ post.pc \in {"idle", "failed"}
    /\ trainer' = IF post.pc = "failed" THEN "failed" ELSE "done"
    /\ UNCHANGED <<latest, policy, post, pub, written, serviceVars, train, serve,
                   clientVars, faults>>

TrainStep ==
    TrainStart \/ TrainPrepared \/ TrainCommits \/ TrainReturns \/ TrainEnds

(* prune_model_adapters leaves a request, and raises what the last one met. *)
PostPrune ==
    /\ post.pc = "prune"
    /\ IF prune.failed
       THEN /\ post' = [post EXCEPT !.pc = "failed"]
            /\ prune' = [prune EXCEPT !.failed = FALSE]
       ELSE /\ prune' = [prune EXCEPT !.request = post.step]
            /\ post' = IF post.step \in EvalSteps THEN [post EXCEPT !.pc = "lease"] ELSE Idle
    /\ UNCHANGED <<trainer, latest, policy, train, pub, written, serviceVars, serve,
                   leases, rollout, eval, faults>>

(* _schedule_eval_step.                                                     *)
PostSchedules ==
    /\ post.pc = "lease" /\ ~Guarded
    /\ leases' = leases \cup {<<"scheduled", post.step>>}
    /\ eval' = [eval EXCEPT !.queue = Append(@, post.step)]
    /\ post' = Idle
    /\ UNCHANGED <<trainer, latest, policy, train, pub, written, serviceVars, serve,
                   rollout, prune, faults>>

PostStep == PostPrune \/ PostSchedules

-----------------------------------------------------------------------------
(* The publication of step s: _publish_generation.                          *)

(* The trainer ranks write the checkpoints in order, and they are committed *)
(* in order: the durable publication of s awaits the one before.            *)
Write(s) ==
    /\ trainer # "failed"
    /\ s <= latest /\ s \notin written /\ s - 1 \in written /\ ~Ready
    /\ written' = written \cup {s}
    /\ UNCHANGED <<pipelineVars, pub, serviceVars, serve, clientVars, faults>>

Advance(s, pc) == pub' = [pub EXCEPT ![s] = pc]

(* The transfer fails by itself, or with the trainer that was sending.      *)
PubLoses(s) ==
    /\ pub[s] = "moving"
    /\ \/ trainer = "failed" /\ UNCHANGED faults
       \/ faults < MaxFaults /\ faults' = faults + 1
    /\ Advance(s, "failing")
    /\ UNCHANGED <<pipelineVars, written, serviceVars, serve, clientVars>>

(* Mutant: it does not wait for the step before.                            *)
PubActivatesAtOnce(s) ==
    /\ pub[s] = "moving"
    /\ IF failure
       THEN Advance(s, "failing") /\ UNCHANGED serve
       ELSE Advance(s, "queued") /\ serve' = Append(serve, Publication(s))
    /\ UNCHANGED <<pipelineVars, written, serviceVars, clientVars, faults>>

PubActivates(s) ==
    /\ pub[s] = "moving"
    /\ Settled(s - 1) /\ ~Ready
    /\ IF failure
       THEN Advance(s, "failing") /\ UNCHANGED serve
       ELSE Advance(s, "queued") /\ serve' = Append(serve, Publication(s))
    /\ UNCHANGED <<pipelineVars, written, serviceVars, clientVars, faults>>

(* _register_lora_for_step_locked; without an endpoint nothing is loaded.   *)
PubServes(s) ==
    /\ pub[s] = "queued" /\ Holds(serve, Publication(s))
    /\ endpoint = "up" => manager = "ready" /\ ~Ready
    /\ serve' = Tail(serve)
    /\ Advance(s, "served")
    /\ serving' = s
    /\ IF endpoint = "up"
       THEN engine' = engine \cup {s} /\ loaded' = loaded \cup {s}
       ELSE UNCHANGED <<engine, loaded>>
    /\ UNCHANGED <<pipelineVars, written, failure, endpoint, manager, exact, restored,
                   clientVars, faults>>

Cleared ==
    /\ endpoint' = "cleared" /\ manager' = "stopped"
    /\ engine' = {} /\ loaded' = {} /\ exact' = {}

(* The load fails, or the replica has failed: the service is stopped.       *)
PubRefused(s) ==
    /\ pub[s] = "queued" /\ Holds(serve, Publication(s)) /\ endpoint = "up" /\ ~Ready
    /\ \/ manager # "ready" /\ UNCHANGED faults
       \/ faults < MaxFaults /\ faults' = faults + 1
    /\ serve' = Tail(serve)
    /\ Advance(s, "failing")
    /\ Cleared
    /\ UNCHANGED <<pipelineVars, written, failure, serving, restored, clientVars>>

(* The durable publication fails with the trainer that was writing.         *)
PubUndurable(s) ==
    /\ pub[s] = "served" /\ s \notin written /\ trainer = "failed"
    /\ Advance(s, "failing")
    /\ UNCHANGED <<pipelineVars, written, serviceVars, serve, clientVars, faults>>

(* Mutant: the serving future is left as it is.                             *)
PubReportsNothing(s) ==
    /\ pub[s] = "failing"
    /\ Advance(s, "silent")
    /\ serve' = Append(serve, Publication(s))
    /\ UNCHANGED <<pipelineVars, written, serviceVars, clientVars, faults>>

(* The error reaches those who wait for the step and those who come later;  *)
(* then the service is torn down.                                           *)
PubReports(s) ==
    /\ pub[s] = "failing"
    /\ Advance(s, "reported")
    /\ failure' = TRUE
    /\ serve' = Append(serve, Publication(s))
    /\ UNCHANGED <<pipelineVars, written, serving, endpoint, manager, engine, loaded,
                   exact, restored, clientVars, faults>>

PubTearsDown(s) ==
    /\ pub[s] \in {"reported", "silent"} /\ Holds(serve, Publication(s))
    /\ serve' = Tail(serve)
    /\ Advance(s, "failed")
    /\ Cleared
    /\ UNCHANGED <<pipelineVars, written, failure, serving, restored, clientVars,
                   faults>>

PubStep(s) ==
    \/ PubLoses(s) \/ PubActivates(s) \/ PubServes(s) \/ PubRefused(s)
    \/ PubUndurable(s) \/ PubReports(s) \/ PubTearsDown(s)

-----------------------------------------------------------------------------
(* The replica.                                                             *)

ReplicaFails ==
    /\ manager = "ready" /\ endpoint # "cleared" /\ faults < MaxFaults /\ ~Ready
    /\ manager' = "quarantined" /\ engine' = {}
    /\ faults' = faults + 1
    /\ UNCHANGED <<pipelineVars, pub, written, failure, serving, endpoint, loaded, exact,
                   restored, serve, clientVars>>

(* _recover_failed_replica takes the train lock and asks for the other.     *)
RecoverStart ==
    /\ manager = "quarantined" /\ train = None
    /\ train' = "recovery" /\ serve' = Append(serve, Recovery)
    /\ UNCHANGED <<trainer, latest, policy, post, pub, written, serviceVars,
                   clientVars, faults>>

RecoverSkips ==
    /\ Holds(serve, Recovery) /\ manager # "quarantined"
    /\ train' = None /\ serve' = Tail(serve)
    /\ UNCHANGED <<trainer, latest, policy, post, pub, written, serviceVars,
                   clientVars, faults>>

(* The checkpoints it restarts from are on disk.                            *)
RecoverRestarts ==
    /\ Holds(serve, Recovery) /\ manager = "quarantined" /\ ~Ready
    /\ {serving} \cup exact \subseteq written
    /\ train' = None /\ serve' = Tail(serve)
    /\ manager' = "ready" /\ engine' = {serving} \cup exact /\ loaded' = {serving}
    /\ restored' = serving
    /\ UNCHANGED <<trainer, latest, policy, post, pub, written, failure, serving,
                   endpoint, exact, clientVars, faults>>

(* One is not, or the restart fails: the endpoint is withdrawn.             *)
RecoverFails ==
    /\ Holds(serve, Recovery) /\ manager = "quarantined" /\ ~Ready
    /\ \/ ~({serving} \cup exact \subseteq written) /\ UNCHANGED faults
       \/ faults < MaxFaults /\ faults' = faults + 1
    /\ train' = None /\ serve' = Tail(serve)
    /\ manager' = "stopped" /\ endpoint' = "unpublished"
    /\ loaded' = {} /\ exact' = {}
    /\ UNCHANGED <<trainer, latest, policy, post, pub, written, failure, serving, engine,
                   restored, clientVars>>

RecoverStep == RecoverStart \/ RecoverSkips \/ RecoverRestarts \/ RecoverFails

-----------------------------------------------------------------------------
(* A rollout: adapter_lease of the policy at its start, until it is done.   *)

SetRollout(w, pc) == rollout' = [rollout EXCEPT ![w].pc = pc]

(* The step is served: the lease is taken at once, unless a prune goes on.  *)
TakeLease(w, step) ==
    /\ rollout' = [rollout EXCEPT ![w] = [pc |-> IF Guarded THEN "leasing" ELSE "running",
                                          step |-> step]]
    /\ leases' = IF Guarded THEN leases ELSE leases \cup {<<w, step>>}

(* wait_for_serving of a step, with the serving lock.                       *)
Ask(w, step) ==
    IF step <= serving
    THEN TakeLease(w, step)
    ELSE /\ rollout' = [rollout EXCEPT ![w] = [pc |-> "waiting", step |-> step]]
         /\ UNCHANGED leases

RolloutStart(w) ==
    /\ Running /\ rollout[w].pc = "idle" /\ ~failure
    /\ IF serve = <<>>
       THEN Ask(w, policy) /\ UNCHANGED serve
       ELSE /\ rollout' = [rollout EXCEPT ![w] = [pc |-> "asking", step |-> policy]]
            /\ serve' = Append(serve, w)
            /\ UNCHANGED leases
    /\ UNCHANGED <<pipelineVars, pub, written, serviceVars, eval, prune, faults>>

RolloutAsked(w) ==
    /\ rollout[w].pc = "asking" /\ Holds(serve, w)
    /\ serve' = Tail(serve)
    /\ Ask(w, rollout[w].step)
    /\ UNCHANGED <<pipelineVars, pub, written, serviceVars, eval, prune, faults>>

(* The serving future is done, with a result or an error.                   *)
RolloutWakes(w) ==
    /\ rollout[w].pc = "waiting" /\ Settled(rollout[w].step)
    /\ IF failure
       THEN SetRollout(w, "idle") /\ UNCHANGED leases
       ELSE TakeLease(w, rollout[w].step)
    /\ UNCHANGED <<pipelineVars, pub, written, serviceVars, serve, eval, prune, faults>>

RolloutLeases(w) ==
    /\ rollout[w].pc = "leasing" /\ ~Guarded
    /\ TakeLease(w, rollout[w].step)
    /\ UNCHANGED <<pipelineVars, pub, written, serviceVars, serve, eval, prune, faults>>

(* While a prune goes on a rollout cannot leave either.                     *)
RolloutEnds(w) ==
    /\ rollout[w].pc = "running" /\ ~Guarded /\ ~Ready
    /\ leases' = leases \ {<<w, rollout[w].step>>}
    /\ rollout' = [rollout EXCEPT ![w] = Idle]
    /\ UNCHANGED <<pipelineVars, pub, written, serviceVars, serve, eval, prune, faults>>

RolloutStep(w) ==
    RolloutAsked(w) \/ RolloutWakes(w) \/ RolloutLeases(w) \/ RolloutEnds(w)

-----------------------------------------------------------------------------
(* An evaluation: exact_adapter_lease of the scheduled step.                *)

Evaluated == Head(eval.queue)
SetEval(pc) == eval' = [eval EXCEPT !.pc = pc]

EvalStart ==
    /\ eval.pc = "idle" /\ eval.queue # <<>>
    /\ IF failure
       THEN SetEval("unscheduling") /\ UNCHANGED serve
       ELSE SetEval("asking") /\ serve' = Append(serve, Evaluation)
    /\ UNCHANGED <<pipelineVars, pub, written, serviceVars, leases, rollout, prune,
                   faults>>

(* The step is served, and acquire_exact_adapter asks for the lock again.   *)
EvalAsked ==
    /\ eval.pc = "asking" /\ Holds(serve, Evaluation)
    /\ IF Evaluated <= serving
       THEN SetEval("acquiring") /\ serve' = Append(Tail(serve), Evaluation)
       ELSE SetEval("waiting") /\ serve' = Tail(serve)
    /\ UNCHANGED <<pipelineVars, pub, written, serviceVars, leases, rollout, prune,
                   faults>>

EvalWakes ==
    /\ eval.pc = "waiting" /\ Settled(Evaluated)
    /\ IF failure
       THEN SetEval("unscheduling") /\ UNCHANGED serve
       ELSE SetEval("acquiring") /\ serve' = Append(serve, Evaluation)
    /\ UNCHANGED <<pipelineVars, pub, written, serviceVars, leases, rollout, prune,
                   faults>>

(* acquire_exact_adapter: loads what no publication has left loaded.        *)
EvalAcquires ==
    /\ eval.pc = "acquiring" /\ Holds(serve, Evaluation) /\ ~Ready
    /\ IF Evaluated \in loaded \/ (endpoint = "up" /\ manager = "ready")
       THEN /\ exact' = exact \cup {Evaluated}
            /\ engine' = IF Evaluated \in loaded THEN engine ELSE engine \cup {Evaluated}
            /\ SetEval("leasing")
       ELSE SetEval("unscheduling") /\ UNCHANGED <<exact, engine>>
    /\ serve' = Tail(serve)
    /\ UNCHANGED <<pipelineVars, pub, written, failure, serving, endpoint, manager,
                   loaded, restored, leases, rollout, prune, faults>>

EvalLeases ==
    /\ eval.pc = "leasing" /\ ~Guarded
    /\ leases' = leases \cup {<<"eval", Evaluated>>}
    /\ SetEval("running")
    /\ UNCHANGED <<pipelineVars, pub, written, serviceVars, serve, rollout, prune, faults>>

EvalEnds ==
    /\ eval.pc = "running" /\ ~Guarded /\ ~Ready
    /\ serve' = Append(serve, Evaluation)
    /\ leases' = leases \ {<<"eval", Evaluated>>}
    /\ SetEval("releasing")
    /\ UNCHANGED <<pipelineVars, pub, written, serviceVars, rollout, prune, faults>>

(* release_exact_adapter forgets the adapter, the engine keeps it.          *)
EvalReleases ==
    /\ eval.pc = "releasing" /\ Holds(serve, Evaluation)
    /\ serve' = Tail(serve)
    /\ exact' = exact \ {Evaluated}
    /\ SetEval("unscheduling")
    /\ UNCHANGED <<pipelineVars, pub, written, failure, serving, endpoint, manager,
                   engine, loaded, restored, leases, rollout, prune, faults>>

(* _release_scheduled_eval_lease.                                           *)
EvalUnschedules ==
    /\ eval.pc = "unscheduling" /\ ~Guarded
    /\ leases' = leases \ {<<"scheduled", Evaluated>>}
    /\ eval' = [pc |-> "idle", queue |-> Tail(eval.queue)]
    /\ UNCHANGED <<pipelineVars, pub, written, serviceVars, serve, rollout, prune, faults>>

EvalStep ==
    \/ EvalStart \/ EvalAsked \/ EvalWakes \/ EvalAcquires \/ EvalLeases \/ EvalEnds
    \/ EvalReleases \/ EvalUnschedules

-----------------------------------------------------------------------------
(* The prune task: prune_model_adapters and prune_loaded_adapters.          *)

(* Those that wait for the lease manager have it before the next prune.     *)
LeaseWaiters ==
    \/ \E w \in Workers : rollout[w].pc = "leasing"
    \/ eval.pc = "leasing" \/ post.pc = "lease"

(* Mutant: leases do not count.                                             *)
PruneStartsBlind ==
    /\ prune.pc = "idle" /\ prune.request # None /\ ~LeaseWaiters
    /\ prune' = [prune EXCEPT !.pc = "queued", !.request = None,
                              !.retain = Retained(prune.request)]
    /\ serve' = Append(serve, Pruning)
    /\ UNCHANGED <<pipelineVars, pub, written, serviceVars, leases, rollout, eval, faults>>

(* prune_guard: leases neither begin nor end until the adapters are gone.   *)
PruneStarts ==
    /\ prune.pc = "idle" /\ prune.request # None /\ ~LeaseWaiters
    /\ prune' = [prune EXCEPT !.pc = "queued", !.request = None,
                              !.retain = Retained(prune.request) \cup LeasedSteps]
    /\ serve' = Append(serve, Pruning)
    /\ UNCHANGED <<pipelineVars, pub, written, serviceVars, leases, rollout, eval, faults>>

Pruned == loaded \ (prune.retain \cup {serving})

(* Unloading from a replica that has failed raises.                         *)
PruneUnloads ==
    /\ prune.pc = "queued" /\ Holds(serve, Pruning) /\ ~Ready
    /\ serve' = Tail(serve)
    /\ IF Pruned # {} /\ manager # "ready"
       THEN /\ prune' = [prune EXCEPT !.pc = "idle", !.retain = {}, !.failed = TRUE]
            /\ UNCHANGED <<engine, loaded>>
       ELSE /\ prune' = [prune EXCEPT !.pc = "idle", !.retain = {}]
            /\ engine' = engine \ Pruned /\ loaded' = loaded \ Pruned
    /\ UNCHANGED <<pipelineVars, pub, written, failure, serving, endpoint, manager, exact,
                   restored, leases, rollout, eval, faults>>

PruneStep == PruneStarts \/ PruneUnloads

-----------------------------------------------------------------------------
Next ==
    \/ TrainStep \/ TrainFails \/ PostStep
    \/ (\E s \in Steps : Write(s) \/ PubStep(s))
    \/ ReplicaFails \/ RecoverStep
    \/ (\E w \in Workers : RolloutStart(w) \/ RolloutStep(w))
    \/ EvalStep \/ PruneStep

Spec == Init /\ [][Next]_vars

(* Every task goes on; a new rollout or a fault need not come.              *)
Fairness ==
    /\ WF_vars(TrainStep) /\ WF_vars(PostStep) /\ WF_vars(RecoverStep)
    /\ WF_vars(EvalStep) /\ WF_vars(PruneStep)
    /\ \A s \in Steps : WF_vars(Write(s)) /\ WF_vars(PubStep(s))
    /\ \A w \in Workers : WF_vars(RolloutStep(w))

LiveSpec == Spec /\ Fairness

-----------------------------------------------------------------------------
(* Properties.                                                              *)

(* Types; the learner is never more than two steps ahead of what is served, *)
(* and the pipeline is never more than one step behind the learner.         *)
TypeOK ==
    /\ trainer \in {"top", "preparing", "training", "committed", "done", "failed"}
    /\ latest \in 0..MaxStep /\ policy \in {latest - 1, latest} \cap Nat
    /\ latest <= serving + 2
    /\ post \in [pc : {"idle", "prune", "lease", "failed"}, step : 0..MaxStep]
    /\ pub \in [Steps -> {"none", "moving", "queued", "served",
                          "failing", "reported", "failed"}]
    /\ written \subseteq 0..latest
    /\ failure \in BOOLEAN
    /\ serving \in 0..latest
    /\ endpoint \in {"up", "unpublished", "cleared"}
    /\ manager \in {"ready", "quarantined", "stopped"}
    /\ loaded \cup exact \cup engine \subseteq 0..latest /\ restored \in 0..serving
    /\ train \in {"trainer", "recovery", None}
    /\ serve \in Seq(Workers \cup Tasks)
    /\ leases \subseteq (Workers \cup {"scheduled", "eval"}) \X (0..policy)
    /\ rollout \in [Workers -> [pc : {"idle", "asking", "waiting", "leasing", "running"},
                                step : 0..policy]]
    /\ eval \in [pc : {"idle", "asking", "waiting", "acquiring", "leasing", "running",
                       "releasing", "unscheduling"},
                 queue : Seq(0..policy)]
    /\ prune \in [pc : {"idle", "queued"}, request : 0..policy \cup {None},
                  retain : SUBSET (0..policy), failed : BOOLEAN]
    /\ faults \in 0..MaxFaults

Answers == endpoint = "up" /\ manager = "ready"

(* Who holds a lease finds its adapter in the engine, however publications, *)
(* pruning and leases interleave: a rollout, unless a restart of the        *)
(* replica lost the steps before the one it serves; an evaluation, also     *)
(* then.  This takes a retention window of two steps, as far as the learner *)
(* runs ahead.  (adapter_lease, prune_guard, acquire_exact_adapter,         *)
(* prune_loaded_adapters, _recover_replica_locked)                          *)
LeasedIsLoaded ==
    Answers =>
       /\ \A w \in Workers :
             rollout[w].pc = "running" =>
                rollout[w].step \in engine \/ rollout[w].step < restored
       /\ eval.pc = "running" => Evaluated \in engine

(* Steps are served one after the other, none is skipped or served twice.   *)
(* (_publish_generation, _schedule_publication)                             *)
ServedInOrder == [][serving' \in {serving, serving + 1}]_vars

(* Whatever fails, training ends, nothing waits for a step that is never    *)
(* served or for a lock, and a replica that failed is not left so.          *)
(* (_publish_generation, wait_for_serving, _recover_failed_replica)         *)
Settles ==
    <>[] /\ ~Running
         /\ \A w \in Workers : rollout[w].pc = "idle"
         /\ eval.pc = "idle" /\ eval.queue = <<>> /\ prune.pc = "idle"
         /\ serve = <<>> /\ train = None
         /\ manager # "quarantined"

=============================================================================
