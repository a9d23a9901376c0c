------------------------ MODULE CheckpointRetention ------------------------
(***************************************************************************)
(* Evaluations, checkpoint leases and checkpoint retention in              *)
(* art/pipeline_trainer/trainer.py, with what the two local backends do    *)
(* to the checkpoints directory meanwhile.                                 *)
(*                                                                         *)
(* The training stage, the post-train task of its last step, the rollout   *)
(* workers and the evaluation stage are tasks of one event loop.  A        *)
(* "local" backend saves the checkpoint of a step before its train call    *)
(* returns.  A "megatron" backend returns as soon as the step is learned:  *)
(* rank zero writes the adapter, and with some steps an optimizer          *)
(* generation, from a thread, at most Capacity steps behind.  Deletion     *)
(* runs in another thread and lists the directory once more.               *)
(***************************************************************************)
EXTENDS Integers, Sequences, FiniteSets, SequencesExt

CONSTANTS
    Backends,       \* a subset of {"local", "megatron"}
    Workers,
    MaxStep,        \* bound: the last step trained
    EvalEvery,      \* eval_every_n_steps
    RetainEvery,    \* checkpoint_retention_interval
    Lag,            \* kl_penalty_step_lag
    Capacity,       \* snapshot_pool_capacity
    SaveEvery,      \* optimizer_save_interval
    None

ASSUME RetentionAssumption ==
    /\ Backends \subseteq {"local", "megatron"}
    /\ {MaxStep, EvalEvery, RetainEvery, Lag, Capacity, SaveEvery}
          \subseteq Nat \ {0}
    /\ None \notin Nat /\ None \notin {"end", "signal", "failure"}

VARIABLES
    backend,
    step,       \* current_step of the training stage, state.policy_version
    train,      \* [pc, eval]: the training stage, and should_eval_step
    post,       \* [pc, step, eval, dispatched, listed, keep]: the post-train
                \* task of the last step, the checkpoints it saw and keeps
    learned,    \* the last step the trainer has taken a snapshot of
    written,    \* the last step whose adapter has been written
    serving,    \* _serving_step
    files,      \* the steps in the checkpoints directory
    optimizer,  \* the steps of the optimizer generations on disk
    lease,      \* the step each rollout worker leases, or None
    evals,      \* [queue, scheduled, running, stage]: _eval_queue, the keys of
                \* _scheduled_eval_leases, the evaluation that runs, and
                \* whether the stage is "on" or "over"
    asked,      \* every step an evaluation was scheduled for, in order
    lastEval,   \* state.last_eval_step
    cause,      \* why request_stop was called, None while state.done is False
    run         \* "stages" or "ended"

trainerVars == <<step, train, post>>
backendVars == <<learned, written, serving, files, optimizer>>
evalVars == <<evals, asked, lastEval>>
vars == <<backend, trainerVars, backendVars, lease, evalVars, cause, run>>

Steps == 0..MaxStep
done == cause # None
NoPost == [pc |-> "done", step |-> 0, eval |-> FALSE, dispatched |-> TRUE,
           listed |-> {}, keep |-> {}]

(* A run that starts with the initial checkpoint, evaluated first or not.   *)
Init ==
    /\ backend \in Backends
    /\ step = 0 /\ train = [pc |-> "top", eval |-> FALSE] /\ post = NoPost
    /\ learned = 0 /\ written = 0 /\ serving = 0 /\ files = {0}
    /\ optimizer = {}
    /\ lease = [w \in Workers |-> None]
    /\ asked \in {<<>>, <<0>>} /\ lastEval = 0
    /\ evals = [queue |-> asked, scheduled |-> ToSet(asked), running |-> None,
                stage |-> "on"]
    /\ cause = None /\ run = "stages"

-----------------------------------------------------------------------------
(* The training stage.                                                      *)

(* Mutant: an evaluation is due one step late.                              *)
ShouldEvalLate(s) == s - lastEval > EvalEvery

ShouldEval(s) == s - lastEval >= EvalEvery

Reference(s) == IF s > Lag THEN s - Lag ELSE 0

Dispatched == [post EXCEPT !.dispatched = TRUE]

(* The stage waits for a batch.  The post-train task of the last step is    *)
(* let go unless a packed batch is ready.                                   *)
TrainTop ==
    /\ train.pc = "top" /\ step < MaxStep
    /\ train' = [train EXCEPT !.pc = "collect"]
    /\ post' \in IF backend = "local" THEN {Dispatched} ELSE {post, Dispatched}
    /\ UNCHANGED <<backend, step, backendVars, lease, evalVars, cause, run>>

(* A batch: whether to evaluate its step is decided now.                    *)
TrainStart ==
    /\ train.pc = "collect"
    /\ train' = [pc |-> "start", eval |-> ShouldEval(step + 1)]
    /\ UNCHANGED <<backend, step, post, backendVars, lease, evalVars, cause, run>>

(* The mutation lock of the Megatron service, which the deletion of         *)
(* checkpoints holds.                                                       *)
MutationLocked == backend = "megatron" /\ post.pc \in {"leased", "pruned"}

(* The job reaches the trainer, which reads the reference adapter.          *)
TrainDispatched ==
    /\ train.pc = "start" /\ Reference(step) \in files /\ ~MutationLocked
    /\ train' = [train EXCEPT !.pc = "dispatched"]
    /\ post' = Dispatched
    /\ UNCHANGED <<backend, step, backendVars, lease, evalVars, cause, run>>

(* Mutant: it raises without letting the post-train task go.                *)
TrainRaisesSilently ==
    /\ train.pc = "start" /\ Reference(step) \notin files /\ ~MutationLocked
    /\ train' = [train EXCEPT !.pc = "raising"]
    /\ UNCHANGED <<backend, step, post, backendVars, lease, evalVars, cause, run>>

(* It is not there: train raises, which sets the dispatch event and waits   *)
(* for the post-train task.                                                 *)
TrainRaises ==
    /\ train.pc = "start" /\ Reference(step) \notin files /\ ~MutationLocked
    /\ train' = [train EXCEPT !.pc = "raising"]
    /\ post' = Dispatched
    /\ UNCHANGED <<backend, step, backendVars, lease, evalVars, cause, run>>

Saves(s) == s <= 1 \/ s % SaveEvery = 0

(* The shard of the last adapter is still to be written.                    *)
ShardOwed == /\ backend = "megatron" /\ written > 0 /\ Saves(written)
             /\ written \notin optimizer

InFlight == learned - written + (IF ShardOwed THEN 1 ELSE 0)

(* Mutant: the snapshot does not wait for a slot of the pool.               *)
TrainLearnsAtOnce ==
    /\ train.pc = "dispatched"
    /\ train' = [train EXCEPT !.pc = "trained"]
    /\ learned' = step + 1
    /\ UNCHANGED <<backend, step, post, written, serving, files, optimizer, lease,
                   evalVars, cause, run>>

(* The local backend saves the checkpoint and serves it.  The snapshot of   *)
(* the Megatron backend takes a slot of the pool.                           *)
TrainLearns ==
    /\ train.pc = "dispatched"
    /\ train' = [train EXCEPT !.pc = "trained"]
    /\ learned' = step + 1
    /\ \/ /\ backend = "local"
          /\ files' = files \cup {step + 1}
          /\ written' = step + 1 /\ serving' = step + 1
       \/ /\ backend = "megatron" /\ InFlight < Capacity
          /\ UNCHANGED <<files, written, serving>>
    /\ UNCHANGED <<backend, step, post, optimizer, lease, evalVars, cause, run>>

(* The service takes over the step and schedules its publication.           *)
TrainCommits ==
    /\ train.pc = "trained" /\ ~MutationLocked
    /\ train' = [train EXCEPT !.pc = "learned"]
    /\ UNCHANGED <<backend, step, post, backendVars, lease, evalVars, cause, run>>

(* _latest_step of the service.                                             *)
Latest == IF train.pc = "trained" THEN learned - 1 ELSE learned

(* train returns; once the last post-train task is done the version is      *)
(* published and the next task created.                                     *)
TrainReturns ==
    /\ train.pc = "learned" /\ post.pc = "done"
    /\ step' = learned
    /\ post' = [NoPost EXCEPT !.pc = "waiting", !.step = learned,
                              !.eval = train.eval, !.dispatched = FALSE]
    /\ train' = [train EXCEPT !.pc = "top"]
    /\ UNCHANGED <<backend, backendVars, lease, evalVars, cause, run>>

(* No batch is left, or the step limit is reached.                          *)
TrainWrap ==
    /\ (train.pc = "collect" \/ (train.pc = "top" /\ step = MaxStep))
    /\ train' = [train EXCEPT !.pc = "wrap"]
    /\ post' = Dispatched
    /\ UNCHANGED <<backend, step, backendVars, lease, evalVars, cause, run>>

RequestStop(why) == cause' = IF done THEN cause ELSE why

(* Mutant: the stage stops the pipeline before its last post-train task.    *)
TrainEndsEarly ==
    /\ train.pc = "wrap"
    /\ train' = [train EXCEPT !.pc = "ended"]
    /\ RequestStop("end")
    /\ UNCHANGED <<backend, step, post, backendVars, lease, evalVars, run>>

(* The stage ends, and with it the pipeline; when it raises, the task group *)
(* cancels the other stages.                                                *)
TrainEnds ==
    /\ train.pc \in {"wrap", "raising"} /\ post.pc = "done"
    /\ train' = [train EXCEPT !.pc = "ended"]
    /\ IF train.pc = "wrap" THEN RequestStop("end") ELSE cause' = "failure"
    /\ UNCHANGED <<backend, step, post, backendVars, lease, evalVars, run>>

TrainStep ==
    \/ TrainTop \/ TrainStart \/ TrainDispatched \/ TrainRaises \/ TrainLearns
    \/ TrainCommits \/ TrainReturns \/ TrainWrap \/ TrainEnds

-----------------------------------------------------------------------------
(* The Megatron trainer's publisher, and the service behind it.             *)

(* One thread writes the generations in order.                              *)
(* publish_adapter_checkpoint renames the staged adapter into place.        *)
WriteAdapter ==
    /\ written < learned /\ ~ShardOwed
    /\ written' = written + 1
    /\ files' = files \cup {written'}
    /\ UNCHANGED <<backend, trainerVars, learned, serving, optimizer, lease,
                   evalVars, cause, run>>

(* A shard of the optimizer makes the directory of its generation.          *)
WriteOptimizer ==
    /\ ShardOwed
    /\ optimizer' = optimizer \cup {written}
    /\ UNCHANGED <<backend, trainerVars, learned, written, serving, files, lease,
                   evalVars, cause, run>>

(* The replicas receive the adapters over a transport, in order, whether    *)
(* they are written yet or not.                                             *)
Serve ==
    /\ serving < Latest
    /\ serving' = serving + 1
    /\ UNCHANGED <<backend, trainerVars, learned, written, files, optimizer, lease,
                   evalVars, cause, run>>

BackendStep == WriteAdapter \/ WriteOptimizer \/ Serve

-----------------------------------------------------------------------------
(* The post-train task.                                                     *)

Leased == {lease[w] : w \in Workers} \cup {evals.running}
KLRange(s) == Reference(s)..s

(* Mutant: a scheduled evaluation does not protect its checkpoint.          *)
ProtectedUnscheduled(s) == {s} \cup Leased \cup KLRange(s)

(* _protected_checkpoint_steps.                                             *)
Protected(s) == {s} \cup Leased \cup evals.scheduled \cup KLRange(s)

(* _run_checkpoint_retention: the strategy keeps whichever of the eligible  *)
(* checkpoints it likes.                                                    *)
PostRetention ==
    /\ post.pc = "waiting" /\ post.dispatched
    /\ \E deleted \in SUBSET (files \ Protected(post.step)) :
          /\ deleted # {} => post.step % RetainEvery = 0
          /\ post' = IF deleted = {} THEN [post EXCEPT !.pc = "log"]
                     ELSE [post EXCEPT !.pc = "listed", !.listed = files,
                                       !.keep = files \ deleted]
    /\ UNCHANGED <<backend, step, train, backendVars, lease, evalVars, cause, run>>

(* checkpoint_retention_lease: the serving lock, then the mutation lock.    *)
PostLease ==
    /\ post.pc = "listed"
    /\ post' = [post EXCEPT !.pc = "leased",
                            !.keep = IF backend = "megatron"
                                     THEN @ \cup {Latest, serving} ELSE @]
    /\ UNCHANGED <<backend, step, train, backendVars, lease, evalVars, cause, run>>

(* optimizer_retention_lease: every generation is younger than the grace    *)
(* period, so each keeps its adapter.                                       *)
PostPrune ==
    /\ post.pc = "leased"
    /\ post' = [post EXCEPT !.pc = "pruned",
                            !.keep = @ \cup optimizer]
    /\ UNCHANGED <<backend, step, train, backendVars, lease, evalVars, cause, run>>

(* delete_checkpoints lists the directory again.                            *)
PostDelete ==
    /\ post.pc = "pruned"
    /\ files' = files \cap post.keep
    /\ post' = [post EXCEPT !.pc = "log", !.listed = {}, !.keep = {}]
    /\ UNCHANGED <<backend, step, train, learned, written, serving, optimizer,
                   lease, evalVars, cause, run>>

(* The step is logged, an evaluation scheduled when one was due, the state  *)
(* persisted.                                                               *)
PostSchedule ==
    /\ post.pc = "log"
    /\ post' = NoPost
    /\ IF post.eval
       THEN /\ evals' = [evals EXCEPT !.scheduled = @ \cup {post.step},
                                      !.queue = Append(@, post.step)]
            /\ asked' = Append(asked, post.step)
            /\ lastEval' = post.step
       ELSE UNCHANGED evalVars
    /\ UNCHANGED <<backend, step, train, backendVars, lease, cause, run>>

PostStep ==
    PostRetention \/ PostLease \/ PostPrune \/ PostDelete \/ PostSchedule

-----------------------------------------------------------------------------
(* Rollouts, evaluations and the end of the run.                            *)

LeaseStart(w) ==
    /\ lease[w] = None /\ ~done
    /\ lease' = [lease EXCEPT ![w] = step]
    /\ UNCHANGED <<backend, trainerVars, backendVars, evalVars, cause, run>>

(* The lease waits until its step is served; the rollout then ends.         *)
LeaseEnd(w) ==
    /\ lease[w] # None /\ lease[w] <= serving
    /\ lease' = [lease EXCEPT ![w] = None]
    /\ UNCHANGED <<backend, trainerVars, backendVars, evalVars, cause, run>>

(* _eval_stage: one evaluation at a time.                                   *)
EvalTake ==
    /\ evals.stage = "on" /\ evals.running = None /\ evals.queue # <<>>
    /\ evals' = [evals EXCEPT !.running = Head(evals.queue), !.queue = Tail(@)]
    /\ UNCHANGED <<backend, trainerVars, backendVars, lease, asked, lastEval,
                   cause, run>>

Released(s) == [evals EXCEPT !.running = None, !.scheduled = @ \ {s}]

(* It ends, failed or not.                                                  *)
EvalEnds ==
    /\ evals.running # None /\ evals.running <= serving
    /\ evals' = Released(evals.running)
    /\ UNCHANGED <<backend, trainerVars, backendVars, lease, asked, lastEval,
                   cause, run>>

(* The stage ends once the pipeline stops and its queue is empty.           *)
EvalStageEnds ==
    /\ evals.stage = "on" /\ done /\ evals.queue = <<>> /\ evals.running = None
    /\ evals' = [evals EXCEPT !.stage = "over"]
    /\ UNCHANGED <<backend, trainerVars, backendVars, lease, asked, lastEval,
                   cause, run>>

(* The task group cancels rollouts and evaluations.  The evaluation that    *)
(* runs is cancelled with the stage only if the stage is waiting for it.    *)
FailureCancels ==
    /\ cause = "failure" /\ run = "stages"
    /\ evals.stage = "on" \/ \E w \in Workers : lease[w] # None
    /\ lease' = [w \in Workers |-> None]
    /\ evals' \in {[evals EXCEPT !.stage = "over"],
                   [Released(evals.running) EXCEPT !.stage = "over"]}
    /\ UNCHANGED <<backend, trainerVars, backendVars, asked, lastEval, cause, run>>

(* The first SIGINT or SIGTERM.                                             *)
Signal ==
    /\ ~done /\ run = "stages"
    /\ RequestStop("signal")
    /\ UNCHANGED <<backend, trainerVars, backendVars, lease, evalVars, run>>

(* Every stage has ended: train waits for the post-train task and releases  *)
(* what is still scheduled.                                                 *)
RunEnds ==
    /\ run = "stages" /\ train.pc = "ended" /\ evals.stage = "over"
    /\ \A w \in Workers : lease[w] = None
    /\ post.pc = "done"
    /\ run' = "ended"
    /\ evals' = [evals EXCEPT !.scheduled = {}]
    /\ UNCHANGED <<backend, trainerVars, backendVars, lease, asked, lastEval, cause>>

RolloutStep == \E w \in Workers : LeaseStart(w) \/ LeaseEnd(w)
EvalStep == EvalTake \/ EvalEnds \/ EvalStageEnds

Next ==
    \/ TrainStep \/ BackendStep \/ PostStep \/ RolloutStep \/ EvalStep
    \/ FailureCancels \/ Signal \/ RunEnds

(* Every task is scheduled, a rollout and an evaluation come to an end, and *)
(* the trainer writes what it has learned.  Nothing asks for a signal or    *)
(* for another rollout.                                                     *)
Fairness ==
    /\ WF_vars(TrainStep) /\ WF_vars(BackendStep) /\ WF_vars(PostStep)
    /\ WF_vars(EvalStep) /\ WF_vars(FailureCancels) /\ WF_vars(RunEnds)
    /\ \A w \in Workers : WF_vars(LeaseEnd(w))

Spec == Init /\ [][Next]_vars /\ Fairness

-----------------------------------------------------------------------------
(* Properties.                                                              *)

(* Types; the snapshots not yet written fit the pool.                       *)
TypeOK ==
    /\ backend \in Backends /\ step \in Steps
    /\ train \in [pc : {"top", "collect", "start", "dispatched", "trained",
                        "learned", "raising", "wrap", "ended"}, eval : BOOLEAN]
    /\ post \in [pc : {"waiting", "listed", "leased", "pruned", "log", "done"},
                 step : Steps, eval : BOOLEAN, dispatched : BOOLEAN,
                 listed : SUBSET Steps, keep : SUBSET Steps]
    /\ learned \in step..MaxStep
    /\ written \in 0..learned /\ learned - written <= Capacity
    /\ serving \in 0..learned
    /\ files \subseteq 0..written
    /\ optimizer \subseteq 1..written
    /\ lease \in [Workers -> Steps \cup {None}]
    /\ evals \in [queue : Seq(Steps), scheduled : SUBSET Steps,
                  running : Steps \cup {None}, stage : {"on", "over"}]
    /\ evals.running \in evals.scheduled \cup {None} \/ run = "ended"
       \/ cause = "failure"
    /\ evals.scheduled \subseteq ToSet(asked)
    /\ ToSet(evals.queue) \subseteq evals.scheduled \/ run = "ended"
    /\ asked \in Seq(Steps) /\ lastEval \in Steps
    /\ cause \in {None, "end", "signal", "failure"}
    /\ run \in {"stages", "ended"}

(* The steps somebody reads or will read: the current one, the reference of *)
(* the training that runs, those of rollouts, of the evaluation that runs   *)
(* and of those that wait.                                                  *)
InUse == {step, Reference(step)} \cup Leased \cup evals.scheduled

(* However long deletion waits for its locks and its thread: a checkpoint   *)
(* retention had seen is not deleted from under anybody who came to use it  *)
(* meanwhile, although the protected set was computed before.               *)
(* (_protected_checkpoint_steps, _run_checkpoint_retention)                 *)
SeenInUseSurvive ==
    [][\A s \in (files \ files') \cap post.listed : s \notin InUse]_vars

(* Evaluations keep pace: no more than EvalEvery steps are ever trained     *)
(* since the last one scheduled, and of three in a row the first and the    *)
(* last are EvalEvery steps apart.  should_eval_step is read before the     *)
(* post-train task of the step before has scheduled its own, so two in a    *)
(* row may be closer.  (_should_eval_step, _schedule_eval_step)             *)
EvalsKeepPace ==
    /\ step - lastEval <= EvalEvery
    /\ \A i \in 1..Len(asked) - 2 : asked[i + 2] - asked[i] >= EvalEvery

StagesOver == /\ train.pc = "ended" /\ evals.stage = "over" /\ post.pc = "done"
              /\ \A w \in Workers : lease[w] = None

(* When the stages are over no evaluation runs, unless one of them failed;  *)
(* and when training came to its own end, every evaluation that was         *)
(* scheduled has run and let go of its checkpoint, so that cleanup finds    *)
(* nothing to release.  (_eval_stage, _run_eval, train's finally)           *)
EndIsClean ==
    StagesOver =>
       /\ cause # "failure" => evals.running = None
       /\ cause = "end" => evals.scheduled = {} /\ evals.queue = <<>>

(* train returns: the post-train task, the evaluations in the queue and the *)
(* leases it waits for all come to an end, whatever the training stage and  *)
(* the signals did.  (train, _finalize_post_train, _eval_stage)             *)
RunReturns == <>(run = "ended")

(* A checkpoint is deleted only if the strategy was offered it and did not  *)
(* keep it.  ("Strategies receive only checkpoints that ART has determined  *)
(* are eligible for removal", checkpoint_retention.py)                      *)
OnlyOfferedAreDeleted ==
    [][files \ files' \subseteq post.listed]_vars

=============================================================================
