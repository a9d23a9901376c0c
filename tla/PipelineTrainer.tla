-------------------------- MODULE PipelineTrainer --------------------------
(***************************************************************************)
(* The stages of art/pipeline_trainer/trainer.py as tasks of one event     *)
(* loop: rollout workers, the packing stage, the training stage with the   *)
(* post-train task of the last step, the stop request, and the cleanup of  *)
(* run.  A stage's code from one await to the next is one action.          *)
(*                                                                         *)
(* The queue between them is an asyncio.Queue ended by a None ("local"),   *)
(* or the shared queue of DistributedTrajectoryQueue, seen here through    *)
(* what it promises: put waits for room, get_many for its count or for     *)
(* finish ("shared").  With the shared queue a backend may pack batches    *)
(* ahead of training in the packing stage ("packed").                      *)
(***************************************************************************)
EXTENDS Integers, Sequences, FiniteSets, SequencesExt

CONSTANTS
    Modes,              \* the queues and backends the trainer may have: a
                        \* subset of {"local", "shared", "packed"}
    Workers,            \* num_rollout_workers tasks
    ScenarioCount,      \* length of the scenario source
    MaxOffs,            \* the values of max_steps_off_policy in each mode
    MinBatch, MaxBatch, QueueSize,
    CollapseLimit,      \* _discard_queue_limit
    MaxSteps,           \* max_steps, ScenarioCount + 1 for no limit
    Signals,            \* whether a signal may request a stop
    Failures,           \* what may raise in each mode: a set of FailureKinds
    Outcomes,           \* what rollouts and packing may yield beside groups
                        \* to train on: a subset of OutcomeKinds
    None

FailureKinds == {"rollout", "group", "prepare", "train"}
OutcomeKinds == {"flat", "errored", "unusable"}

(* Of a batch that the shared queue has no room for this model says nothing: *)
(* its client raises the limit for the time of the get_many.                *)
ASSUME PipelineAssumption ==
    /\ Modes \subseteq {"local", "shared", "packed"}
    /\ ScenarioCount \in Nat /\ MaxOffs \in [Modes -> SUBSET Nat]
    /\ {MinBatch, MaxBatch, QueueSize, CollapseLimit, MaxSteps} \subseteq Nat \ {0}
    /\ Workers # {} /\ MinBatch <= MaxBatch
    /\ Modes # {"local"} => MinBatch <= QueueSize
    /\ Signals \in BOOLEAN /\ Failures \in [Modes -> SUBSET FailureKinds]
    /\ Outcomes \subseteq OutcomeKinds
    /\ None \notin Int \cup {"signal", "collapse", "steps", "end", "failure"}

VARIABLES
    mode,       \* the queue and the backend this trainer has
    maxOff,     \* its max_steps_off_policy
    version,    \* state.policy_version
    next,       \* state.next_training_step
    offset,     \* state.scenario_offset
    exhausted,  \* _scenario_source_exhausted
    cause,      \* who requested the stop, None while state.done is False
    failed,     \* some stage raised and the task group cancels the others
    worker,     \* [pc, scenario, born] of each worker task
    rollouts,   \* "running", "sentinel" or "ended": _rollout_stage
    queue,      \* _output_queue: groups [scenario, born] or None
    ends,       \* puts of None, or finish calls, still on their way
    finished,   \* the shared queue is finished
    pack,       \* [pc, step, batch, sentinel]: _packing_stage
    packed,     \* _packed_queue, of size one: [batch, step, sentinel] or None
    handoff,    \* the handoff event of the last item put there
    accept,     \* _accept_prepared_batches
    train,      \* [pc, step, batch, sentinel, taken]: _training_stage; taken
                \* is the packing_policy_step of the batch being trained
    post,       \* [pc, dispatched, handoff]: post_train_task, the event it
                \* waits for, and whether it sets handoff when it is done
    zeros,      \* length of _discard_queue
    run,        \* "stages", "gather" or "ended": run itself
    fate        \* what became of each scenario

stopVars == <<cause, queue, ends>>
queueVars == <<queue, ends, finished>>
packVars == <<pack, packed, handoff>>
vars == <<mode, maxOff, version, next, offset, exhausted, cause, failed, worker,
          rollouts, queueVars, packVars, accept, train, post, zeros, run, fate>>

Scenarios == 1..ScenarioCount
Fates == {"trained", "stale", "flat", "errored", "unusable", "dropped"}
Groups == [scenario : Scenarios, born : Nat]
Prepared == [batch : SUBSET Groups, step : 0..ScenarioCount, sentinel : BOOLEAN]

ASSUME NoneAssumption == None \notin Fates \cup Groups \cup Prepared

done == cause # None
Idle == [pc |-> "idle", scenario |-> None, born |-> 0]
Gone == [Idle EXCEPT !.pc = "ended"]
Raised == [Idle EXCEPT !.pc = "raised"]
At(pc, step) == [pc |-> pc, step |-> step, batch |-> {}, sentinel |-> FALSE]

Init ==
    /\ mode \in Modes /\ maxOff \in MaxOffs[mode]
    /\ version = 0 /\ next = 0 /\ offset = 0 /\ exhausted = FALSE
    /\ cause = None /\ failed = FALSE
    /\ worker = [w \in Workers |-> Idle] /\ rollouts = "running"
    /\ queue = <<>> /\ ends = 0 /\ finished = FALSE
    /\ pack = At(IF mode = "packed" THEN "start" ELSE "ended", 0)
    /\ packed = <<>> /\ handoff = FALSE /\ accept = TRUE
    /\ train = [pc |-> "top", step |-> 0, batch |-> {}, sentinel |-> FALSE,
                taken |-> 0]
    /\ post = [pc |-> "none", dispatched |-> FALSE, handoff |-> FALSE]
    /\ zeros = 0 /\ run = "stages"
    /\ fate = [s \in Scenarios |-> None]

Settle(groups, outcome) ==
    fate' = [s \in Scenarios |->
               IF s \in {g.scenario : g \in groups} THEN outcome ELSE fate[s]]

(* Variant: a repeated request ends the queue again.                        *)
RequestStopAgain(why, q) ==
    /\ cause' = IF done THEN cause ELSE why
    /\ queue' = q
    /\ ends' = ends + 1

(* request_stop: the first request marks the state done and ends the queue  *)
(* q, in the local case with a None as soon as there is room for it.        *)
RequestStop(why, q) ==
    /\ cause' = IF done THEN cause ELSE why
    /\ LET now == ~done /\ mode = "local" /\ Len(q) < QueueSize
       IN  /\ queue' = IF now THEN Append(q, None) ELSE q
           /\ ends' = IF done \/ now THEN ends ELSE ends + 1

SignalStop ==
    /\ Signals /\ run = "stages" /\ ~done
    /\ RequestStop("signal", queue)
    /\ UNCHANGED <<mode, maxOff, version, next, offset, exhausted, failed, worker,
                   rollouts, finished, packVars, accept, train, post, zeros,
                   run, fate>>

(* The background put(None) or finish() of request_stop and _rollout_stage. *)
DeliverEnd ==
    /\ ends > 0
    /\ ends' = ends - 1
    /\ IF mode = "local"
       THEN /\ Len(queue) < QueueSize
            /\ queue' = Append(queue, None)
            /\ UNCHANGED finished
       ELSE finished' = TRUE /\ UNCHANGED queue
    /\ UNCHANGED <<mode, maxOff, version, next, offset, exhausted, cause, failed,
                   worker, rollouts, packVars, accept, train, post, zeros, run,
                   fate>>

-----------------------------------------------------------------------------
(* Rollout workers.                                                         *)

Become(w, state) == worker' = [worker EXCEPT ![w] = state]

UnchangedByWorkers == UNCHANGED <<mode, maxOff, version, next, cause, rollouts, ends,
                                  finished, packVars, accept, train, post,
                                  zeros, run>>

(* The worker abandons its scenario, if it has one, and ends.               *)
Abandon(w, state) ==
    /\ Become(w, state)
    /\ IF worker[w].scenario = None THEN UNCHANGED fate
       ELSE Settle({worker[w]}, "dropped")

GetNextScenario(w) ==
    /\ worker[w].pc = "idle"
    /\ IF done \/ exhausted THEN Become(w, Gone) /\ UNCHANGED <<offset, exhausted>>
       ELSE IF offset = ScenarioCount
       THEN Become(w, Gone) /\ exhausted' = TRUE /\ UNCHANGED offset
       ELSE /\ Become(w, [pc |-> "gate", scenario |-> offset + 1, born |-> 0])
            /\ offset' = offset + 1 /\ UNCHANGED exhausted
    /\ UNCHANGED <<failed, queue, fate>>
    /\ UnchangedByWorkers

PolicyTooOld == version < next - maxOff

(* _wait_for_policy, and what follows it without an await: the version the  *)
(* rollout starts with is read.                                             *)
WaitForPolicy(w) ==
    /\ worker[w].pc = "gate"
    /\ IF done THEN Abandon(w, Gone)
       ELSE /\ Become(w, IF PolicyTooOld THEN [worker[w] EXCEPT !.pc = "waiting"]
                         ELSE [worker[w] EXCEPT !.pc = "rollout", !.born = version])
            /\ UNCHANGED fate
    /\ UNCHANGED <<offset, exhausted, failed, queue>>
    /\ UnchangedByWorkers

(* The rollout function returns a group, or raises an ordinary exception    *)
(* and the worker goes on with the next scenario.                           *)
FinishRollout(w) ==
    /\ worker[w].pc = "rollout"
    /\ \/ IF done THEN Abandon(w, Gone)
          ELSE Become(w, [worker[w] EXCEPT !.pc = "putting"]) /\ UNCHANGED fate
       \/ /\ "errored" \in Outcomes
          /\ Become(w, Idle)
          /\ Settle({worker[w]}, "errored")
    /\ UNCHANGED <<offset, exhausted, failed, queue>>
    /\ UnchangedByWorkers

(* _put_output_group: the group enters the queue, or the put gives up when  *)
(* the pipeline stops.                                                      *)
PutOutputGroup(w) ==
    /\ worker[w].pc = "putting"
    /\ \/ /\ Len(queue) < QueueSize /\ ~finished
          /\ queue' = Append(queue, [scenario |-> worker[w].scenario,
                                     born |-> worker[w].born])
          /\ Become(w, Idle) /\ UNCHANGED fate
       \/ /\ IF mode = "local" THEN done ELSE finished
          /\ Abandon(w, Idle) /\ UNCHANGED queue
    /\ UNCHANGED <<offset, exhausted, failed>>
    /\ UnchangedByWorkers

(* RolloutWorkerController.run cancels the workers that still run when it   *)
(* sees the stop, and the task group does when a stage has failed.          *)
CancelWorker(w) ==
    /\ done \/ failed
    /\ worker[w].pc # "ended"
    /\ Abandon(w, Gone)
    /\ UNCHANGED <<offset, exhausted, failed, queue>>
    /\ UnchangedByWorkers

(* A LocalServingUnavailableError: the worker's task ends with it.          *)
FatalRollout(w) ==
    /\ "rollout" \in Failures[mode] /\ worker[w].pc = "rollout"
    /\ Abandon(w, Raised)
    /\ UNCHANGED <<offset, exhausted, failed, queue>>
    /\ UnchangedByWorkers

(* The controller's next poll raises the error out of the rollout stage,    *)
(* unless a stop ended its loop before (CancelWorker: the error is lost).   *)
NoticeRaised(w) ==
    /\ worker[w].pc = "raised" /\ ~done /\ ~failed
    /\ failed' = TRUE
    /\ Become(w, Gone)
    /\ UNCHANGED <<offset, exhausted, queue, fate>>
    /\ UnchangedByWorkers

(* Mutant: the queue is ended as soon as the source runs dry.               *)
RolloutStageEarly ==
    /\ rollouts = "running" /\ (exhausted \/ done \/ failed)
    /\ rollouts' = "ended" /\ ends' = ends + 1
    /\ UNCHANGED <<mode, maxOff, version, next, offset, exhausted, cause, failed,
                   worker, queue, finished, packVars, accept, train, post,
                   zeros, run, fate>>

(* _rollout_stage, once its controller returns: a source that ran dry ends  *)
(* the queue.                                                               *)
RolloutStage ==
    /\ \/ /\ rollouts = "running"
          /\ \A w \in Workers : worker[w].pc = "ended"
          /\ rollouts' = IF done \/ failed THEN "ended" ELSE "sentinel"
          /\ UNCHANGED <<queue, finished>>
       \/ /\ rollouts = "sentinel" /\ mode # "local"
          /\ rollouts' = "ended" /\ finished' = TRUE /\ UNCHANGED queue
       \/ /\ rollouts = "sentinel" /\ mode = "local" /\ Len(queue) < QueueSize
          /\ rollouts' = "ended"
          /\ queue' = Append(queue, None) /\ UNCHANGED finished
       \/ /\ rollouts = "sentinel" /\ (done \/ failed)
          /\ rollouts' = "ended" /\ UNCHANGED <<queue, finished>>
    /\ UNCHANGED <<mode, maxOff, version, next, offset, exhausted, cause, failed,
                   worker, ends, packVars, accept, train, post, zeros, run,
                   fate>>

-----------------------------------------------------------------------------
(* _collect_batch, run by the packing stage if there is one and by the      *)
(* training stage if not.  One action is one get_many, or one get of the    *)
(* local queue, and the examination of what it returned.                    *)

MustWait(batch) == Cardinality(batch) < MinBatch
GetCount(batch) ==
    IF mode = "local" THEN 1
    ELSE (IF MustWait(batch) THEN MinBatch ELSE MaxBatch) - Cardinality(batch)

Available(batch) == \/ ~MustWait(batch)
                    \/ Len(queue) >= GetCount(batch)
                    \/ finished

Smaller(a, b) == IF a < b THEN a ELSE b
Got(batch) == SubSeq(queue, 1, Smaller(GetCount(batch), Len(queue)))
Left(batch) == SubSeq(queue, Len(Got(batch)) + 1, Len(queue))
Items(batch) == ToSet(Got(batch)) \ {None}

Stale(g, step) == g.born < step - maxOff
StaleItems(c) == {g \in Items(c.batch) : Stale(g, c.step)}

(* Which of the items that are not stale have no reward variance.           *)
FlatChoices(c) ==
    {flat \in SUBSET (Items(c.batch) \ StaleItems(c)) :
        flat # {} => "flat" \in Outcomes}

Collapses(flat) == flat # {} /\ zeros + Cardinality(flat) >= CollapseLimit

(* Mutant: stale items are counted as such but kept in the batch.           *)
KeptStale(c, flat) == c.batch \cup (Items(c.batch) \ flat)

Kept(c, flat) == c.batch \cup (Items(c.batch) \ (StaleItems(c) \cup flat))

(* The state of collector c after one round of the loop: its batch, whether *)
(* it saw the end of the queue, and whether the loop goes on.               *)
Collected(c, flat) ==
    LET sentinel == IF mode = "local" THEN Got(c.batch) = <<None>>
                    ELSE finished /\ Left(c.batch) = <<>>
        more == /\ Items(c.batch) # {} /\ ~sentinel /\ ~Collapses(flat)
                /\ Cardinality(Kept(c, flat)) < MaxBatch
    IN  [c EXCEPT !.batch = IF Collapses(flat) THEN {} ELSE Kept(c, flat),
                  !.sentinel = sentinel,
                  !.pc = IF more THEN "collect" ELSE "collected"]

(* What a round does besides: the items leave the queue, those discarded    *)
(* are counted, and too many flat groups in a row stop the pipeline.        *)
CollectRound(c, flat, dropped) ==
    /\ c.pc = "collect"
    /\ Available(c.batch)
    /\ IF Collapses(flat)
       THEN RequestStop("collapse", Left(c.batch))
       ELSE queue' = Left(c.batch) /\ UNCHANGED <<cause, ends>>
    /\ zeros' = Smaller(zeros + Cardinality(flat), CollapseLimit)
    /\ LET lost == IF Collapses(flat) THEN Kept(c, flat) ELSE dropped
           Of(groups) == {g.scenario : g \in groups}
       IN  fate' = [s \in Scenarios |->
                      CASE s \in Of(StaleItems(c)) -> "stale"
                        [] s \in Of(flat) -> "flat"
                        [] s \in Of(lost) -> "dropped"
                        [] OTHER -> fate[s]]

(* _check_all_failed raises for an item of the round: all its rollouts had  *)
(* failed.  The batch and the round are lost; what the items before it did  *)
(* to the count of flat groups no longer matters, as nobody else collects.  *)
CollectFails(c) ==
    /\ "group" \in Failures[mode]
    /\ c.pc = "collect"
    /\ Available(c.batch) /\ Items(c.batch) # {}
    /\ failed' = TRUE
    /\ queue' = Left(c.batch)
    /\ Settle(c.batch \cup Items(c.batch), "dropped")
    /\ UNCHANGED <<cause, ends, zeros>>

-----------------------------------------------------------------------------
(* _packing_stage.                                                          *)

UnchangedByPacking == UNCHANGED <<mode, maxOff, version, next, offset, exhausted,
                                  worker, rollouts, finished, accept, train,
                                  post, run>>

(* Mutant: a batch is selected for the policy being served.                 *)
PackStartServing ==
    /\ pack.pc = "start"
    /\ pack' = At("collect", version)
    /\ UNCHANGED <<stopVars, failed, packed, handoff, zeros, fate>>
    /\ UnchangedByPacking

PackStart ==
    /\ pack.pc = "start"
    /\ pack' = At("collect", next)
    /\ UNCHANGED <<stopVars, failed, packed, handoff, zeros, fate>>
    /\ UnchangedByPacking

(* A batch is packed next if prepared batches are still accepted; an empty  *)
(* one tells the training stage to stop.                                    *)
PackCollect == \E flat \in FlatChoices(pack) :
    LET c == Collected(pack, flat) IN
    /\ CollectRound(pack, flat,
                    IF c.pc = "collected" /\ ~accept THEN c.batch ELSE {})
    /\ IF c.pc = "collect" THEN pack' = c /\ UNCHANGED packed
       ELSE IF ~accept THEN pack' = At("ended", 0) /\ UNCHANGED packed
       ELSE IF c.batch = {}
       THEN /\ packed = <<>> /\ packed' = <<None>>
            /\ pack' = At("ended", 0)
       ELSE pack' = [c EXCEPT !.pc = "prepare"] /\ UNCHANGED packed
    /\ UNCHANGED <<failed, handoff>>
    /\ UnchangedByPacking

PackCollectFails ==
    /\ CollectFails(pack)
    /\ pack' = At("ended", 0)
    /\ UNCHANGED <<packed, handoff>>
    /\ UnchangedByPacking

(* prepare_pipeline_batch succeeds.                                         *)
PackPrepared ==
    /\ pack.pc = "prepare"
    /\ IF accept
       THEN /\ packed = <<>>
            /\ packed' = <<[batch |-> pack.batch, step |-> pack.step,
                            sentinel |-> pack.sentinel]>>
            /\ handoff' = FALSE
            /\ pack' = [pack EXCEPT !.pc = "handoff", !.batch = {}]
            /\ UNCHANGED fate
       ELSE /\ pack' = At("ended", 0)
            /\ Settle(pack.batch, "dropped")
            /\ UNCHANGED <<packed, handoff>>
    /\ UNCHANGED <<stopVars, failed, zeros>>
    /\ UnchangedByPacking

(* It finds nothing to train on and returns None.                           *)
PackUnusable ==
    /\ "unusable" \in Outcomes
    /\ pack.pc = "prepare"
    /\ Settle(pack.batch, "unusable")
    /\ IF pack.sentinel
       THEN /\ packed = <<>> /\ packed' = <<None>>
            /\ pack' = At("ended", 0)
       ELSE pack' = At("start", 0) /\ UNCHANGED packed
    /\ UNCHANGED <<stopVars, failed, handoff, zeros>>
    /\ UnchangedByPacking

PackFails ==
    /\ "prepare" \in Failures[mode] /\ pack.pc = "prepare"
    /\ failed' = TRUE
    /\ pack' = At("ended", 0)
    /\ Settle(pack.batch, "dropped")
    /\ UNCHANGED <<stopVars, packed, handoff, zeros>>
    /\ UnchangedByPacking

PackHandedOff ==
    /\ pack.pc = "handoff" /\ handoff
    /\ pack' = At(IF ~accept \/ pack.sentinel THEN "ended" ELSE "start", 0)
    /\ UNCHANGED <<stopVars, failed, packed, handoff, zeros, fate>>
    /\ UnchangedByPacking

CancelPacking ==
    /\ failed /\ pack.pc # "ended"
    /\ pack' = At("ended", 0)
    /\ Settle(pack.batch, "dropped")
    /\ UNCHANGED <<stopVars, failed, packed, handoff, zeros>>
    /\ UnchangedByPacking

-----------------------------------------------------------------------------
(* _training_stage.                                                         *)

UnchangedByTraining == UNCHANGED <<mode, maxOff, offset, exhausted, worker, rollouts,
                                   pack, run>>

PostDone == post.pc \in {"none", "done"}
Dispatch(p) == IF p.pc = "waiting" THEN [p EXCEPT !.dispatched = TRUE] ELSE p

(* The training of a batch starts.  The packing stage may go on, at once or *)
(* when the post-train task of the last step is done.  That task waits for  *)
(* the trainer to be dispatched if it was left waiting until now.           *)
StartTraining(batch, sentinel, taken) ==
    /\ next' = train.step + 1
    /\ train' = [pc |-> "train", step |-> train.step, batch |-> batch,
                 sentinel |-> sentinel, taken |-> taken]

NoneReady == mode # "packed" \/ packed = <<>>

(* Mutant: the post-train task is released only by the next training.       *)
TrainTopKeepsTask ==
    /\ train.pc = "top"
    /\ train' = [train EXCEPT !.batch = {}, !.sentinel = FALSE,
                              !.pc = IF train.step >= MaxSteps THEN "wrap"
                                     ELSE IF mode = "packed" THEN "get"
                                     ELSE "collect"]
    /\ UNCHANGED <<version, next, stopVars, finished, failed, packed, handoff,
                   accept, post, zeros, fate>>
    /\ UnchangedByTraining

(* The top of the loop: the step limit, and the wait for a batch.  The last *)
(* step's post-train task is released unless a prepared batch is there.     *)
TrainTop ==
    /\ train.pc = "top"
    /\ IF train.step >= MaxSteps
       THEN train' = [train EXCEPT !.pc = "wrap"] /\ UNCHANGED post
       ELSE /\ train' = [train EXCEPT !.batch = {}, !.sentinel = FALSE,
                                      !.pc = IF mode = "packed" THEN "get"
                                             ELSE "collect"]
            /\ post' = IF NoneReady THEN Dispatch(post) ELSE post
    /\ UNCHANGED <<version, next, stopVars, finished, failed, packed, handoff,
                   accept, zeros, fate>>
    /\ UnchangedByTraining

(* Mutant: a batch that the end of the queue cut short is not trained on.   *)
TrainCollectStops == \E flat \in FlatChoices(train) :
    LET c == Collected(train, flat) IN
    /\ CollectRound(train, flat, {})
    /\ IF c.pc = "collect" THEN train' = c /\ UNCHANGED next
       ELSE IF c.sentinel
       THEN train' = [c EXCEPT !.pc = "wrap"] /\ UNCHANGED next
       ELSE StartTraining(c.batch, c.sentinel, c.step)
    /\ UNCHANGED <<version, finished, failed, packed, handoff, accept, post>>
    /\ UnchangedByTraining

TrainCollect == \E flat \in FlatChoices(train) :
    LET c == Collected(train, flat) IN
    /\ CollectRound(train, flat, {})
    /\ IF c.pc = "collect" THEN train' = c /\ UNCHANGED next
       ELSE IF c.batch = {}
       THEN train' = [c EXCEPT !.pc = "wrap"] /\ UNCHANGED next
       ELSE StartTraining(c.batch, c.sentinel, c.step)
    /\ UNCHANGED <<version, finished, failed, packed, handoff, accept, post>>
    /\ UnchangedByTraining

TrainCollectFails ==
    /\ CollectFails(train)
    /\ train' = [train EXCEPT !.pc = "ended", !.batch = {}]
    /\ UNCHANGED <<version, next, finished, packed, handoff, accept, post>>
    /\ UnchangedByTraining

(* A prepared batch is taken.  The code discards one with a group that is   *)
(* stale at this step; PackedForItsStep shows that there is none.           *)
TrainGet ==
    /\ train.pc = "get" /\ packed # <<>>
    /\ packed' = <<>>
    /\ LET item == Head(packed) IN
       IF item = None
       THEN /\ train' = [train EXCEPT !.pc = "wrap"]
            /\ UNCHANGED <<next, handoff, post>>
       ELSE /\ StartTraining(item.batch, item.sentinel, item.step)
            /\ handoff' = PostDone
            /\ post' = IF PostDone THEN post ELSE [post EXCEPT !.handoff = TRUE]
    /\ UNCHANGED <<version, stopVars, finished, failed, accept, zeros, fate>>
    /\ UnchangedByTraining

(* The backend reports that the trainer job is on its way.                  *)
TrainDispatched ==
    /\ train.pc = "train" /\ post.pc = "waiting" /\ ~post.dispatched
    /\ post' = Dispatch(post)
    /\ UNCHANGED <<version, next, stopVars, finished, failed, packed, handoff,
                   accept, train, zeros, fate>>
    /\ UnchangedByTraining

(* backend.train returns, or raises.  The training stage then waits for the *)
(* post-train task of the step before.                                      *)
TrainReturns ==
    /\ train.pc = "train"
    /\ post.pc = "waiting" => post.dispatched
    /\ train' = [train EXCEPT !.pc = "trained"]
    /\ UNCHANGED <<version, next, stopVars, finished, failed, packed, handoff,
                   accept, post, zeros, fate>>
    /\ UnchangedByTraining

TrainRaises ==
    /\ "train" \in Failures[mode] /\ train.pc = "train"
    /\ train' = [train EXCEPT !.pc = "raising", !.batch = {}]
    /\ post' = Dispatch(post)
    /\ Settle(train.batch, "dropped")
    /\ UNCHANGED <<version, next, stopVars, finished, failed, packed, handoff,
                   accept, zeros>>
    /\ UnchangedByTraining

(* backend.train returns without having reported the dispatch of its job:   *)
(* the stage releases the post-train task and raises at once.               *)
TrainUnsignalled ==
    /\ "train" \in Failures[mode] /\ train.pc = "train"
    /\ post.pc = "waiting" /\ ~post.dispatched
    /\ failed' = TRUE
    /\ train' = [train EXCEPT !.pc = "ended", !.batch = {}]
    /\ post' = Dispatch(post)
    /\ Settle(train.batch, "dropped")
    /\ UNCHANGED <<version, next, stopVars, finished, packed, handoff, accept,
                   zeros>>
    /\ UnchangedByTraining

TrainRaised ==
    /\ train.pc = "raising" /\ PostDone
    /\ failed' = TRUE
    /\ train' = [train EXCEPT !.pc = "ended"]
    /\ UNCHANGED <<version, next, stopVars, finished, packed, handoff, accept,
                   post, zeros, fate>>
    /\ UnchangedByTraining

(* The new version is published and its post-train task created.            *)
Publish ==
    /\ train.pc = "trained" /\ PostDone
    /\ version' = train.step + 1 /\ next' = train.step + 1
    /\ post' = [pc |-> "waiting", dispatched |-> FALSE, handoff |-> FALSE]
    /\ Settle(train.batch, "trained")
    /\ train' = [train EXCEPT !.pc = IF train.sentinel THEN "wrap" ELSE "top",
                              !.step = train.step + 1, !.batch = {}]
    /\ UNCHANGED <<stopVars, finished, failed, packed, handoff, accept, zeros>>
    /\ UnchangedByTraining

(* After the loop: the last post-train task is released and awaited, no     *)
(* prepared batch is accepted any more, ...                                 *)
TrainWrap ==
    /\ train.pc = "wrap"
    /\ train' = [train EXCEPT !.pc = "wrapped"]
    /\ post' = Dispatch(post)
    /\ UNCHANGED <<version, next, stopVars, finished, failed, packed, handoff,
                   accept, zeros, fate>>
    /\ UnchangedByTraining

TrainRefuses ==
    /\ train.pc = "wrapped" /\ PostDone
    /\ train' = [train EXCEPT !.pc = "finish"]
    /\ accept' = FALSE
    /\ UNCHANGED <<version, next, stopVars, finished, failed, packed, handoff,
                   post, zeros, fate>>
    /\ UnchangedByTraining

(* Mutant: pending batches leave the queue but are not discarded.           *)
DiscardPreparedKeeps ==
    /\ packed' = <<>>
    /\ handoff' = (handoff \/ ToSet(packed) \ {None} # {})
    /\ UNCHANGED fate

(* _discard_pending_prepared_batches                                        *)
DiscardPrepared ==
    /\ packed' = <<>>
    /\ LET items == {i \in ToSet(packed) : i # None} IN
       /\ Settle(UNION {i.batch : i \in items}, "dropped")
       /\ handoff' = (handoff \/ items # {})

(* ... the shared queue is finished, what is prepared is discarded, and     *)
(* everyone is told to stop.                                                *)
TrainFinishes ==
    /\ train.pc = "finish"
    /\ train' = [train EXCEPT !.pc = "ended"]
    /\ finished' = (finished \/ mode # "local")
    /\ DiscardPrepared
    /\ RequestStop(IF train.step >= MaxSteps THEN "steps" ELSE "end", queue)
    /\ UNCHANGED <<version, next, failed, accept, post, zeros>>
    /\ UnchangedByTraining

(* A failure elsewhere cancels the training stage where it waits: not       *)
(* between two awaits, nor in a get that finds a batch at once.  If it      *)
(* waits for the post-train task, the cancellation reaches the task.        *)
CancelTraining ==
    /\ failed /\ train.pc \notin {"top", "wrap", "ended"}
    /\ train.pc = "get" /\ post.pc = "waiting" => post.dispatched
    /\ train' = [train EXCEPT !.pc = "ended", !.batch = {}]
    /\ Settle(train.batch, "dropped")
    /\ IF train.pc \in {"trained", "raising", "wrapped"} /\ ~PostDone
       THEN /\ post' = [post EXCEPT !.pc = "done"]
            /\ handoff' = (handoff \/ post.handoff)
       ELSE UNCHANGED <<post, handoff>>
    /\ UNCHANGED <<version, next, stopVars, finished, failed, packed, accept,
                   zeros>>
    /\ UnchangedByTraining

-----------------------------------------------------------------------------
(* _finalize_post_train.                                                    *)

(* Variant: the notification wakes one of the workers (notify for           *)
(* notify_all).                                                             *)
PostNotifyOne ==
    /\ post.pc = "waiting" /\ post.dispatched
    /\ post' = [post EXCEPT !.pc = "working"]
    /\ IF \E w \in Workers : worker[w].pc = "waiting"
       THEN \E w \in Workers :
               /\ worker[w].pc = "waiting"
               /\ Become(w, [worker[w] EXCEPT !.pc = "gate"])
       ELSE UNCHANGED worker
    /\ UNCHANGED <<mode, maxOff, version, next, offset, exhausted, cause,
                   failed, rollouts, queueVars, packVars, accept, train, zeros,
                   run, fate>>

(* Once the next job is dispatched, workers that wait for the policy wake.  *)
PostNotify ==
    /\ post.pc = "waiting" /\ post.dispatched
    /\ post' = [post EXCEPT !.pc = "working"]
    /\ worker' = [w \in Workers |->
                    IF worker[w].pc = "waiting" THEN [worker[w] EXCEPT !.pc = "gate"]
                    ELSE worker[w]]
    /\ UNCHANGED <<mode, maxOff, version, next, offset, exhausted, cause, failed,
                   rollouts, queueVars, packVars, accept, train, zeros, run,
                   fate>>

(* Logging and housekeeping end; the discarded groups have been logged.     *)
PostFinish ==
    /\ post.pc = "working"
    /\ post' = [post EXCEPT !.pc = "done"]
    /\ handoff' = (handoff \/ post.handoff)
    /\ zeros' = 0
    /\ UNCHANGED <<mode, maxOff, version, next, offset, exhausted, cause, failed,
                   worker, rollouts, queueVars, pack, packed, accept, train,
                   run, fate>>

-----------------------------------------------------------------------------
(* run: when all stages have ended, pending prepared batches are discarded  *)
(* and the post-train tasks awaited.                                        *)

StagesEnded == /\ rollouts = "ended" /\ pack.pc = "ended" /\ train.pc = "ended"
               /\ \A w \in Workers : worker[w].pc = "ended"

Cleanup ==
    /\ run = "stages" /\ StagesEnded
    /\ run' = "gather"
    /\ accept' = FALSE
    /\ DiscardPrepared
    /\ IF failed THEN RequestStop("failure", queue) ELSE UNCHANGED stopVars
    /\ UNCHANGED <<mode, maxOff, version, next, offset, exhausted, failed, worker,
                   rollouts, finished, pack, train, post, zeros>>

Return ==
    /\ run = "gather" /\ PostDone
    /\ run' = "ended"
    /\ UNCHANGED <<mode, maxOff, version, next, offset, exhausted, cause, failed,
                   worker, rollouts, queueVars, packVars, accept, train, post,
                   zeros, fate>>

WorkerStep(w) == \/ GetNextScenario(w) \/ WaitForPolicy(w) \/ FinishRollout(w)
                 \/ PutOutputGroup(w) \/ CancelWorker(w) \/ NoticeRaised(w)
PackStep == \/ PackStart \/ PackCollect \/ PackPrepared \/ PackUnusable
            \/ PackHandedOff \/ CancelPacking
TrainStep == \/ TrainTop \/ TrainCollect \/ TrainGet \/ TrainReturns
             \/ TrainRaised \/ Publish \/ TrainWrap \/ TrainRefuses
             \/ TrainFinishes \/ CancelTraining

Next ==
    \/ \E w \in Workers : WorkerStep(w) \/ FatalRollout(w)
    \/ RolloutStage \/ SignalStop \/ DeliverEnd
    \/ PackStep \/ PackFails \/ PackCollectFails
    \/ TrainStep \/ TrainDispatched \/ TrainRaises
    \/ TrainCollectFails \/ TrainUnsignalled
    \/ PostNotify \/ PostFinish
    \/ Cleanup \/ Return

Spec == Init /\ [][Next]_vars

-----------------------------------------------------------------------------
(* Everyone runs: rollouts return, the backend dispatches and finishes its  *)
(* jobs, cancellations and background calls are carried out.  Nothing is    *)
(* said of signals and failures.                                            *)
Fairness ==
    /\ \A w \in Workers : WF_vars(WorkerStep(w))
    /\ WF_vars(RolloutStage) /\ WF_vars(DeliverEnd)
    /\ WF_vars(PackStep) /\ WF_vars(TrainStep) /\ WF_vars(TrainDispatched)
    /\ WF_vars(PostNotify) /\ WF_vars(PostFinish)
    /\ WF_vars(Cleanup) /\ WF_vars(Return)

LiveSpec == Spec /\ Fairness

-----------------------------------------------------------------------------
(* Properties.                                                              *)

Stage(pcs) == [pc : pcs, step : 0..ScenarioCount, batch : SUBSET Groups,
               sentinel : BOOLEAN]

(* The variables hold the kinds of values the code keeps in them; no batch  *)
(* exceeds MaxBatch and no queue its size, and no more steps are trained    *)
(* than there are scenarios.                                                *)
TypeOK ==
    /\ mode \in Modes /\ maxOff \in MaxOffs[mode]
    /\ {version, next, offset} \subseteq 0..ScenarioCount
    /\ {exhausted, failed, finished, handoff, accept} \subseteq BOOLEAN
    /\ cause \in {None, "signal", "collapse", "steps", "end", "failure"}
    /\ worker \in [Workers -> [pc : {"idle", "gate", "waiting", "rollout",
                                     "putting", "raised", "ended"},
                               scenario : Scenarios \cup {None},
                               born : 0..version]]
    /\ rollouts \in {"running", "sentinel", "ended"}
    /\ queue \in Seq(Groups \cup {None}) /\ Len(queue) <= QueueSize
    /\ ends \in 0..1
    /\ pack \in Stage({"start", "collect", "prepare", "handoff", "ended"})
    /\ packed \in Seq(Prepared \cup {None}) /\ Len(packed) <= 1
    /\ train \in [pc : {"top", "get", "collect", "train", "trained", "raising",
                        "wrap", "wrapped", "finish", "ended"},
                  step : 0..ScenarioCount, batch : SUBSET Groups,
                  sentinel : BOOLEAN, taken : 0..ScenarioCount]
    /\ post \in [pc : {"none", "waiting", "working", "done"},
                 dispatched : BOOLEAN, handoff : BOOLEAN]
    /\ Cardinality(pack.batch) <= MaxBatch /\ Cardinality(train.batch) <= MaxBatch
    /\ zeros \in 0..CollapseLimit
    /\ run \in {"stages", "gather", "ended"}
    /\ fate \in [Scenarios -> Fates \cup {None}]

Training == train.pc \in {"train", "trained"}

(* No group is trained on that is older than max_steps_off_policy at the    *)
(* step that trains it, although the version it started with, the step its  *)
(* batch was selected for and the step that uses it are read at different   *)
(* times by different stages.                                               *)
TrainsFresh ==
    Training => \A g \in train.batch : ~Stale(g, train.step)

(* A batch packed ahead is trained at the step its packing stage selected   *)
(* it for: the handoff comes after next_training_step moved and before the  *)
(* next batch is selected.  The training stage's own check of a prepared    *)
(* batch for stale groups can therefore not find any.                       *)
PackedForItsStep ==
    /\ Training => train.taken = train.step
    /\ train.pc = "get" => \A i \in ToSet(packed) \ {None} : i.step = train.step

(* However the pipeline ends, no prepared batch is left in the packed queue *)
(* for nobody to discard, and only groups in the result queue are without a *)
(* fate.  One that ends because its source ran dry has used every scenario: *)
(* each group was trained on or discarded for a reason of its own, none was *)
(* left behind in a queue, a batch or an abandoned worker.                  *)
NothingLost ==
    run = "ended" =>
        /\ packed = <<>>
        /\ \A s \in 1..offset :
              fate[s] # None \/ \E g \in ToSet(queue) \ {None} : g.scenario = s
        /\ cause = "end" /\ ~failed =>
              \A s \in Scenarios : fate[s] \in Fates \ {"dropped"}

(* The pipeline ends: the gate of the workers opens again after each step,  *)
(* the packing stage and the training stage do not wait for each other, and *)
(* a stop reaches every stage.                                              *)
PipelineEnds == <>(run = "ended")

(* A fatal failure of a stage ends run, which raises it                     *)
(* (test_fatal_rollout_worker_failure_is_propagated).                       *)
FailureIsPropagated == failed ~> run = "ended"
=============================================================================
