# TLA+ verification of OpenPipe ART

This directory holds TLA+ models of the parts of ART (the reinforcement-learning
training framework of this repository) whose correctness depends on the order in
which concurrent tasks, processes and hosts act. TLC checks the models on small
instances, and the TLA+ proof system (TLAPS) proves theorems about them for every
value of their constants. Paths are relative to `src/`; `art/` stands for
`src/art/` there.

Contents: [the system](#1-the-system-and-its-parts),
[what can go wrong](#2-hazards), [the modules](#3-the-modules),
[the runs](#4-the-runs), [fairness](#5-fairness), [the proofs](#6-the-proofs),
[disagreements found](#7-disagreements-with-the-repositorys-own-statements),
[what is left out](#8-what-is-not-modelled), [the plan](#9-plan).

## 1. The system and its parts

ART trains language models with reinforcement learning. A *pipeline*
(`art/pipeline_trainer/trainer.py`) runs its stages as tasks of one event loop:
*rollout workers* play scenarios against the policy being served and produce
trajectory groups; the *packing stage* collects groups into batches and packs
them into tensors one step ahead of training; the *training stage* runs optimizer
steps and publishes new policy versions; an *evaluation stage* and a *status
task* watch. In the distributed set-up the records of a group stay with the
rollout host that produced them (the *owner*), references to them pass through a
bounded queue on another host, and packed tensors are fetched by the training
ranks.

| Part | State it keeps | Operations | Interacts with |
|---|---|---|---|
| Host queue: `TrajectoryQueueStore`, `art/distributed/trajectory_store.py` | entries with phase, consumer, claim and packing generation; FIFO of ready groups; used records and bytes; pending minimum; limit and its generation | enqueue, take, mark_packed, release, resize, finish, close, snapshot | the queue client, over RPC, one synchronous handler at a time |
| Owner records: `TrajectoryRecordStore`, same file | stored groups, byte budget, tombstones | put, fetch, drop, close | rollout workers, packing, the client's clean-up |
| Queue client: `DistributedTrajectoryQueue`, `art/distributed/rollout.py` | wanted and reserved size, resize tasks, futures of blocked callers, owner clean-up tasks, closed flag | put, get_many, set_maxsize, snapshot, mark_packed, release_selections, finish, close | pipeline stages and tuner (calls), host queue and owners (RPC) |
| Rollout executor, `art/distributed/rollout.py`, and worker controller, `art/pipeline_tuner/worker_controller.py` | worker slots, running scenarios | run, resize, retire | actors on rollout hosts |
| Pipeline trainer, `art/pipeline_trainer/trainer.py`, `state.py` | policy version, next step, scenario offset, stop flag, packed queue, handoff and dispatch events, discard queue, evals, persisted progress | one loop per stage, request_stop, train's clean-up | queue, backend, checkpoints, user code |
| Checkpoint retention and adapter leases: `art/pipeline_trainer/checkpoint_retention.py`, `art/local/adapter_leases.py`, `art/local/checkpoints.py` | checkpoints on disk, leases per step | lease, prune, delete | trainer, evaluations, serving |
| Packed data plane: `art/distributed/data_plane.py`, `art_runtime.py` (`pack`, `_reclaim_batch`) | shared-memory stores of the trainer hosts, publishers, fences, live batches | create, publish, receive, drop, reclaim, close | packing stage, training ranks, backend |
| Megatron distributed service and backend: `art/megatron/distributed_service.py`, `backend.py`, `runtime/publication.py` | learner and serving step, publication tasks and futures, train, serving and mutation lock, loaded adapters, releases behind training | train, publish, acquire, prune, recover, release | data plane, queue, replicas, optimizer state |
| Durable optimizer state: `art/megatron/optimizer_state.py`, `runtime/executor.py` | adapter checkpoints, generations, `committed.json`, `policy.json` | persist, commit, advance, prune, recover, resume | trainer ranks, the service, a restart |
| Adapter transport and replicas: `art/distributed/adapter_transport.py`, `vllm_replica.py` | adapter generations per replica, phase of a replica | transfer, activate, poll, restart | trainer ranks, inference engines |
| Host actors: `art/distributed/monarch_actor.py` | the stores above, preflight sessions | typed endpoints | everything distributed |
| Trainer rank: `art/trainer_rank/` | command sequence, adapter slots, versions | collective commands, checkpoint | ranks in lock step |
| Local backend: `art/local/backend.py`, `service.py` | services, leases, prune guard | train, prune, serve | trainer, vLLM |
| Pipeline tuner: `art/pipeline_tuner/` | measurements, settings | attach, propose sizes | trainer, queue |
| Tinker-compatible server: `art/tinker/` | sessions, futures | HTTP requests | training session |

`PROJECT.json` lists further components that hold tensor code, data conversion,
process start-up or client adapters, each with the reason it is left alone.

What is hard in it, and the properties that make each part correct:

* **Host queue.** Producers repeat enqueues, consumers take with changing counts,
  leases are presented late, resize operations overtake each other. Correct when
  FIFO, phases and counters agree; a lease names one acquisition and is never
  given away; groups leave in arrival order; a pending minimum belongs to one
  consumer; a late resize does not undo a newer one.
* **Queue client and owners.** Every call is an await in which anything else may
  run, and a task may be cancelled in it. Correct when the records of a queued
  group are never dropped, no record is forgotten, no lease is lost, the minimum
  a consumer waits for is never made impossible by a resize, and nobody is left
  sleeping.
* **Pipeline trainer.** Four kinds of tasks read the policy version and the next
  step at different times; three events and two queues connect them; any of them
  may fail or be told to stop. Correct when no group is trained on beyond
  `max_steps_off_policy`, a batch packed ahead is used at its own step, no
  scenario is lost when the source runs dry, and the pipeline always ends.
* **Retention and leases.** Checkpoints are deleted while rollouts and evaluations
  use them and while the next one is being written, from a list made before the
  deletion waits. Correct when nothing is deleted under a reader or unseen,
  evaluations keep pace with training and are all run, and `train` returns.
* **Data plane.** A batch is packed on one host and copied to the others, by calls
  that go on after their caller was cancelled; it is released behind training.
  Correct when what the ranks open is on every host, no shared memory is lost, and
  the bounded stores have room for every batch.
* **Durable state.** Several ranks write files that belong together, and a crash
  may come between any two writes. Correct when what is committed is whole and
  stays, and a restart goes on from exactly the last committed step.
* **Publication and replicas.** Steps are transferred, served and pruned behind
  training, under three locks, while a replica may fail. Correct when whoever
  leases an adapter finds it loaded, steps are served in order, and everybody who
  waits is told, also of failures.

## 2. Hazards

`PROJECT.json` lists each hazard of this code at the line where it bites, with
the properties that cover it or the reason why none does. The kinds that
dominate are cancellation at an await (`rollout.py:461`, `:534`, `:703`), also of
calls that go on remotely (`data_plane.py:262`); wake-ups that come before the
sleep (`rollout.py:441`); resizes that arrive late or are taken out of a shared set
by another caller (`:637`, `:672`); values read by one stage and used by another
after it moved (`trainer.py:1773`, `:1302`, `:2374`, `:2418`); events that only one
path sets (`:1359`); crashes between two files (`optimizer_state.py:935`, `:1910`,
`:2242`); locks held while others are waited for
(`megatron/distributed_service.py:1843`); and bounded stores (`trajectory_store.py:743`,
`data_plane.py:441`).

## 3. The modules

| Module | Models | Extends / instantiates |
|---|---|---|
| `TrajectoryQueueStore` | the host queue | community modules only |
| `TrajectoryQueueStoreProofs` | its theorems | `TrajectoryQueueStore`, TLAPS |
| `DistributedTrajectoryQueue` | the client, its callers, the owners | instantiates the store as `Store` |
| `DistributedTrajectoryQueueProofs` | its records, leases and the refinement of the store | `DistributedTrajectoryQueue`, `TrajectoryQueueStoreProofs` as `StoreProofs`, TLAPS |
| `DistributedTrajectoryQueueLimitProofs` | its limit and its minimum | `DistributedTrajectoryQueueProofs` |
| `PipelineTrainer` | the pipeline's stages | community modules only |
| `PipelineTrainerProofs` | its theorems | `PipelineTrainer`, TLAPS |
| `CheckpointRetention` | evaluations, leases, retention and deletion of checkpoints | community modules only |
| `CheckpointRetentionProofs` | its theorems | `CheckpointRetention`, TLAPS |
| `OptimizerState` | the durable files, commit, recovery and resumption, with crashes | instantiates `DurableTraining` |
| `OptimizerStateProofs` | its theorems and the refinement | `OptimizerState`, TLAPS |
| `DurableTraining` | what those files promise | nothing |
| `PolicyPublication` | publication, serving, pruning, replica recovery | standard modules only |
| `PolicyPublicationProofs` | its theorems | `PolicyPublication`, TLAPS |
| `PackedBatches` | packing, fan-out, release and reclamation of batches | standard modules only |
| `PackedBatchesProofs` | its theorems | `PackedBatches`, TLAPS |
| `MC...` | small instances for TLC | the module of that name |

**Composition and abstract specifications.** `TrajectoryQueueStore!Spec` is the
abstract specification of what the host queue promises any legal client, and is
what the proofs are about. `DistributedTrajectoryQueue` shares its variables with
an instance of it and `StoreSpec` states that every step of the detailed system
is a step of the store, or none: what is proved of the store therefore holds in
the composed system. TLC checks the refinement, and `ImplementsStore` proves it. `PipelineTrainer` in turn
sees the queue through what the client's model shows: a put ends when there is
room or the queue is finished, get_many returns a minimum or the end
(`EveryPutEnds`, `PackingStops`).

`DurableTraining` is the second abstract specification: training learns steps,
some of them become committed, a crash loses exactly the others, and training
goes on from the last committed one. `OptimizerState!PromiseKept` is the
refinement: the files with their pointers, temporary file, torn writes, recovery
and quarantine implement those six lines, with `committed` mapped to the step the
files would commit if recovery completed the pointer now.

`CheckpointRetention`, `OptimizerState` and `PolicyPublication` look at one
training loop from three sides, and each reduces the others to what it needs: the
steps, who leases or reads them, and how late they become durable.

### TrajectoryQueueStore

Every handler of `TrajectoryQueueStore` is a synchronous method on the host's
event loop, hence one atomic action. What it returns or raises is a state
function evaluated before the step (`EnqueueStatus`, `TakeOutcome`, `TakeClosed`,
`CanMarkPacked`, `CanRelease`).

| Variable | Code | | Action | Code |
|---|---|---|---|---|
| `phase`, `consumer`, `claim`, `packing` | `_entries` (`_QueueEntry`) | | `Enqueue` | `enqueue` |
| `ready` | `_ready` | | `Take` | `take`, counts > 0, < 0 and 0 |
| `usedRecords`, `usedBytes` | `_used_records`, `_used_bytes` | | `MarkPacked` | `mark_packed` |
| `pendingMinimum`, `minimumError` | `_pending_minimum`, `_minimum_error` | | `Release` | `release` |
| `maxReadyGroups`, `generation` | `max_ready_groups`, `_resize_generation` | | `Resize`, `IssueResize` | `resize`, and the client's numbering of it |
| `claimGeneration` | `_claim_generation` | | `Finish`, `Close` | `finish`, `close` |

Groups are model values with a number of records and bytes; contents are
abstracted away. Result ids are minted once (`uuid4`), so a released group never
returns. `Next` drives the store with any legal client: it repeats enqueues, and
presents every set of leases that was ever handed out, however late.

### DistributedTrajectoryQueue

All callers of the client are tasks of one event loop, so the code between two
awaits is one action. An await on the endpoint is three: the call leaves, the
handler runs on the host (an action of `Store`), and the reply resumes the caller.

| Variable | Code |
|---|---|
| store variables | the host queue |
| `owned` | groups in the owners' `TrajectoryRecordStore` |
| `puts[g]` | the running `put` of group g: program counter, reply, pending cancellation, whether its space future is resolved, whether it still has to drop |
| `get` | the packing stage and the `get_many` it is in; `minimumTakeSize` is `_minimum_take_size` |
| `stage` | groups fetched, collected, handed to the trainer |
| `rel` | `release_selections` calls of the packing stage and the trainer |
| `size` | `maxsize`, `_effective_maxsize`, resize tasks and their states, `_resize_tasks`, and what each `_flush_resizes` waits for |
| `shut` | `finish`, `close`, `_cleanup_refs`, owner clean-up tasks, `_owner_cleanup_failure` |
| `used` | counters of the bounds |

`PutStart … PutDrop` are `put`; `GetStart … Withdrawn` are `get_many` and its
cancellation handler; `Keep`, `Discard`, `Pack…` are what `_collect_batch` and
`_packing_stage` do with the groups; `SetMaxsize`, `HostResize`, `ResizeReply`,
`FlushMore` are `_sync_maxsize`, `_schedule_resize` and `_flush_resizes`;
`CleanOwner…` is `_drain_owner_cleanup`; `Close…` the steps of `close`. Futures
are modelled by when they are registered (`SpaceRegistered`, `ItemsRegistered`):
a notification wakes those registered at that moment and no others. That is the
point where a lost wake-up would come from.

### PipelineTrainer

A stage's code from one await to the next is one action. The constant `Modes`
says which kinds of trainer are explored, `MaxOffs` with which
`max_steps_off_policy` (`maxOff`), and the variable `mode`, fixed by
`Init` as `maxOff` is, which one runs: the local `asyncio.Queue` that ends with a `None`
(`"local"`), the shared queue (`"shared"`), or the shared queue with a backend
that packs ahead (`"packed"`).

| Variable | Code |
|---|---|
| `version`, `next`, `offset` | `state.policy_version`, `state.next_training_step`, `state.scenario_offset` |
| `exhausted`, `cause`, `failed` | `_scenario_source_exhausted`; `state.done` with who set it; a stage raised and the task group cancels the others |
| `worker[w]` | a rollout worker: where it is, its scenario and the version it started with |
| `rollouts` | `_rollout_stage` after its controller returned |
| `queue`, `ends`, `finished` | `_output_queue`; background `put(None)` or `finish()` tasks; the shared queue is finished |
| `pack`, `packed`, `handoff`, `accept` | `_packing_stage`; `_packed_queue` (size 1); the handoff event of its last item; `_accept_prepared_batches` |
| `train`, `post` | `_training_stage` and the batch it works on; the post-train task of the last step with the event it waits for |
| `zeros` | length of `_discard_queue` |
| `run`, `fate` | where `train()` itself is; what became of each scenario (a history variable) |

`GetNextScenario`, `WaitForPolicy`, `FinishRollout`, `PutOutputGroup` are
`_rollout_worker`; `CollectRound` is one round of `_collect_batch`, shared by the
packing stage (`PackCollect`) and, without one, the training stage
(`TrainCollect`); `TrainGet` takes a prepared batch and performs the handoff;
`Publish` is the end of a step; `PostNotify`, `PostFinish` are
`_finalize_post_train`; `TrainWrap`, `TrainRefuses`, `TrainFinishes` the end of
the training stage; `Cleanup`, `Return` the `finally` of `train`. Rewards,
tensors and metrics are abstracted to what the stages branch on: a group may be
flat (no reward variance), a rollout may fail with an ordinary or a fatal error,
packing may find nothing to train on, fail or succeed, training may fail. A fatal
error is raised in the worker (`FatalRollout`) and noticed by the controller of the
rollouts later (`NoticeRaised`), with a stop possible in between, which then ends the
stage instead. A round of `_collect_batch` may raise (`PackCollectFails`,
`TrainCollectFails`: `_check_all_failed`), and a backend may complete a
job without having signalled its dispatch (`TrainUnsignalled`). A batch
is a set: no decision of the stages depends on the order of its groups, and no group
is in it twice.

### CheckpointRetention

A rollout, the post-train task with its retention, the evaluation stage, `train()`
and a backend that saves a checkpoint with the step (`"local"`) or up to `Capacity`
steps later from the ranks (`"megatron"`).

| Variable | Code |
|---|---|
| `step`, `train` | `current_step` of `_training_stage`; where it is, and `should_eval_step`, read before the job starts |
| `post` | the post-train task: the checkpoints it listed, those it keeps, whether the next job was dispatched |
| `learned`, `written`, `serving` | the snapshots taken and written (`_GenerationPublisher`), the service's step |
| `files`, `optimizer` | the checkpoints directory; the optimizer generations |
| `lease`, `evals` | `_adapter_lease` of each worker; `_eval_queue`, `_scheduled_eval_leases`, the evaluation that runs |
| `asked`, `lastEval` | every step an evaluation was scheduled for (history); `state.last_eval_step` |
| `cause`, `run` | who set `state.done`; where `train()` is |

`PostRetention` computes the protected set and calls the strategy, an arbitrary
subset of what is offered (`_run_checkpoint_retention`); `PostLease` waits for the
mutation lock and takes the retention lease; `PostPrune` prunes the optimizer
generations; `PostDelete` lists the directory again and deletes what it chose, all in
one step (in the code one directory after the other, in a thread).

### OptimizerState

Actions are the writes themselves, in the order the code makes them durable:
`CommitManifest`, `CommitRename`, `CommitTemp` (which a crash may leave torn),
`CommitPointer`, `CommitPolicy` for a generation; `LinkAlias`, `CommitAlias` for a
step without training; `WriteAdapter`, `Persist` for each rank; `Prune`.
`Crash` may come anywhere, also between two moves of the preparation to resume
(`Recover`, `ResolveResume`, `MoveGeneration`, `MoveCheckpoint`, `Quarantine`,
`Restart`).
A generation is `[step, life]`: the code draws a random identity, and what matters
is that two lives never share one. Files are written atomically (`_write_model_atomic`
renames) and are durable once written (it calls `fsync`).

### PolicyPublication

| Variable | Code |
|---|---|
| `trainer`, `latest`, `policy`, `post` | the training stage, `_latest_step`, `state.policy_version`, the post-train task |
| `pub`, `written` | `_publish_generation` of each step; the checkpoints on disk |
| `failure`, `serving`, `endpoint`, `manager` | `_publication_failure`, `_serving_step`, whether the endpoint is announced, phase of the replica manager |
| `engine`, `loaded`, `exact` | adapters the engine has; `_loaded_adapter_steps`; `_loaded_exact_adapter_steps` |
| `train`, `serve` | holder of the train lock; the serving lock with its queue (`asyncio.Lock` is first in, first out) |
| `leases`, `prune` | `AdapterLeaseManager`; the prune task, which keeps the manager while it waits for the serving lock |
| `rollout`, `eval` | the rollout workers and the evaluation with what they wait for or lease |

The `Pub…` actions are `_publish_generation` from transfer to durable, and its
failures; `Recover…` are `_replica_failed` to `_recover_replica_locked`; `Prune…`
are `prune_model_adapters` down to `prune_loaded_adapters`. `Ready` is the one
assumption about time: a task of the event loop that can go on does so before the
loop hears of the next job, load, write or failure. Without it a worker could
sleep, between being told that its step is served and asking for the lease, for
the length of two training steps.

### PackedBatches

| Variable | Code |
|---|---|
| `topology` | the trainer hosts; a constant of a behaviour |
| `entries`, `fenced`, `published` | `_entries` and `_reclaimed` of `SharedMemoryPackedBatchStore`; `_batch_publishers` |
| `calls` | calls that have been sent, also by callers that were cancelled |
| `live` | `ArtRuntime._live_batches` |
| `pack`, `queue`, `train` | the packing stage in `ArtRuntime.pack`, `fanout_packed_batch` and `prepare_pipeline_batch`; `_packed_queue`; the training stage in `_stream_prepared_training` and `_finish_training_batch` |
| `release`, `background` | `_reclaim_batch` of each batch; `_batch_release_tasks` |

`Host…` are the handlers of the host actor. Plain endpoints of one actor are taken
to run one at a time (those that may overlap are marked `concurrent=True` in
`monarch_actor.py`), and calls to be handled in any order. `Pack…` is the packing
stage, with `PackInterrupted` for a cancellation at any of its awaits; `Train…` the
training stage; `ReleaseEnds` forgets a batch only when every host has answered;
`Close` reclaims what is still listed and `CloseHosts` follows whether or not that
worked.

## 4. The runs

`tlc -config <cfg> MC<module>`; every run finishes in three minutes at most, with
two workers. Deadlock is not reported (`CHECK_DEADLOCK FALSE`) where a system ends:
the queue is closed, the pipeline returns, the runtime is closed. That they end
only where they should is what the liveness properties check instead.

| Run | Config | Checks | Shows |
|---|---|---|---|
| `queue_store` | `QueueStore` | `TypeOK`, `UsageIsExact`, `AcquiredInOrder`, `LeaseIsStable`, `MinimumIsExclusive` | the host queue alone, under every order of legal calls of two consumers |
| `queue_cancel` | `QueueCancel` | `RecordsBackEntries`, `LeasesAreTracked`, `StopsOrWedges` | three puts, of which the third needs the whole queue; one task cancelled anywhere, finish and close at any time; record capacity below a batch |
| `queue_resize` | `QueueResize` | `MinimumIsHonoured`, `LimitConverges`, `StoreSpec` | the tuner shrinks and grows the queue under a waiting `get_many`, calls handled in any order, or in order with the status task's `snapshot`; the refinement of the store |
| `queue_live` | `QueueLive` | `EveryPutEnds`, `PackingStops`, `OwnersEndEmpty` | a queue of one group, one cancellation, one failed drop: nobody sleeps for ever and no owner keeps records |
| `lost_resize` | `QueueLostResize` | `LimitSurvivesCancellation` (violated) | section 7 |
| `pipeline` | `Pipeline` | `TypeOK`, `TrainsFresh`, `PackedForItsStep`, `NothingLost`, `PipelineEnds` | the local queue, the shared queue and packing ahead; a signal at any time, collapse, unusable batches, a step limit, failures of rollouts, packing and training |
| `stuck_cleanup` | `PipelineStuckCleanup` | `FailureIsPropagated` (violated) | section 7 |
| `retention` | `Retention` | `TypeOK`, `EvalsKeepPace`, `EndIsClean`, `SeenInUseSurvive`, `RunReturns` | training, post-train task, rollout, evaluations and deletion, with a backend that saves at once or late |
| `retention_late` | `RetentionLate` | `OnlyOfferedAreDeleted` (violated) | section 7 |
| `optimizer` | `Optimizer` | `TypeOK`, `PointerIsPaired`, `DurableIsKept`, `RefusedOnlyUncommitted`, `LineageIsClean`, `PassFailsOnlyUnsaved`, `PromiseKept` | two ranks, four steps, steps without training, pruning, two crashes anywhere; the refinement of `DurableTraining` |
| `publication` | `Publication` | `TypeOK`, `LeasedIsLoaded`, `ServedInOrder`, `Settles` | three steps published while a rollout and an evaluation hold adapters, with two failures |
| `packed` | `Packed` | `TypeOK`, `BatchIsWhole`, `StorageIsListed`, `PackIsNeverRefused`, `Closes` | meshes of one to three hosts, one cancellation, one failing call |

Each property of a passing run has a mutant in `PROJECT.json`: a plausible bug of
the code (a dropped guard, a missing reset, a swapped order), stated beside the
definition it replaces, under which TLC finds the property violated.

**Reading some of them.** `RecordsBackEntries` fails if a cancelled `put` drops
its records without waiting for the answer of its enqueue; that nothing is kept
for ever either is `OwnersEndEmpty`. `LeasesAreTracked` equates the leases the
host has given with the groups in the hands of the client's activities, one each.
`MinimumIsHonoured` has two halves. `MinimumIsReserved` is why `_sync_maxsize`
takes the maximum of the wanted size and `_minimum_take_size`. `NoSpuriousRefusal`
speaks of schedules in which calls are handled in order: `_flush_resizes` takes the
tasks out of `_resize_tasks`, so while `snapshot` awaits them a `get_many` finds
none and sends its take at once. If a take could overtake a resize sent before it,
the host would refuse it. The transport keeps the order of one sender's messages
to one actor; the run shows that this is enough, and that correctness rests on it.
`StopsOrWedges`: the host declares a minimum unreachable only when every entry is
ready (`_minimum_cannot_make_progress`), and the consumer's own batch holds
entries in phase `packing`. With a record capacity smaller than a batch, all
producers are then answered "full" for ever while the consumer waits for one
more group. The property says that this state, which the code does not detect, is
the only one in which the packing stage fails to stop.
`MinimumIsExclusive`: while the queue is hosted a pending minimum ends only by a take
of its own consumer, which withdraws or meets it; no step replaces it, a take of
another consumer leaves it in place, `take(0)` included, and the groups collected for
it go to nobody else. Its mutant lets another consumer's `take(0)` withdraw it.
`TrainsFresh` relates the version a rollout began with to the step that trains on
its group, across three tasks that read them at different times.
`PackedForItsStep` shows more: a batch packed ahead is trained at exactly the step
it was selected for, so the training stage's own staleness check of a prepared
batch (`_training_stage`, after `_packed_queue.get`) never discards one.

`NothingLost` also says that no prepared batch is left for nobody to discard.
`SeenInUseSurvive` holds although the protected set is computed before the
deletion waits for locks and a thread, because what comes into use meanwhile is
newer than what was listed, or listed and protected; `OnlyOfferedAreDeleted`,
which asks the same of checkpoints that were *not* listed, fails.
`EvalsKeepPace` states what the early read of `should_eval_step` costs: two
evaluations in a row may be closer than `eval_every_n_steps`, of three in a row the
outer two are not, and none is left out.
`PointerIsPaired` and `PromiseKept` are checked with a crash between any two
writes. `PassFailsOnlyUnsaved` bounds a behaviour worth knowing: a step without
training right after a trained step that did not save the optimizer
(`optimizer_save_interval`) is refused as a stale write
(`optimizer_state.py:685`), since no pointer names that step's adapter. The
property says that this is the only case: the step before was learned in this life
(its adapter is of this life, so it was not resumed from), saves no optimizer, and was
never reported durable (so it was neither committed nor a step without training
itself). `LineageIsClean` is about the paths training is going to write; what a rank
loads is not modelled.
`LeasedIsLoaded` needs a retention window of two steps. With `Window = 1`, which
`max_steps_off_policy = 1` gives, TLC finds a rollout whose step is unloaded
between its lease and its end of waiting: the learner runs two steps ahead of what
is served. No statement of the repository promises more, so this is recorded here
as a limit and not as a disagreement.
`BatchIsWhole` is what lets the ranks open a batch by name without asking; it
rests on all copies being awaited and on undoing those that arrived when one did
not. `StorageIsListed` rests on the fence: a pack, publication or copy whose caller
was cancelled is handled after the batch was reclaimed. `PackIsNeverRefused` gives
the number of batches the stores must hold, four: two being released, one trained
on, one packed. With room for three TLC finds the refusal. The code does not
relate `packed_batch_capacity_bytes` (2 GiB by default) to the size of a batch, and
raises rather than waits.

**Bounds.** All are constants used in guards.

* *Queue* (`MaxResizes`, `MaxCancels`, `MaxDropFailures`, `MaxTake`): three or four
  groups on a queue of one to three, with records that fit pairwise but not all
  together and, in `queue_store`, one group larger than the queue, so that full,
  oversize, partial and over-capacity answers all occur; two resizes in the store
  alone, and four in the client because one shrink-and-grow cycle under a
  reservation issues up to four. One cancellation and one failing drop separate
  every await of `put`, `get_many` and `close`. With a failing drop as well,
  `queue_cancel` holds too, but takes longer. `queue_resize` has no cancellation, so it
  does not show that a cancelled `get_many` withdraws its minimum: `MinimumHonoured`
  proves that, and with one cancellation `MinimumIsHonoured` was checked once for calls
  handled in order (4.5 million states; it fails when the withdrawal is left out).
  `queue_live` and `queue_cancel` have no resize, so what wakes a blocked `put` or
  `get_many` there is a release, a put or the end. Together with a cancellation a
  growing limit can be lost (section 7), and then a consumer does wait for ever.
* *Pipeline* (`ScenarioCount`, `MaxSteps`, `MaxOffs`): two workers (one ahead of the
  gate and one behind it), three scenarios, i.e. a batch being trained, one packed and
  one in a worker; `max_steps_off_policy` 0 in every mode, and 1 too with packing
  ahead. At 0 the gate of the workers is closed while a step is trained, so that
  `WaitForPolicy` finds the policy too old, workers wait, and only `PostNotify` wakes
  them (the mutant of `PipelineEnds` wakes one of them and leaves the other asleep);
  at 1 a batch may be packed with groups of the step before. Batches of one or two
  groups; a queue of one; collapse after two flat groups.
* *Retention*: four steps, an evaluation every second one, retention every step, a
  KL reference one step back, optimizer saves every second step, one snapshot in
  flight: enough for a deletion to overlap two further steps.
* *Optimizer*: two ranks, because one can have reported what another has not; four
  steps with saves at the first, second and fourth; two crashes, the second of which
  may hit the recovery from the first. Three crashes were checked once (4.1 million
  states).
* *Publication*: one worker, three steps, one evaluated step, two failures among
  job, transfer, load, replica and restart. Four steps with one failure, and an
  evaluation of the initial step as well with one failure, were checked once.
* *Packed*: three hosts with two batches (a copy that arrives at one host and not
  at another), two hosts with three, one host with five (every slot in use); room
  for four batches. Two hosts with four batches were checked once (1.3 million
  states).

Symmetry (of groups and consumers) is used in runs without liveness only.

## 5. Fairness

`queue_store`, `queue_resize` and `optimizer` use specifications without
fairness. The others assume:

* *Queue* (`LiveSpec`): a single weak fairness, of `GoesOn`, the disjunction of all
  steps the system takes by itself. It says only that the system does not stand
  still while something can happen: calls that were sent are handled and answered,
  resumed tasks run, the trainer trains and releases what it was given, the
  shutdown is the one `train()` performs. It is weaker than fairness of each task,
  and enough, as nothing there can go on for ever.
* *Pipeline* (`LiveSpec`): weak fairness of each task and of the clean-up. A task is
  always in one place and stays enabled there; rollouts return, the backend
  dispatches its jobs and finishes them.
* *Retention* (`Spec`) and *publication* (`LiveSpec`): weak fairness of each task and
  of the threads and hosts it waits for. Transfers and restarts end, well or badly.
* *Packed* (`Spec`): weak fairness of `GoesOn`, as in the queue: hosts answer or
  their calls fail.

Nothing obliges a cancellation, a resize, a signal, an early finish or close, a
crash or a failure to happen.

## 6. The proofs

Every safety invariant, action property and refinement that a passing run checks is
also a theorem of its module, for all values of the constants that satisfy the
module's assumptions. What is left to TLC is at the end of this section. The proof
modules build on one another in two places only:
`DistributedTrajectoryQueueProofs` instantiates `TrajectoryQueueStoreProofs`, and
`DistributedTrajectoryQueueLimitProofs` extends it.

Each proof has the same shape: an inductive invariant whose parts are named for the
component they speak of, one lemma for each task's actions and each part, and the
property from the invariant. The invariants were checked by TLC on the instances of
section 4 before they were proved.

| Module | Theorem | Statement |
|---|---|---|
| `TrajectoryQueueStoreProofs` | `TypeCorrect` | `Spec => []TypeOK` |
| | `ReadyFifoIsExact` | `Spec => []ReadyMatchesPhase` |
| | `UsageCorrect` | `Spec => []UsageIsExact` |
| | `LeasesExclusive` | `Spec => []LeasesAreExclusive` |
| | `LimitIsNewest` | `Spec => LimitIsNewestResize` |
| | `LeasesStable` | `Spec => LeaseIsStable` |
| | `AcquiresInOrder` | `Spec => AcquiredInOrder` |
| | `MinimumExclusive` | `Spec => MinimumIsExclusive` |
| `DistributedTrajectoryQueueProofs` | `Invariant` | `Spec => []IInv` |
| | `RecordsBack` | `Spec => []RecordsBackEntries` |
| | `LeasesTracked` | `Spec => []LeasesAreTracked` |
| | `ImplementsStore` | `Spec /\ [](Len(resizes) <= MaxResizes) => StoreSpec` |
| `DistributedTrajectoryQueueLimitProofs` | `LimitInvariant` | `Spec => [](IInv /\ LInv)` |
| | `LimitSettles` | `Spec => []LimitConverges` |
| | `MinimumHonoured` | `Spec => []MinimumIsHonoured`, under a hypothesis on `Schedules` |
| `PipelineTrainerProofs` | `Invariant` | `Spec => []IInv` |
| | `TypeCorrect` | `Spec => []TypeOK` |
| | `TrainsOnFresh` | `Spec => []TrainsFresh` |
| | `PacksForStep` | `Spec => []PackedForItsStep` |
| | `LosesNothing` | `Spec => []NothingLost` |
| `CheckpointRetentionProofs` | `Invariant` | `Spec => []IInv` |
| | `TypeCorrect` | `Spec => []TypeOK` |
| | `EvalsPace` | `Spec => []EvalsKeepPace` |
| | `EndClean` | `Spec => []EndIsClean` |
| | `SeenSurvive` | `Spec => SeenInUseSurvive` |
| `OptimizerStateProofs` | `Invariant` | `Spec => []IInv` |
| | `TypeCorrect` | `Spec => []TypeOK` |
| | `PointerPaired` | `Spec => []PointerIsPaired` |
| | `DurableKept` | `Spec => []DurableIsKept` |
| | `RefusesOnlyUncommitted` | `Spec => []RefusedOnlyUncommitted` |
| | `LineageClean` | `Spec => []LineageIsClean` |
| | `PassFailsUnsaved` | `Spec => []PassFailsOnlyUnsaved` |
| | `Refines` | `Spec => PromiseKept` |
| `PolicyPublicationProofs` | `Invariant` | `Spec => []IInv` |
| | `TypeCorrect` | `Spec => []TypeOK` |
| | `ServesInOrder` | `Spec => ServedInOrder` |
| | `LeasedLoaded` | `Window >= 2 => (Spec => []LeasedIsLoaded)` |
| `PackedBatchesProofs` | `Invariant` | `Spec => []IInv` |
| | `TypeCorrect` | `Spec => []TypeOK` |
| | `BatchWhole` | `Spec => []BatchIsWhole` |
| | `StorageListed` | `Spec => []StorageIsListed` |
| | `PackNeverRefused` | `Capacity >= Slots + 2 => (Spec => []PackIsNeverRefused)` |

### The inductive invariants

**Host queue.** `Inv == TypeOK /\ ReadyMatchesPhase /\ UsageIsExact /\ Claims /\
EntriesAreFinite`. None of the first four is inductive alone, and the totals of the
entries are sums only as long as the entries are finite. `usedRecords \in Nat`
survives a release only because the counter is the exact total of the entries; the
total stays exact on an insert because the group is not among them, and on a release
because all leases are checked first and name distinct entries; `take` keeps types
because what it pops from the FIFO is a group in phase "ready". `Claims` describes the
life of a group's lease data (none before its acquisition, then an owner and a claim
number no greater than `claimGeneration` and its own), from which `LeasesAreExclusive`
follows; `claim[g] <= claimGeneration` is what makes a new number fresh. The action
properties follow from `Inv` and the step; the limit's from its own small invariant
`LimitInForce`. `ReadyMatchesPhase`, `LeasesAreExclusive` and `LimitIsNewestResize`
are stated by theorems and by no run: what a run would show on one instance is proved
for all.

**Queue client.** The client knows less than the host and knows it later, so its
properties cannot be stated of either alone. The invariant contains the store's
`Inv`, which the client's steps keep because each is a step of the store or leaves
it alone (the lemma `NextHolds`, and the refinement with it). `HandsFollow` is the
heart: each leased group is fetched, collected, handed on, in an answer not yet
seen, or in a release not yet handled, in one of them only, and its phase at the host
is the one that hand implies. That needs `CallsFollow` (what can be in which hand at
which await), `PutsFollow` (a put drops its records only if the host never took the
group, which is what backs `RecordsBackEntries` through a cancelled put) and
`ShutFollows` (once the queue is closing, nobody holds a lease).

**Limit of the queue.** `LInv` follows the resizes: the client's effective size is the
last one issued, a task that reports "replied" has been applied or overtaken at the
host, and no flush waits for a task that was cancelled. `RInv` adds the `get_many` at
work: its reservation is what it has plus what it asked for (`MinimumFollows`), its
answer is not a spurious refusal (`AnswerFollows`), and neither the limit in force nor
any resize still to come takes the room away (`RoomFollows`).

**Pipeline.** `OnePlace` says that each scenario that was read has a fate or is in the
hands of one worker, queue or stage. It carries `NothingLost` and also the types: a
step is trained only with a scenario of its own, so the counters stay below
`ScenarioCount` (`Steps`). `Shape` says what each stage holds at each point of its
code. `TrainsFresh` needs `Fresh` with `Steps`: a group is checked against the step of
its collector, and that step is the step that trains it. That it is rests on
`Handoff`: while the packing stage collects, the packed queue is empty and no
post-train task still owes a handoff, so `next_training_step` cannot move between
selection and use. `Ends` is about the end of the source. `Ran` holds always;
`InOrder` while nothing else has stopped the pipeline: the `None` of the queue comes
after all groups, the packing stage sees it before the training stage, and whoever has
seen it knows that the source is dry, all workers have ended and the queue holds no
group. A worker that raised has dropped its scenario before anyone notices; until
then (`Raising`) a dropped scenario is no sign of a stop. A step into such a clean state comes from one (`CleanBack`), so the second half
is inductive although a stop at any time makes it vacuous.

**Retention.** Whether a step is evaluated is decided before the post-train task of
the step before has scheduled its own evaluation. The invariant tells apart what is
decided, pending and scheduled (`PaceFollows`, `AskedFollows`). `DeletionFollows`: what
a retention pass has chosen to delete is out of use from its listing to its deletion,
and comes into use no more.

**Optimizer state.** The invariant follows the order of the writes. A directory is
renamed only when it is whole, the pointer names only what was renamed
(`CommittedAreWhole`), and at most one renamed generation is ahead of the pointer, the
one a recovery completes (`AheadIsOne`). `PublishedIsNewest` says that nothing on disk
is ahead of what the running service knows. `AdaptersFollow`, shown beside the
invariant for `PassFailsUnsaved`, says which adapters are still on disk: of whatever
is persisted and not published, and of the published step unless it was committed or
resumed; so a step without training that fails had a trained, unsaved step behind it.
`Refines` maps `committed` to the step the
files commit if recovery completes the pointer now. `CommitRename` is then the commit
of a trained step and `CommitAlias` that of one without training; all other writes,
and everything a recovery does before `Restart`, are stutters of `DurableTraining`.

**Publication.** A rollout that has asked for a step, or waits for it, holds no lease
yet, so a prune may pass it by. What keeps its adapter is the order of the serving
lock. `GuardFollows` says of a prune for step R that waits there: whoever is ahead of
it has asked for R - 2 or later, whoever is behind it for R or later. With a window of
two steps nobody's adapter is unloaded; with one step it can be (section 4).

**Packed batches.** What a cancelled pack leaves behind are calls that would insert a
batch into a store. A release without a fence happens only where there are none
(`ReclaimsAreLate`), a release with one leaves a fence wherever it has passed, so a
store the release has passed is clean for good (`ReleasedAreClean`,
`UnlistedAreClean`). `HeldAreFew` counts the batches that are held beside the one being
packed: at most one more than the slots.

### Assumptions

* *The sort of the constants*: numbers are natural, sizes positive, `None` is none of
  the values it stands for the absence of, the names of workers are not those of the
  other holders of leases. These are the `...Assumption`s of the modules, which TLC
  evaluates in the runs. `PipelineAssumption` says that there is a rollout worker, as
  the configuration requires, and that the shared queue has room for a minimum batch:
  where it has not, its client raises the limit while it waits, which
  `DistributedTrajectoryQueue` models and `PipelineTrainer` does not.
* Nothing is assumed of the totals of groups, nor that there are finitely many groups.
  `RecordTotal` is a fold, so a `CHOOSE` of a function on the subsets of its argument;
  that such a function exists, and that its value grows and shrinks with the set
  whatever order it adds in, is proved for finite sets (`FoldExists`, `TotalAdds`,
  `TotalRemoves` of `TrajectoryQueueStoreProofs`). The induction is the library's
  well-foundedness of the natural numbers, applied to the set of sizes: of the sets
  that fail one is smallest.
* `PackNeverRefused` needs `Capacity >= Slots + 2`, and `LeasedLoaded` needs
  `Window >= 2`: the statements are false for less, as section 4 says.
* `ImplementsStore` is about behaviours with no more resizes than the store's bound
  `MaxResizes`. The client has no such bound (only its run does), and the store's
  guard is the bound itself, not behaviour of the code.
* `MinimumHonoured` is about clients whose calls are handled in order, and about those
  in any order that take no `snapshot` and are not cancelled: the two halves of the
  run `queue_resize`, and more, as in-order clients may be cancelled. For the rest it
  is not true: a cancelled flush leaves a resize on its way that the next `get_many`
  does not wait for.

### Model-checked only

Liveness (`PipelineEnds`, `StopsOrWedges`, `EveryPutEnds`, `PackingStops`,
`OwnersEndEmpty`, `RunReturns`, `Settles`, `Closes`): the prover handles neither
fairness with `ENABLED` nor the well-founded arguments such a proof would need. The
three violated properties of section 7 are refuted by TLC and have no theorem.

## 7. Disagreements with the repository's own statements

**A cancelled `get_many` loses a resize** (`lost_resize`; `rollout.py:691-703`).
`_flush_resizes` awaits `asyncio.gather` over the resize tasks it has taken out of
`_resize_tasks`. Cancelling the caller cancels the gathered tasks; one that has
not started never reaches the host, while `_effective_maxsize` already holds its
size, so no later call sends it again. TLC's shortest behaviour: `set_maxsize(2)`,
a `get_many` cancelled in its flush, and a host that keeps the limit 1 with
nothing on its way. `tests/integration/distributed/test_trajectory_queue.py:217-222`
asserts that after a cancelled `get_many` the latest `set_maxsize` is in force. The
other properties of the client that could be affected name this case explicitly
(`ResizeLost`).

**A fatal rollout failure is not always raised** (`stuck_cleanup`;
`trainer.py:1359`). With packing ahead, the event that releases the post-train
task of the last step is handed to the backend, which sets it when the next job is
dispatched. If another stage fails before that, the task group cancels the
training stage inside `backend.train`; `CancelledError` is not an `Exception`, so
the branch that sets the event is skipped, the Megatron backend only disarms its
fence, and `train()` waits in its clean-up for a task that nobody releases.
`tests/integration/test_pipeline_lifecycle_contract.py:77-84` states that a fatal
worker failure is propagated, and tests it on `_rollout_stage` alone. The run
`pipeline` therefore has no rollout failure among the failures of its packed mode;
those of packing and training it has, and with them the pipeline ends
(while a job waits to be dispatched because a post-train task was not released, a
batch was ready for it, and the packing stage waits for that batch's handoff,
which comes after the task: it is not preparing anything that could fail).

**Retention deletes a checkpoint no strategy was offered** (`retention_late`;
`trainer.py:2418`). `_run_checkpoint_retention` hands on what to *keep*, out of the
checkpoints it listed; `delete_checkpoints` lists the directory again, after locks
and a thread, and deletes whatever is not in that list. A checkpoint the ranks
wrote in between, possibly the KL reference of a later step, is deleted unseen.
`art/pipeline_trainer/checkpoint_retention.py:26-27` says that strategies receive
the checkpoints eligible for removal and return those to keep.

## 8. What is not modelled

* *Host queue*: nothing of its state; `snapshot` is a read. A `resize` repeated
  with the same generation and another size raises in the code; the client never
  sends one.
* *Queue client*: a second cancellation while the first is being handled
  (`rollout.py:463`), a failing endpoint call, a drop that fails in the `finally`
  of `put`, a second `finish`, and the checks of `_closed` in `get_many`, which
  cannot be met because `train()` closes the queue after its stages. The owners'
  byte budget and tombstones. The rollout executor of the same file.
* *Pipeline trainer*: resumption of the scenario offset, retiring workers,
  `limit_mean_steps_off_policy`, a failing post-train task, autotuning, the status
  task. The shared queue appears here with what it promises only. `get_nowait`
  after the first item of the local queue is one action per item, more
  interleavings than the code has. Groups that collapse leaves unexamined
  (`trainer.py:1537`) are dropped here, and freed by close.
* *Retention*: the Tinker variant of deletion, pinned inference names, a retention
  strategy that raises, a failing deletion.
* *Optimizer state*: optimizers that share one root, the environment variable that
  allows an unpaired resume, leases of readers, checkpoints deleted by retention,
  file contents and digests, file systems that lose renames.
* *Publication*: an external inference service, `in_flight_lora`, GPU sharing by
  sleep and wake, relaunching a trainer, start and close of the service, several
  leases of one step by one holder, several replicas. A prune that fails raises in
  the next training or in the post-train task of a later step (`backend.py:987`,
  `:1121`), whichever comes first: modelled, and reached only with more steps than the
  run has.
* *Packed batches*: a publisher that fails to close at the end of a fan-out
  (`drop_batch`; in `reclaim_batch` it is modelled), trajectory bundles, reservations as a state of their own,
  batches of different sizes, time limits of streams, log files.
* *Preflight, rollout executor, trainer rank, Tinker server*: see `PROJECT.json`; each
  component names its reason. Tensor code, kernels, conversions and client adapters
  have no state machine to explore. They are most of the repository's lines.

## 9. Plan

Modelled so far: the queue with its proofs, its client, the pipeline trainer,
checkpoint retention, durable optimizer state, policy publication, the packed data
plane. What is left, in this order:

1. Theorems. What the passing runs check and is not liveness is proved. What is
   left: `MinimumIsHonoured` without its hypothesis on schedules, for the weaker
   statement that excepts a resize orphaned by a cancellation; the pipeline's shared
   queue as an abstraction of the client's model, with its promises stated as a
   specification of its own that both modules meet.
2. `RolloutExecutor`: worker slots, resize and retire against running scenarios;
   apportionment as pure operators checked against a reference definition.
3. `TrainerRank`: command sequence and slots, ranks in lock step.
4. `complete_task`, preflight sessions, the pipeline schedule as an algorithm over
   bounded inputs.
