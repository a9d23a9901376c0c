--------------------------- MODULE OptimizerState ---------------------------
(***************************************************************************)
(* The files of art/megatron/optimizer_state.py and the protocol that      *)
(* keeps them consistent over crashes.                                     *)
(*                                                                         *)
(* Every trainer rank persists the steps it has learned in order: rank     *)
(* zero the adapter checkpoint, and with the steps that save the optimizer *)
(* each rank its shard, in the pending directory of the generation.  When  *)
(* every rank has reported a step the service commits it: the manifest,    *)
(* then under the writer lease the rename of the directory, the pointer    *)
(* and the removal of a policy pointer.  A step that trains nothing links  *)
(* the adapter of the last one and writes a policy pointer instead.  A     *)
(* crash may happen between any two of these; preparing to resume recovers *)
(* the pointer, moves away what is not committed, and may refuse.          *)
(*                                                                         *)
(* A failed trainer transaction closes the trainer, and the service        *)
(* prepares to resume as after a crash.  Checkpoints are never deleted     *)
(* here: CheckpointRetention is about that.                                *)
(***************************************************************************)
EXTENDS Integers, FiniteSets

CONSTANTS
    World,      \* the number of trainer ranks
    MaxStep,    \* bound: the last step learned
    MaxLives,   \* bound: the number of restarts
    SaveEvery,  \* optimizer_save_interval
    Capacity,   \* snapshot_pool_capacity
    None, Torn

VARIABLES
    life,       \* the restarts so far
    phase,      \* "up", "down", a phase of the preparation, or "refused"
    step,       \* _latest_step
    persisted,  \* the last step each rank has reported
    published,  \* the last step whose durable publication has resolved
    writer,     \* how far the publication of the next step has come
    alias,      \* whether the adapter of a step without training is linked
    adapters,   \* the generations in the checkpoints directory
    dir,        \* [at, shards, manifest]: the directory of each generation
    pointer,    \* committed.json: a generation, or None
    temp,       \* the temporary file of the pointer: a generation, None, Torn
    policy,     \* policy.json: [adapter, anchor], or None
    durable     \* the highest step ever reported to be durable

memory == <<step, persisted, published>>
files == <<adapters, dir, pointer, temp, policy>>
vars == <<life, phase, memory, writer, alias, files, durable>>

Ranks == 0..World - 1
Zero == 0
Generations == [step : 1..MaxStep, life : 0..MaxLives]
Policies == [adapter : Generations, anchor : Generations \cup {None}]

ASSUME OptimizerAssumption ==
    /\ {World, MaxStep, SaveEvery, Capacity} \subseteq Nat \ {0}
    /\ MaxLives \in Nat
    /\ None # Torn
    /\ {None, Torn} \cap Generations = {} /\ None \notin Policies

(* new_optimizer_generation: no two lives give a step the same identity.    *)
Gen(s) == [step |-> s, life |-> life]

NoDir == [at |-> "none", shards |-> {}, manifest |-> FALSE]

Init ==
    /\ life = 0 /\ phase = "up"
    /\ step = 0 /\ persisted = [r \in Ranks |-> 0] /\ published = 0
    /\ writer = "idle" /\ alias = FALSE
    /\ adapters = {} /\ dir = [g \in Generations |-> NoDir]
    /\ pointer = None /\ temp = None /\ policy = None
    /\ durable = 0

StepOf(p) == IF p = None THEN 0 ELSE p.step

(* Mutant: the policy pointer counts only until an optimizer is committed.  *)
PolicyStepWithoutPointer(p, q) ==
    IF q # None /\ p = None THEN q.adapter.step ELSE StepOf(p)

(* _committed_policy: the step of the policy pointer, as long as the        *)
(* optimizer has not passed it.                                             *)
PolicyStep(p, q) ==
    IF q # None /\ (q.anchor = p \/ StepOf(p) < q.adapter.step)
    THEN q.adapter.step ELSE StepOf(p)

Acknowledged(s) == IF s > durable THEN s ELSE durable

-----------------------------------------------------------------------------
(* Training and the ranks.                                                  *)

Saves(s) == s <= 1 \/ s % SaveEvery = 0

(* Mutant: the snapshot does not wait for a slot of the pool.               *)
LearnAtOnce ==
    /\ phase = "up" /\ ~alias /\ step < MaxStep
    /\ step' = step + 1
    /\ UNCHANGED <<life, phase, persisted, published, writer, alias, files, durable>>

(* A step is learned once each rank has a free slot for its snapshot.       *)
Learn ==
    /\ phase = "up" /\ ~alias /\ step < MaxStep
    /\ \A r \in Ranks : step - persisted[r] < Capacity
    /\ step' = step + 1
    /\ UNCHANGED <<life, phase, persisted, published, writer, alias, files, durable>>

(* publish_adapter_checkpoint, which refuses to replace a checkpoint.       *)
WriteAdapter ==
    LET s == persisted[Zero] + 1 IN
    /\ phase = "up" /\ s <= step
    /\ \A g \in adapters : g.step # s
    /\ adapters' = adapters \cup {Gen(s)}
    /\ UNCHANGED <<life, phase, memory, writer, alias, dir, pointer, temp, policy,
                   durable>>

(* A rank writes its shard, rank zero after the adapter, and reports.       *)
Persist(r) ==
    LET s == persisted[r] + 1 IN
    /\ phase = "up" /\ s <= step
    /\ r = Zero => Gen(s) \in adapters
    /\ persisted' = [persisted EXCEPT ![r] = s]
    /\ dir' = IF Saves(s)
              THEN [dir EXCEPT ![Gen(s)].at = "pending",
                               ![Gen(s)].shards = @ \cup {r}]
              ELSE dir
    /\ UNCHANGED <<life, phase, step, published, writer, alias, adapters, pointer,
                   temp, policy, durable>>

-----------------------------------------------------------------------------
(* The durable publication of the next step, in order.                      *)

Next1 == published + 1
Reported == \A r \in Ranks : persisted[r] > published
Complete(g) == dir[g].manifest /\ dir[g].shards = Ranks

(* Mutant: it is reported durable.                                          *)
ResolveAsPolicy ==
    /\ phase = "up" /\ writer = "idle" /\ Reported /\ ~Saves(Next1)
    /\ published' = Next1
    /\ durable' = Acknowledged(Next1)
    /\ UNCHANGED <<life, phase, step, persisted, writer, alias, files>>

(* A step that saves no optimizer has nothing to commit.                    *)
Resolve ==
    /\ phase = "up" /\ writer = "idle" /\ Reported /\ ~Saves(Next1)
    /\ published' = Next1
    /\ durable' = Acknowledged(StepOf(pointer))
    /\ UNCHANGED <<life, phase, step, persisted, writer, alias, files>>

(* Mutant: one report is enough.                                            *)
CommitManifestEarly ==
    /\ phase = "up" /\ writer = "idle" /\ persisted[Zero] > published /\ Saves(Next1)
    /\ writer' = "manifest"
    /\ dir' = [dir EXCEPT ![Gen(Next1)].manifest = TRUE]
    /\ UNCHANGED <<life, phase, memory, alias, adapters, pointer, temp, policy,
                   durable>>

(* Mutant: the policy pointer goes first.                                   *)
CommitManifestAndForget ==
    /\ phase = "up" /\ writer = "idle" /\ Reported /\ Saves(Next1)
    /\ writer' = "manifest"
    /\ dir' = [dir EXCEPT ![Gen(Next1)].manifest = TRUE]
    /\ policy' = None
    /\ UNCHANGED <<life, phase, memory, alias, adapters, pointer, temp, durable>>

(* commit_optimizer_generation, from here to CommitPolicy.                  *)
CommitManifest ==
    /\ phase = "up" /\ writer = "idle" /\ Reported /\ Saves(Next1)
    /\ writer' = "manifest"
    /\ dir' = [dir EXCEPT ![Gen(Next1)].manifest = TRUE]
    /\ UNCHANGED <<life, phase, memory, alias, adapters, pointer, temp, policy,
                   durable>>

CommitRename ==
    /\ phase = "up" /\ writer = "manifest"
    /\ Next1 > StepOf(pointer) /\ Gen(Next1) \in adapters
    /\ writer' = "renamed"
    /\ dir' = [dir EXCEPT ![Gen(Next1)].at = "committed"]
    /\ UNCHANGED <<life, phase, memory, alias, adapters, pointer, temp, policy,
                   durable>>

CommitTemp ==
    /\ phase = "up" /\ writer = "renamed"
    /\ writer' = "temp"
    /\ temp' = Gen(Next1)
    /\ UNCHANGED <<life, phase, memory, alias, adapters, dir, pointer, policy,
                   durable>>

CommitPointer ==
    /\ phase = "up" /\ writer = "temp"
    /\ writer' = "pointed"
    /\ pointer' = temp /\ temp' = None
    /\ UNCHANGED <<life, phase, memory, alias, adapters, dir, policy, durable>>

CommitPolicy ==
    /\ phase = "up" /\ writer = "pointed"
    /\ writer' = "idle"
    /\ policy' = None
    /\ published' = Next1
    /\ durable' = Acknowledged(Next1)
    /\ UNCHANGED <<life, phase, step, persisted, alias, adapters, dir, pointer, temp>>

CommitStep ==
    \/ Resolve \/ CommitManifest \/ CommitRename \/ CommitTemp \/ CommitPointer
    \/ CommitPolicy

(* Retention prunes a generation that is not the current one and has        *)
(* outlived the grace period; it takes the writer lease.                    *)
Prune ==
    /\ phase = "up" /\ writer \in {"idle", "manifest"}
    /\ \E g \in Generations :
          /\ dir[g].at = "committed" \/ (dir[g].at = "pending" /\ g.life < life)
          /\ g # pointer
          /\ dir' = [dir EXCEPT ![g] = NoDir]
    /\ UNCHANGED <<life, phase, memory, writer, alias, adapters, pointer, temp,
                   policy, durable>>

-----------------------------------------------------------------------------
(* A step without training.                                                 *)

(* _publish_adapter_alias, once every step before it is published.          *)
LinkAlias ==
    /\ phase = "up" /\ ~alias /\ published = step /\ step < MaxStep
    /\ \A g \in adapters : g.step # step + 1
    /\ alias' = TRUE
    /\ adapters' = adapters \cup {Gen(step + 1)}
    /\ UNCHANGED <<life, phase, memory, writer, dir, pointer, temp, policy, durable>>

(* commit_optimizer_policy_advance.                                         *)
CommitAlias ==
    /\ phase = "up" /\ alias /\ PolicyStep(pointer, policy) = step
    /\ alias' = FALSE
    /\ policy' = [adapter |-> Gen(step + 1), anchor |-> pointer]
    /\ step' = step + 1 /\ published' = step'
    /\ persisted' = [r \in Ranks |-> step']
    /\ durable' = Acknowledged(step')
    /\ UNCHANGED <<life, phase, writer, adapters, dir, pointer, temp>>

(* The policy on disk is not the step before: the last steps saved no       *)
(* optimizer.  The alias is removed, the call fails.                        *)
AliasRaises ==
    /\ phase = "up" /\ alias /\ PolicyStep(pointer, policy) # step
    /\ alias' = FALSE
    /\ adapters' = adapters \ {Gen(step + 1)}
    /\ phase' = "down"
    /\ UNCHANGED <<life, memory, writer, dir, pointer, temp, policy, durable>>

-----------------------------------------------------------------------------
(* Crashes, and prepare_megatron_resume_state.                              *)

(* The processes stop.  A temporary pointer that was being written may be   *)
(* torn; one that was never synced may be missing.                          *)
Crash ==
    /\ phase # "down" /\ phase # "refused" /\ life < MaxLives
    /\ phase' = "down"
    /\ writer' = "idle" /\ alias' = FALSE
    /\ temp' \in IF writer = "temp" THEN {temp, Torn} ELSE {temp}
    /\ UNCHANGED <<life, memory, adapters, dir, pointer, policy, durable>>

Advancing == {g \in Generations : /\ dir[g].at = "committed" /\ g # pointer
                                  /\ g.step > StepOf(pointer)}

(* Mutant: a torn temporary pointer is an error.                            *)
RecoverUntorn ==
    /\ phase = "down"
    /\ LET next == IF temp \in Generations /\ temp.step > StepOf(pointer)
                   THEN {temp} ELSE Advancing
           sound == /\ Advancing = next /\ Cardinality(next) <= 1 /\ temp # Torn
                    /\ \A g \in next : Complete(g) /\ g \in adapters
       IN /\ phase' = IF sound THEN "initial" ELSE "refused"
          /\ pointer' = IF sound /\ next # {} THEN CHOOSE g \in next : TRUE
                        ELSE pointer
          /\ temp' = None
    /\ UNCHANGED <<life, memory, writer, alias, adapters, dir, policy, durable>>

(* _recover_optimizer_pointer_locked.                                       *)
Recover ==
    /\ phase = "down"
    /\ LET next == IF temp \in Generations /\ temp.step > StepOf(pointer)
                   THEN {temp} ELSE Advancing
           sound == /\ Advancing = next /\ Cardinality(next) <= 1
                    /\ \A g \in next : Complete(g) /\ g \in adapters
       IN /\ phase' = IF sound THEN "initial" ELSE "refused"
          /\ pointer' = IF sound /\ next # {} THEN CHOOSE g \in next : TRUE
                        ELSE pointer
          /\ temp' = None
    /\ UNCHANGED <<life, memory, writer, alias, adapters, dir, policy, durable>>

(* _recover_uncommitted_initial_transaction applies to a lone first         *)
(* checkpoint that nothing on disk commits.                                 *)
Uncommitted ==
    /\ {g.step : g \in adapters} = {1}
    /\ pointer = None
    /\ policy # None => policy.adapter.step # 1

Candidates == {g \in Generations : dir[g].at # "none"}

(* Its generation is moved away, unless there are several or it is of       *)
(* another checkpoint.                                                      *)
MoveGeneration ==
    /\ phase = "initial" /\ Uncommitted /\ Candidates # {}
    /\ IF /\ Cardinality(Candidates) = 1
          /\ \A g \in Candidates : g.step = 1 /\ (dir[g].manifest => g \in adapters)
       THEN dir' = [g \in Generations |-> NoDir] /\ UNCHANGED phase
       ELSE phase' = "refused" /\ UNCHANGED dir
    /\ UNCHANGED <<life, memory, writer, alias, adapters, pointer, temp, policy,
                   durable>>

(* Then the checkpoint.                                                     *)
MoveCheckpoint ==
    /\ phase = "initial" /\ Uncommitted /\ Candidates = {}
    /\ adapters' = {}
    /\ UNCHANGED <<life, phase, memory, writer, alias, dir, pointer, temp, policy,
                   durable>>

PolicyIsSound ==
    policy # None =>
       \/ policy.anchor = pointer /\ policy.adapter \in adapters
       \/ policy.anchor # pointer /\ pointer # None
          /\ pointer.step >= policy.adapter.step

Paired == pointer # None \/ policy # None

(* resolve_megatron_resume_step.                                            *)
ResolveResume ==
    /\ phase = "initial" /\ ~Uncommitted
    /\ phase' = IF /\ pointer # None => Complete(pointer) /\ pointer \in adapters
                   /\ PolicyIsSound
                   /\ Paired \/ adapters = {}
                THEN "quarantine" ELSE "refused"
    /\ UNCHANGED <<life, memory, writer, alias, files, durable>>

(* Mutant: checkpoints after the one resumed from are left where they are.  *)
UnpairedNone == {g \in adapters : FALSE}

Unpaired == {g \in adapters : g.step > PolicyStep(pointer, policy)}

(* _prepare_megatron_resume_state_locked moves the newer checkpoints away.  *)
Quarantine ==
    /\ phase = "quarantine"
    /\ \E g \in Unpaired : adapters' = adapters \ {g}
    /\ UNCHANGED <<life, phase, memory, writer, alias, dir, pointer, temp, policy,
                   durable>>

(* Training goes on, in the next life.                                      *)
Restart ==
    /\ phase = "quarantine" /\ Unpaired = {} /\ life < MaxLives
    /\ phase' = "up" /\ life' = life + 1
    /\ step' = PolicyStep(pointer, policy)
    /\ published' = step' /\ persisted' = [r \in Ranks |-> step']
    /\ UNCHANGED <<writer, alias, files, durable>>

ResumeStep ==
    \/ Recover \/ MoveGeneration \/ MoveCheckpoint \/ ResolveResume
    \/ Quarantine \/ Restart

Next ==
    \/ Learn \/ WriteAdapter \/ (\E r \in Ranks : Persist(r)) \/ CommitStep
    \/ Prune \/ LinkAlias \/ CommitAlias \/ AliasRaises \/ Crash \/ ResumeStep

Spec == Init /\ [][Next]_vars

-----------------------------------------------------------------------------
(* Properties.                                                              *)

(* Types; no rank is further behind than its pool of snapshots allows, and  *)
(* no step is published that a rank has not reported.                       *)
TypeOK ==
    /\ life \in 0..MaxLives
    /\ phase \in {"up", "down", "initial", "quarantine", "refused"}
    /\ {step, published} \subseteq 0..MaxStep
    /\ persisted \in [Ranks -> 0..MaxStep]
    /\ \A r \in Ranks : published <= persisted[r] /\ persisted[r] <= step
                        /\ step - persisted[r] <= Capacity
    /\ writer \in {"idle", "manifest", "renamed", "temp", "pointed"}
    /\ alias \in BOOLEAN
    /\ adapters \subseteq Generations
    /\ dir \in [Generations -> [at : {"none", "pending", "committed"},
                                shards : SUBSET Ranks, manifest : BOOLEAN]]
    /\ pointer \in Generations \cup {None}
    /\ temp \in Generations \cup {None, Torn}
    /\ policy \in Policies \cup {None}
    /\ durable \in 0..MaxStep

(* Wherever a crash falls, what committed.json names is whole: the          *)
(* generation is committed with its manifest and the shard of every rank,   *)
(* and the checkpoint it was saved with is there.                           *)
(* (commit_optimizer_generation, _prune_optimizer_generations_locked)       *)
PointerIsPaired ==
    pointer # None =>
       /\ dir[pointer].at = "committed" /\ Complete(pointer)
       /\ pointer \in adapters

(* The step the files commit, once recovery has completed the pointer.      *)
CommittedStep ==
    LET newest == IF Advancing = {} THEN pointer ELSE CHOOSE g \in Advancing : TRUE
    IN PolicyStep(newest, policy)

(* A step that was ever reported to be durable is never resumed before.     *)
(* (DurableTrainerPublication.resume_step, prepare_megatron_resume_state)   *)
DurableIsKept == durable <= CommittedStep

(* Preparing to resume refuses only what it finds without a pointer: once   *)
(* an optimizer or a step without training was committed, every crash can   *)
(* be resumed from, also one during a former preparation.                   *)
(* (_recover_optimizer_pointer_locked, resolve_megatron_resume_step)        *)
RefusedOnlyUncommitted == phase = "refused" => pointer = None /\ policy = None

(* Training never meets a checkpoint of a former life where it is going to  *)
(* write its own: publish_adapter_checkpoint would refuse to replace it.    *)
(* (_prepare_megatron_resume_state_locked, _commit_adapter_alias)           *)
LineageIsClean ==
    phase = "up" =>
       \A g \in adapters : g.step > persisted[Zero] => g = Gen(g.step)

(* The files implement the promise: whatever was committed stays so, a      *)
(* restart begins with the last committed step, and only there.             *)
Promise == INSTANCE DurableTraining WITH
    running <- phase = "up",
    step <- IF phase = "up" THEN step ELSE CommittedStep,
    committed <- CommittedStep

PromiseKept == Promise!Spec

(* A step without training fails only if the step before it was learned in  *)
(* this life, saved no optimizer and was never reported durable.  Directly  *)
(* after a resume, after a commit and after another step without training   *)
(* it goes through.                                                         *)
(* (_commit_adapter_alias, commit_optimizer_policy_advance)                 *)
PassFailsOnlyUnsaved ==
    alias /\ PolicyStep(pointer, policy) # step =>
       Gen(step) \in adapters /\ ~Saves(step) /\ durable < step

=============================================================================
