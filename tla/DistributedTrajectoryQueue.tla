--------------------- MODULE DistributedTrajectoryQueue ---------------------
(***************************************************************************)
(* The client side of the trajectory queue (distributed/rollout.py, class  *)
(* DistributedTrajectoryQueue) with its callers: rollout workers that put  *)
(* one group each, the packing stage that collects batches with get_many,  *)
(* packs them and hands them to the trainer, the trainer that releases     *)
(* them, the autotuner that resizes the queue, and the shutdown.           *)
(*                                                                         *)
(* All of them are tasks of one event loop, so the code between two awaits *)
(* is one action.  An await on the queue's endpoint is split in three: the *)
(* call leaves, the handler runs on the host (an action of the store), and *)
(* the reply resumes the caller.  The host handles calls in flight in any  *)
(* order or, when ordered, takes and resizes in the order they were made.  *)
(***************************************************************************)
EXTENDS Integers, Sequences, FiniteSets, FiniteSetsExt

CONSTANTS
    Groups, Records, Bytes, CapacityRecords, CapacityBytes, None,
    Settings,           \* the pipeline settings applied one after the other,
                        \* [maxsize, minBatch, maxBatch]
    MaxResizes,         \* bound of the store: resize operations issued
    MaxCancels,         \* bound: tasks cancelled
    MaxDropFailures,    \* bound: drop calls that fail
    Schedules           \* the [ordered, snapshots] a behaviour may have: is
                        \* the order of takes and resizes kept on the way to
                        \* the host, does the status task call snapshot

ASSUME SettingsAssumption ==
    /\ Settings \in Seq([maxsize : Nat \ {0}, minBatch : Nat \ {0},
                         maxBatch : Nat \ {0}])
    /\ Settings # <<>>
    /\ \A i \in DOMAIN Settings :
          Settings[i].minBatch <= Settings[i].maxBatch
    /\ Schedules \subseteq [ordered : BOOLEAN, snapshots : BOOLEAN]

VARIABLES
    (* the store on the queue host, see TrajectoryQueueStore *)
    phase, ready, consumer, claim, packing, usedRecords, usedBytes, finished,
    pendingMinimum, minimumError, maxReadyGroups, generation, claimGeneration,
    hosted, resizes,
    owned,      \* groups whose records their rollout owner stores
    puts,       \* the put of each group: [pc, reply, cancelled, woken, dropping]
    get,        \* the packing stage and the get_many it calls: [pc, count,
                \* wait, after, answer, cancelled, woken, minimumTakeSize]
    stage,      \* [fetched, batch, packed, sentinel]: groups of the last take
                \* still to be examined, collected, handed to the trainer
    rel,        \* the release calls of the packing stage and the trainer
    size,       \* [setting, effective, tasks, uncollected, awaits]: settings
                \* in force, _effective_maxsize, the resize tasks, those in
                \* _resize_tasks, and those each running flush waits for
    shut,       \* [finishing, closing, closed, cleaning, cleanupRefs,
                \*  closeRefs, failedDrops, ownerFailure]
    used        \* [cancels, dropFailures, schedule]: bounds, and the schedule of
                \* this behaviour

ConsumerId == "pipeline"
PackedGeneration == "generation"

MaxSize == Max({Settings[i].maxsize : i \in DOMAIN Settings}
                 \cup {Settings[i].maxBatch : i \in DOMAIN Settings})

Store == INSTANCE TrajectoryQueueStore WITH
            Consumers <- {ConsumerId},
            Generations <- {PackedGeneration},
            InitialMaxReady <- Settings[1].maxsize,
            Sizes <- 1..MaxSize,
            MaxTake <- MaxSize

(* What the host answers to a take. *)
Answers == [outcome : {"leases", "pending", "cancelled", "lease_error",
                       "capacity_error"},
            groups : SUBSET Groups, closed : BOOLEAN]

ASSUME ClientAssumption ==
    /\ Records \in [Groups -> Nat] /\ Bytes \in [Groups -> Nat]
    /\ CapacityRecords \in Nat \ {0} /\ CapacityBytes \in Nat \ {0}
    /\ MaxResizes \in Nat
    /\ None \notin Answers /\ None \notin {ConsumerId, PackedGeneration}

store == <<phase, ready, consumer, claim, packing, usedRecords, usedBytes,
           finished, pendingMinimum, minimumError, maxReadyGroups, generation,
           claimGeneration, hosted, resizes>>
vars == <<store, owned, puts, get, stage, rel, size, shut, used>>

Releasers == {"packing", "trainer"}
NoRelease == [groups |-> {}, state |-> "none"]

At(pc) == [pc |-> pc, count |-> 0, wait |-> FALSE, after |-> 0, answer |-> None,
           cancelled |-> FALSE, woken |-> FALSE, minimumTakeSize |-> 0]

Put(pc, drop) == [pc |-> pc, reply |-> None, cancelled |-> FALSE,
                  woken |-> FALSE, dropping |-> drop]

Init ==
    /\ Store!Init
    /\ owned = {}
    /\ puts = [g \in Groups |-> Put("unborn", FALSE)]
    /\ get = At("collect")
    /\ stage = [fetched |-> {}, batch |-> {}, packed |-> {}, sentinel |-> FALSE]
    /\ rel = [r \in Releasers |-> NoRelease]
    /\ size = [setting |-> 1, effective |-> Settings[1].maxsize, tasks |-> <<>>,
               uncollected |-> {},
               awaits |-> [get |-> None, snapshot |-> None, close |-> None]]
    /\ shut = [finishing |-> "open", closing |-> "open", closed |-> FALSE,
               cleaning |-> {}, cleanupRefs |-> {}, closeRefs |-> {},
               failedDrops |-> {}, ownerFailure |-> FALSE]
    /\ \E s \in Schedules :
          used = [cancels |-> 0, dropFailures |-> 0, schedule |-> s]


maxsize == Settings[size.setting].maxsize
minBatch == Settings[size.setting].minBatch
maxBatch == Settings[size.setting].maxBatch
held == Cardinality(stage.batch)
closed == shut.closed

-----------------------------------------------------------------------------
(* Notifications resolve the futures registered at that moment.  A producer *)
(* registers its own before its enqueue leaves, the consumer its own before *)
(* its take leaves.                                                         *)

InFlight(g) == puts[g].pc \in {"sent", "replied", "waiting"}

(* Variants: the futures are registered once there is a reply to wait on.   *)
SpaceRegisteredLate(g) == puts[g].pc = "waiting"
ItemsRegisteredLate == get.pc = "waiting"

SpaceRegistered(g) == InFlight(g)
ItemsRegistered == get.pc \in {"taking", "taken", "waiting"}

NotifySpace ==
    puts' = [g \in Groups |->
                [puts[g] EXCEPT !.woken = @ \/ SpaceRegistered(g)]]

NotifyItems == get' = [get EXCEPT !.woken = @ \/ ItemsRegistered]

(* _sync_maxsize for a reservation of m groups under settings s: when the   *)
(* target changes, a resize task starts.                                    *)
(* Variant: the reservation is not counted.                                 *)
UnreservedTarget(m, s) == Settings[s].maxsize

Target(m, s) == Max({Settings[s].maxsize, m})

Resizes(m, s) == Target(m, s) # size.effective /\ ~closed

Synced(m, s) ==
    [size EXCEPT
        !.setting = s,
        !.effective = Target(m, s),
        !.tasks = IF Resizes(m, s) THEN Append(@, "sent") ELSE @,
        !.uncollected = IF Resizes(m, s) THEN @ \cup {Len(resizes) + 1} ELSE @]

(* Variant: a resize takes over the generation of the one before.           *)
IssueResizeInPlace(m, s) ==
    IF Resizes(m, s) /\ resizes # <<>>
    THEN /\ resizes' = [resizes EXCEPT ![Len(resizes)] = Target(m, s)]
         /\ UNCHANGED <<phase, ready, consumer, claim, packing, usedRecords,
                        usedBytes, finished, pendingMinimum, minimumError,
                        maxReadyGroups, generation, claimGeneration, hosted>>
    ELSE IF Resizes(m, s) THEN Store!IssueResize(Target(m, s))
    ELSE UNCHANGED store

IssueResize(m, s) ==
    IF Resizes(m, s) THEN Store!IssueResize(Target(m, s)) ELSE UNCHANGED store

-----------------------------------------------------------------------------
(* put: one call per group, whose records the owner stores by then.  A put  *)
(* that ends without having transferred the group drops it at the owner.    *)

(* The head of the loop: while not self._closed ... enqueue                 *)
PutAttempt(g) ==
    puts' = [puts EXCEPT ![g] =
                IF closed THEN Put("refused", TRUE) ELSE Put("sent", FALSE)]

PutStart(g) ==
    /\ puts[g].pc = "unborn"
    /\ owned' = owned \cup {g}
    /\ PutAttempt(g)
    /\ UNCHANGED <<store, get, stage, rel, size, shut, used>>

HostEnqueue(g) ==
    /\ puts[g].pc = "sent"
    /\ IF hosted THEN Store!Enqueue(g) ELSE UNCHANGED store
    /\ puts' = [puts EXCEPT
                  ![g].pc = "replied",
                  ![g].reply = IF hosted THEN Store!EnqueueStatus(g)
                               ELSE "unknown_queue"]
    /\ UNCHANGED <<owned, get, stage, rel, size, shut, used>>

(* The enqueue is answered.  A cancelled put learns whether the group was   *)
(* transferred before it gives up.                                          *)
PutReply(g) ==
    LET p == puts[g] IN
    /\ p.pc = "replied"
    /\ puts' = [puts EXCEPT ![g] =
          CASE p.cancelled -> Put("cancelled", p.reply # "accepted")
            [] ~p.cancelled /\ p.reply = "accepted" -> Put("accepted", FALSE)
            [] ~p.cancelled /\ p.reply = "closed" -> Put("refused", TRUE)
            [] ~p.cancelled /\ p.reply = "full" -> [p EXCEPT !.pc = "waiting"]
            [] OTHER -> Put("failed", TRUE)]
    /\ IF p.reply = "accepted" \/ (~p.cancelled /\ p.reply # "full"
                                    /\ p.reply # "unknown_queue")
       THEN NotifyItems
       ELSE UNCHANGED get
    /\ UNCHANGED <<store, owned, stage, rel, size, shut, used>>

PutWake(g) ==
    /\ puts[g].pc = "waiting" /\ puts[g].woken
    /\ PutAttempt(g)
    /\ UNCHANGED <<store, owned, get, stage, rel, size, shut, used>>

(* Variant: a cancelled put does not wait for the answer to its enqueue.    *)
PutCancelAtOnce(g) ==
    /\ InFlight(g)
    /\ used.cancels < MaxCancels
    /\ used' = [used EXCEPT !.cancels = @ + 1]
    /\ puts' = [puts EXCEPT ![g] = Put("cancelled", TRUE)]
    /\ UNCHANGED <<store, owned, get, stage, rel, size, shut>>

PutCancel(g) ==
    /\ InFlight(g) /\ ~puts[g].cancelled
    /\ used.cancels < MaxCancels
    /\ used' = [used EXCEPT !.cancels = @ + 1]
    /\ puts' = [puts EXCEPT ![g] =
                  IF @.pc = "waiting" THEN Put("cancelled", TRUE)
                  ELSE [@ EXCEPT !.cancelled = TRUE]]
    /\ UNCHANGED <<store, owned, get, stage, rel, size, shut>>

PutDrop(g) ==
    /\ puts[g].dropping
    /\ puts' = [puts EXCEPT ![g].dropping = FALSE]
    /\ owned' = owned \ {g}
    /\ UNCHANGED <<store, get, stage, rel, size, shut, used>>

PutStep(g) ==
    PutStart(g) \/ HostEnqueue(g) \/ PutReply(g) \/ PutWake(g) \/ PutDrop(g)

-----------------------------------------------------------------------------
ResizeLost == \E k \in DOMAIN size.tasks : size.tasks[k] = "lost"
OnItsWay(k) == size.tasks[k] \in {"sent", "orphan"}

(* _flush_resizes takes all tasks out of _resize_tasks and waits for them,  *)
(* again and again until it finds none there.                               *)

Flushed(f) ==
    size.awaits[f] # None /\ \A k \in size.awaits[f] : size.tasks[k] = "done"

Collect(f, z) == [z EXCEPT !.awaits[f] = z.uncollected, !.uncollected = {}]

FlushMore(f) ==
    /\ Flushed(f) /\ size.uncollected # {}
    /\ size' = Collect(f, size)
    /\ UNCHANGED <<store, owned, puts, get, stage, rel, shut, used>>

FlushEnds(f) == Flushed(f) /\ size.uncollected = {}
FlushDone(f) == [size EXCEPT !.awaits[f] = None]

-----------------------------------------------------------------------------
(* get_many, called by the packing stage to complete its batch: it waits    *)
(* while the batch is below the minimum and then reads what is there, up    *)
(* to the maximum.                                                          *)

Collecting == get.pc = "collect" /\ ~stage.sentinel /\ held < maxBatch

Taking == [get EXCEPT !.pc = "taking", !.woken = FALSE, !.after = Len(resizes)]

(* Leaving get_many gives the reservation back.                             *)
EndGet(next) ==
    /\ get' = At(next)
    /\ size' = Synced(0, size.setting)
    /\ IssueResize(0, size.setting)

GetStart ==
    LET wait == held < minBatch IN
    /\ Collecting /\ ~shut.ownerFailure
    /\ \/ /\ wait /\ minBatch <= maxsize
          /\ get' = [At("flush") EXCEPT !.count = minBatch - held, !.wait = TRUE,
                                        !.minimumTakeSize = minBatch]
          /\ IssueResize(minBatch, size.setting)
          /\ size' = Collect("get", Synced(minBatch, size.setting))
       \/ /\ ~wait
          /\ get' = [Taking EXCEPT !.count = maxBatch - held]
          /\ UNCHANGED <<store, size>>
    /\ UNCHANGED <<owned, puts, stage, rel, shut, used>>

(* A failed owner clean-up, or a minimum above maxsize, raises.             *)
GetRefused ==
    /\ Collecting
    /\ shut.ownerFailure \/ (held < minBatch /\ minBatch > maxsize)
    /\ get' = At("stopped")
    /\ shut' = [shut EXCEPT !.ownerFailure = FALSE]
    /\ UNCHANGED <<store, owned, puts, stage, rel, size, used>>

GetFlushed ==
    /\ get.pc = "flush" /\ FlushEnds("get")
    /\ get' = Taking
    /\ size' = FlushDone("get")
    /\ UNCHANGED <<store, owned, puts, stage, rel, shut, used>>

(* The host handles a take, or the take of zero that withdraws one.         *)
HostTake ==
    LET n == IF get.pc = "withdrawing" THEN 0
             ELSE IF get.wait THEN get.count ELSE -get.count
        outcome == Store!TakeOutcome(ConsumerId, n) IN
    /\ get.pc \in {"taking", "withdrawing"}
    /\ used.schedule.ordered => \A k \in 1..get.after : ~OnItsWay(k)
    /\ Store!Take(ConsumerId, n)
    /\ get' = [get EXCEPT
          !.pc = IF @ = "taking" THEN "taken" ELSE "withdrawn",
          !.answer = [outcome |-> outcome,
                      groups |-> IF outcome = "leases" THEN Store!Taken(n) ELSE {},
                      closed |-> Store!TakeClosed(ConsumerId, n)]]
    /\ UNCHANGED <<owned, puts, stage, rel, size, shut, used>>

TakeFailed == get.answer.outcome \notin {"leases", "pending", "cancelled"}

(* The take returned groups, the end of the queue, nothing to a best-effort *)
(* read, or an error.                                                       *)
GetReply ==
    /\ get.pc = "taken" /\ ~get.cancelled
    /\ get.answer.groups # {} \/ get.answer.closed \/ TakeFailed \/ ~get.wait
    /\ stage' = [stage EXCEPT !.fetched = get.answer.groups,
                              !.sentinel = get.answer.closed]
    /\ EndGet(IF get.answer.groups # {} THEN "examine"
              ELSE IF TakeFailed THEN "stopped" ELSE "collected")
    /\ UNCHANGED <<owned, puts, rel, shut, used>>

(* An unmet minimum wakes the blocked producers, so that one of them finds  *)
(* out when it cannot be met.                                               *)
GetWait ==
    /\ get.pc = "taken" /\ ~get.cancelled
    /\ get.wait /\ get.answer.groups = {} /\ ~get.answer.closed /\ ~TakeFailed
    /\ get' = [get EXCEPT !.pc = "waiting", !.answer = None]
    /\ NotifySpace
    /\ UNCHANGED <<store, owned, stage, rel, size, shut, used>>

GetWake ==
    /\ get.pc = "waiting" /\ get.woken
    /\ get' = Taking
    /\ UNCHANGED <<store, owned, puts, stage, rel, size, shut, used>>

(* Cancellation reaches get_many at one of its awaits.  It gives back what  *)
(* a take in flight acquires and withdraws the minimum it left pending.  In *)
(* the flush, gather passes it on to the resize tasks: one that has not     *)
(* started is lost, the call of another is on its way and is handled, but   *)
(* nothing is notified of it.                                               *)
CancelResizes(ks, lost) ==
    [k \in DOMAIN size.tasks |->
        IF k \in lost THEN "lost"
        ELSE IF k \in ks /\ size.tasks[k] = "sent" THEN "orphan"
        ELSE IF k \in ks THEN "done"
        ELSE size.tasks[k]]

CancelFlush ==
    LET ks == size.awaits["get"]
        z == Synced(0, size.setting) IN
    \E lost \in SUBSET {k \in ks : size.tasks[k] = "sent"} :
       size' = [z EXCEPT !.awaits["get"] = None,
                         !.tasks = CancelResizes(ks, lost)
                            \o SubSeq(@, Len(size.tasks) + 1, Len(@))]

GetCancel ==
    /\ used.cancels < MaxCancels
    /\ used' = [used EXCEPT !.cancels = @ + 1]
    /\ \/ /\ get.pc = "flush"
          /\ get' = At("collect")
          /\ CancelFlush
          /\ IssueResize(0, size.setting)
       \/ /\ get.pc = "waiting"
          /\ get' = [get EXCEPT !.pc = "withdrawing"]
          /\ UNCHANGED <<store, size>>
       \/ /\ get.pc \in {"taking", "taken"} /\ ~get.cancelled
          /\ get' = [get EXCEPT !.cancelled = TRUE]
          /\ UNCHANGED <<store, size>>
    /\ UNCHANGED <<owned, puts, stage, rel, shut>>

Send(r, gs) == rel' = [rel EXCEPT ![r] = [groups |-> gs, state |-> "sent"]]

(* Variant: what the cancelled take acquired is not given back.             *)
CancelledReplyKeeps ==
    /\ get.pc = "taken" /\ get.cancelled
    /\ EndGet(IF TakeFailed THEN "stopped" ELSE "collect")
    /\ UNCHANGED <<owned, puts, stage, rel, shut, used>>

CancelledReply ==
    /\ get.pc = "taken" /\ get.cancelled
    /\ \/ /\ get.answer.groups # {}
          /\ get' = [get EXCEPT !.pc = "undoing", !.answer = None]
          /\ Send("packing", get.answer.groups)
          /\ UNCHANGED <<store, size>>
       \/ /\ get.answer.groups = {}
          /\ get.wait /\ ~get.answer.closed /\ ~TakeFailed
          /\ get' = [get EXCEPT !.pc = "withdrawing", !.answer = None]
          /\ UNCHANGED <<store, rel, size>>
       \/ /\ get.answer.groups = {}
          /\ ~get.wait \/ get.answer.closed \/ TakeFailed
          /\ EndGet(IF TakeFailed THEN "stopped" ELSE "collect")
          /\ UNCHANGED rel
    /\ UNCHANGED <<owned, puts, stage, shut, used>>

Withdrawn ==
    /\ get.pc = "withdrawn"
    /\ EndGet(IF TakeFailed THEN "stopped" ELSE "collect")
    /\ UNCHANGED <<owned, puts, stage, rel, shut, used>>

GetStep ==
    \/ GetStart \/ GetRefused \/ FlushMore("get") \/ GetFlushed \/ HostTake
    \/ GetReply \/ GetWait \/ GetWake \/ CancelledReply \/ Withdrawn

-----------------------------------------------------------------------------
(* What the packing stage does with a group it fetched: keep it for the     *)
(* batch, discard it as stale or useless, or discard it and give up with    *)
(* the rest still leased (_collect_batch returns early or raises).          *)

Keep(g) ==
    /\ get.pc = "examine" /\ g \in stage.fetched
    /\ stage' = [stage EXCEPT !.fetched = @ \ {g}, !.batch = @ \cup {g}]
    /\ get' = At(IF stage.fetched = {g} THEN "collect" ELSE "examine")
    /\ UNCHANGED <<store, owned, puts, rel, size, shut, used>>

Discard(g, next) ==
    /\ get.pc = "examine" /\ g \in stage.fetched
    /\ stage' = [stage EXCEPT !.fetched = @ \ {g}]
    /\ Send("packing", {g})
    /\ get' = At(next)
    /\ UNCHANGED <<store, owned, puts, size, shut, used>>

Collected ==
    \/ get.pc = "collected"
    \/ get.pc = "collect" /\ (stage.sentinel \/ held >= maxBatch)

(* prepare_pipeline_batch: pack and mark the groups, or find nothing to     *)
(* train on and release them all.  The previous batch has been taken over   *)
(* by the trainer (handoff) before the next one is prepared.                *)
Pack ==
    /\ Collected /\ stage.batch # {} /\ stage.packed = {}
    /\ get' = At("marking")
    /\ UNCHANGED <<store, owned, puts, stage, rel, size, shut, used>>

PackNothing ==
    /\ Collected /\ stage.batch # {}
    /\ get' = At("releasing")
    /\ Send("packing", stage.batch)
    /\ stage' = [stage EXCEPT !.batch = {}]
    /\ UNCHANGED <<store, owned, puts, size, shut, used>>

PackingEnds ==
    /\ Collected /\ stage.batch = {}
    /\ get' = At("stopped")
    /\ UNCHANGED <<store, owned, puts, stage, rel, size, shut, used>>

LeasesOf(gs) == {Store!Lease(g) : g \in gs}

HostMarkPacked ==
    LET ls == LeasesOf(stage.batch) IN
    /\ get.pc = "marking"
    /\ Store!MarkPacked(ls, PackedGeneration)
    /\ get' = At(IF Store!CanMarkPacked(ls) THEN "marked" ELSE "stopped")
    /\ UNCHANGED <<owned, puts, stage, rel, size, shut, used>>

HandOver ==
    /\ get.pc = "marked"
    /\ stage' = [stage EXCEPT !.packed = stage.batch, !.batch = {}]
    /\ get' = At(IF stage.sentinel THEN "stopped" ELSE "collect")
    /\ UNCHANGED <<store, owned, puts, rel, size, shut, used>>

PackStep ==
    \/ \E g \in Groups : Keep(g) \/ Discard(g, "releasing")
    \/ Pack \/ PackNothing \/ PackingEnds \/ HostMarkPacked \/ HandOver

-----------------------------------------------------------------------------
(* release_selections, by the packing stage for discarded groups and by the *)
(* trainer for the packed batch: the host removes the entries, then the     *)
(* client wakes blocked producers and has the owners drop the records.      *)

TrainerRelease ==
    /\ stage.packed # {} /\ rel["trainer"] = NoRelease /\ shut.closing = "open"
    /\ Send("trainer", stage.packed)
    /\ stage' = [stage EXCEPT !.packed = {}]
    /\ UNCHANGED <<store, owned, puts, get, size, shut, used>>

HostRelease(r) ==
    LET ls == LeasesOf(rel[r].groups)
        k == IF r = "trainer" THEN PackedGeneration ELSE None
        disposition == IF r = "trainer" THEN "consumed" ELSE "discarded" IN
    /\ rel[r].state = "sent"
    /\ Store!Release(ls, disposition, k)
    /\ rel' = [rel EXCEPT ![r].state =
                  IF Store!CanRelease(ls, disposition, k) THEN "applied" ELSE "failed"]
    /\ UNCHANGED <<owned, puts, get, stage, size, shut, used>>

(* Where the packing stage goes on after a release, raising failed.         *)
AfterRelease(failed) ==
    IF get.pc = "stopped" \/ failed THEN "stopped"
    ELSE IF stage.fetched # {} /\ get.pc = "releasing" THEN "examine"
    ELSE "collect"

ReleaseReply(r) ==
    LET failed == rel[r].state = "failed" IN
    /\ rel[r].state \in {"applied", "failed"}
    /\ rel' = [rel EXCEPT ![r] = NoRelease]
    /\ IF failed THEN UNCHANGED puts ELSE NotifySpace
    /\ shut' = [shut EXCEPT
                  !.cleaning = IF failed THEN @ ELSE @ \cup rel[r].groups,
                  !.ownerFailure =
                     @ /\ (failed \/ (r = "packing" /\ get.pc = "undoing"))]
    /\ IF r = "trainer"
       THEN UNCHANGED <<store, get, size>>
       ELSE EndGet(AfterRelease(failed \/ (shut.ownerFailure /\ get.pc # "undoing")))
    /\ UNCHANGED <<owned, stage, used>>

ReleaseStep(r) == HostRelease(r) \/ ReleaseReply(r)

(* _drain_owner_cleanup: a drop succeeds or fails.                          *)
CleanOwner(g) ==
    /\ g \in shut.cleaning
    /\ shut' = [shut EXCEPT !.cleaning = @ \ {g}]
    /\ owned' = owned \ {g}
    /\ UNCHANGED <<store, puts, get, stage, rel, size, used>>

DropFails ==
    /\ used.dropFailures < MaxDropFailures
    /\ used' = [used EXCEPT !.dropFailures = @ + 1]

CleanOwnerFails(g) ==
    /\ g \in shut.cleaning
    /\ DropFails
    /\ shut' = [shut EXCEPT !.cleaning = @ \ {g}, !.cleanupRefs = @ \cup {g},
                            !.ownerFailure = TRUE]
    /\ UNCHANGED <<store, owned, puts, get, stage, rel, size>>

-----------------------------------------------------------------------------
(* set_maxsize by the autotuner, the resize tasks, and snapshot.            *)

SetMaxsize ==
    /\ size.setting < Len(Settings)
    /\ size' = Synced(get.minimumTakeSize, size.setting + 1)
    /\ IssueResize(get.minimumTakeSize, size.setting + 1)
    /\ UNCHANGED <<owned, puts, get, stage, rel, shut, used>>

HostResize(k) ==
    /\ OnItsWay(k)
    /\ used.schedule.ordered => \A j \in 1..(k - 1) : ~OnItsWay(j)
    /\ IF hosted THEN Store!Resize(k) ELSE UNCHANGED store
    /\ size' = [size EXCEPT !.tasks[k] = IF @ = "sent" THEN "replied" ELSE "done"]
    /\ UNCHANGED <<owned, puts, get, stage, rel, shut, used>>

ResizeReply(k) ==
    /\ size.tasks[k] = "replied"
    /\ size' = [size EXCEPT !.tasks[k] = "done"]
    /\ NotifySpace
    /\ NotifyItems
    /\ UNCHANGED <<store, owned, stage, rel, shut, used>>

ResizeStep(k) == HostResize(k) \/ ResizeReply(k)

SnapshotStart ==
    /\ used.schedule.snapshots /\ ~closed
    /\ size.awaits["snapshot"] = None /\ size.uncollected # {}
    /\ size' = Collect("snapshot", size)
    /\ UNCHANGED <<store, owned, puts, get, stage, rel, shut, used>>

(* It returns with a state of the host that reflects every resize issued,   *)
(* and starts again with any other.                                         *)
SnapshotEnds ==
    /\ FlushEnds("snapshot") /\ generation >= Len(resizes)
    /\ size' = FlushDone("snapshot")
    /\ UNCHANGED <<store, owned, puts, get, stage, rel, shut, used>>

-----------------------------------------------------------------------------
(* finish: by the rollout stage when the scenarios are exhausted, or by     *)
(* request_stop at any time.                                                *)

FinishStart ==
    /\ shut.finishing = "open" /\ ~closed
    /\ shut' = [shut EXCEPT !.finishing = "sent"]
    /\ UNCHANGED <<store, owned, puts, get, stage, rel, size, used>>

HostFinish ==
    /\ shut.finishing = "sent"
    /\ shut' = [shut EXCEPT !.finishing = "replied"]
    /\ IF hosted THEN Store!Finish ELSE UNCHANGED store
    /\ UNCHANGED <<owned, puts, get, stage, rel, size, used>>

FinishReply ==
    /\ shut.finishing = "replied"
    /\ shut' = [shut EXCEPT !.finishing = "done"]
    /\ NotifySpace
    /\ NotifyItems
    /\ UNCHANGED <<store, owned, stage, rel, size, used>>

-----------------------------------------------------------------------------
(* close: train() calls it when its stages have ended, so get_many never    *)
(* meets a closed queue (its checks of _closed are dead code); puts may.    *)
(* It is called again when a close reported failed drops.                   *)

CloseStart ==
    /\ shut.closing \in {"open", "failed"}
    /\ get.pc = "stopped" /\ \A r \in Releasers : rel[r] = NoRelease
    /\ shut' = [shut EXCEPT !.closing = "flush"]
    /\ size' = Collect("close", size)
    /\ UNCHANGED <<store, owned, puts, get, stage, rel, used>>

CloseFlushed ==
    /\ shut.closing = "flush" /\ FlushEnds("close")
    /\ size' = FlushDone("close")
    /\ shut' = [shut EXCEPT !.closed = TRUE,
                            !.closing = IF closed THEN "draining" ELSE "sent"]
    /\ IF closed THEN UNCHANGED <<puts, get>> ELSE NotifySpace /\ NotifyItems
    /\ UNCHANGED <<store, owned, stage, rel, used>>

HostClose ==
    /\ shut.closing = "sent"
    /\ Store!Close
    /\ shut' = [shut EXCEPT !.closing = "replied", !.closeRefs = Store!Entries]
    /\ UNCHANGED <<owned, puts, get, stage, rel, size, used>>

CloseReply ==
    /\ shut.closing = "replied"
    /\ shut' = [shut EXCEPT !.closing = "draining",
                            !.cleanupRefs = @ \cup shut.closeRefs]
    /\ UNCHANGED <<store, owned, puts, get, stage, rel, size, used>>

(* The owner clean-up tasks are awaited before _cleanup_refs is read.       *)
CloseDrained ==
    /\ shut.closing = "draining" /\ shut.cleaning = {}
    /\ shut' = [shut EXCEPT !.closing = "dropping",
                            !.closeRefs = shut.cleanupRefs,
                            !.failedDrops = {}, !.ownerFailure = FALSE]
    /\ UNCHANGED <<store, owned, puts, get, stage, rel, size, used>>

CloseDrop(g) ==
    /\ shut.closing = "dropping" /\ g \in shut.closeRefs
    /\ \/ /\ owned' = owned \ {g}
          /\ shut' = [shut EXCEPT !.closeRefs = @ \ {g}]
          /\ UNCHANGED used
       \/ /\ DropFails
          /\ shut' = [shut EXCEPT !.closeRefs = @ \ {g},
                                  !.failedDrops = @ \cup {g}]
          /\ UNCHANGED owned
    /\ UNCHANGED <<store, puts, get, stage, rel, size>>

(* Variant: close does not keep the groups whose drop failed.               *)
CloseEndForgets ==
    /\ shut.closing = "dropping" /\ shut.closeRefs = {}
    /\ shut' = [shut EXCEPT !.closing = "closed"]
    /\ UNCHANGED <<store, owned, puts, get, stage, rel, size, used>>

CloseEnd ==
    /\ shut.closing = "dropping" /\ shut.closeRefs = {}
    /\ shut' = [shut EXCEPT
                  !.cleanupRefs = shut.failedDrops,
                  !.closing = IF shut.failedDrops = {} THEN "closed" ELSE "failed"]
    /\ UNCHANGED <<store, owned, puts, get, stage, rel, size, used>>

CloseStep ==
    \/ CloseStart \/ FlushMore("close") \/ CloseFlushed \/ HostClose
    \/ CloseReply \/ CloseDrained \/ CloseEnd
    \/ \E g \in Groups : CloseDrop(g)

-----------------------------------------------------------------------------

Next ==
    \/ \E g \in Groups :
          \/ PutStep(g) \/ PutCancel(g)
          \/ CleanOwner(g) \/ CleanOwnerFails(g)
          \/ Discard(g, "stopped")
    \/ GetStep \/ GetCancel \/ PackStep \/ TrainerRelease
    \/ \E r \in Releasers : ReleaseStep(r)
    \/ SetMaxsize
    \/ \E k \in DOMAIN size.tasks : ResizeStep(k)
    \/ SnapshotStart \/ FlushMore("snapshot") \/ SnapshotEnds
    \/ FinishStart \/ HostFinish \/ FinishReply
    \/ CloseStep

Spec == Init /\ [][Next]_vars

PutDone(g) == puts[g].pc \in {"accepted", "refused", "failed", "cancelled"}

(* What goes on by itself: calls are answered, tasks that can run do run,   *)
(* the trainer trains, and the stages end the way train() ends them: finish *)
(* once every rollout has been put, close once the stages have ended.       *)
(* Nothing obliges a cancellation, a resize, a snapshot, an early finish or *)
(* an early close to happen.                                                *)
GoesOn ==
    \/ \E g \in Groups : PutStep(g) \/ CleanOwner(g)
    \/ GetStep \/ PackStep \/ TrainerRelease
    \/ \E r \in Releasers : ReleaseStep(r)
    \/ \E k \in DOMAIN size.tasks : ResizeStep(k)
    \/ FlushMore("snapshot") \/ SnapshotEnds
    \/ FinishStart /\ \A g \in Groups : PutDone(g)
    \/ HostFinish \/ FinishReply
    \/ /\ CloseStep
       /\ shut.closing \in {"open", "failed"} =>
             get.pc = "stopped" /\ \A g \in Groups : PutDone(g)

(* The least that any fair scheduler gives: while something can go on,      *)
(* something does.  Every activity is finite, so this is enough.            *)
LiveSpec == Spec /\ WF_vars(GoesOn)
-----------------------------------------------------------------------------
(* The queue as its producers see it never runs ahead of the owners: the    *)
(* records of every group in the queue, leased or not, are still stored by  *)
(* their owner, whatever puts were cancelled or refused meanwhile.          *)
RecordsBackEntries == hosted => Store!Entries \subseteq owned

(* The leases the host has given and those the client works on are the same *)
(* groups, each in the hands of one activity: a cancelled take keeps none,  *)
(* and no stage works on a group whose lease is gone.                       *)
InHands ==
    <<stage.fetched, stage.batch, stage.packed,
      IF get.answer = None THEN {} ELSE get.answer.groups,
      IF rel["packing"].state = "sent" THEN rel["packing"].groups ELSE {},
      IF rel["trainer"].state = "sent" THEN rel["trainer"].groups ELSE {}>>

LeasesAreTracked ==
    hosted =>
       /\ UNION {InHands[i] : i \in DOMAIN InHands}
             = {g \in Groups : phase[g] \in {"packing", "packed"}}
       /\ \A i, j \in DOMAIN InHands : i # j => InHands[i] \cap InHands[j] = {}

(* A minimum the host keeps pending is the one a running get_many asked     *)
(* for, and the queue is large enough for it and the groups retained by the *)
(* batch, even while the autotuner shrinks the queue.                       *)
MinimumIsReserved ==
    hosted /\ pendingMinimum # None /\ ~minimumError =>
       /\ get.wait /\ get.count = pendingMinimum.count
       /\ get.minimumTakeSize = get.count + held
       /\ maxReadyGroups >= get.minimumTakeSize \/ ResizeLost

(* A take the client checked against maxsize is not refused by the host for *)
(* a limit a resize in flight has not reached yet, nor for another pending  *)
(* minimum: the flush before the first take is a barrier.                   *)
NoSpuriousRefusal ==
    used.schedule.ordered /\ get.answer # None =>
       /\ get.answer.outcome # "lease_error"
       /\ get.answer.outcome = "capacity_error" =>
             minimumError \/ ResizeLost

(* The minimum a batch asks for is granted as soon as the groups are there. *)
MinimumIsHonoured == MinimumIsReserved /\ NoSpuriousRefusal

(* When every resize task is done the host works with the client's target,  *)
(* in whatever order the resizes were handled.                              *)
LimitConverges ==
    /\ size.effective = Max({maxsize, get.minimumTakeSize})
    /\ hosted /\ ~closed /\ (\A k \in DOMAIN size.tasks : size.tasks[k] = "done") =>
          maxReadyGroups = size.effective

(* The same when a cancelled get_many is among the callers: set_maxsize     *)
(* takes effect once no resize is on its way.                               *)
LimitSurvivesCancellation ==
    hosted /\ ~closed /\ (\A k \in DOMAIN size.tasks : ~OnItsWay(k)) =>
       maxReadyGroups = size.effective

(* Every step of the client is a step of the store, or none.                *)
StoreSpec == Store!Spec

(* A put that has called the queue ends: no producer is left waiting for a  *)
(* wake-up, whoever takes, releases, resizes, finishes or closes.           *)
EveryPutEnds == \A g \in Groups : InFlight(g) ~> PutDone(g)

(* The packing stage drains the queue and ends.                             *)
PackingStops == <>(get.pc = "stopped")

(* In the end no owner stores records of this queue.                        *)
OwnersEndEmpty == <>[](owned = {})

(* The packing stage waits for a minimum that the groups it retains keep    *)
(* out of reach: every blocked producer lacks record or byte capacity, the  *)
(* batch occupies some, and the host keeps answering "full".                *)
Wedged ==
    /\ get.pc = "waiting" /\ stage.batch # {}
    /\ \E g \in Groups : puts[g].pc = "waiting"
    /\ \A g \in Groups :
          ~PutDone(g) => \/ usedRecords + Records[g] > CapacityRecords
                         \/ usedBytes + Bytes[g] > CapacityBytes

(* With too little capacity for a batch, that is the only way to get stuck. *)
StopsOrWedges == <>[](get.pc = "stopped" \/ Wedged)

=============================================================================
