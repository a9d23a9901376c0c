--------------------------- MODULE PackedBatches ---------------------------
(***************************************************************************)
(* The packed batches of a distributed trainer: the shared memory stores   *)
(* of the trainer hosts (art/distributed/data_plane.py), the runtime that  *)
(* packs on one host and copies to the others (ArtRuntime.pack), and the   *)
(* owners of a batch on the controller: the packing stage, the training    *)
(* stage and the releases that the Megatron backend leaves running.        *)
(*                                                                         *)
(* A host handles one plain endpoint at a time, so a handler is one step;  *)
(* the reservation a receiving host holds meanwhile is seen by nobody.     *)
(* Calls in flight are handled in any order, and also when their caller    *)
(* was cancelled: what it left behind is told from a later call by the     *)
(* fence of reclaim.  Batches have the same size; their contents, groups   *)
(* and log files are left out.                                             *)
(***************************************************************************)
EXTENDS Integers, Sequences, FiniteSets

CONSTANTS
    Topologies,   \* [hosts, batches]: the trainer hosts in mesh order, and the
                  \* bound on the batches packed there
    Capacity,     \* batches that fit into the store of a host
    MaxCancels,   \* bound: cancellations from outside
    MaxFaults,    \* bound: calls that fail
    None

ASSUME PackedAssumption ==
    /\ \A t \in Topologies : /\ t.hosts \in Seq(STRING) \ {<<>>}
                            /\ t.batches \in Nat
    /\ {Capacity, MaxCancels, MaxFaults} \subseteq Nat
    /\ None \notin Nat

VARIABLES
    topology,   \* the topology this runtime was started with
    entries,    \* batches in the store of each host
    fenced,     \* batches each store has reclaimed for good
    published,  \* batches each host streams to others
    calls,      \* the calls in flight, [op, host, batch]
    live,       \* _live_batches of the runtime
    pack,       \* [pc, batch, replies]: the packing stage
    queue,      \* the batch in _packed_queue, or None
    train,      \* [pc, batch]: the training stage
    release,    \* [state, pending] of each batch: its _reclaim_batch
    background, \* _batch_release_tasks
    stopping,   \* the pipeline was cancelled, or a stage of it failed
    runtime,    \* "open", "reclaiming", "closed"
    used        \* [cancels, faults]

vars == <<topology, entries, fenced, published, calls, live, pack, queue, train,
          release, background, stopping, runtime, used>>
hostVars == <<topology, entries, fenced, published>>
ownVars == <<live, queue, train, background, stopping, runtime>>

HostSet == {topology.hosts[i] : i \in DOMAIN topology.hosts}
Batches == 1..topology.batches

(* The hosts take turns in packing (_next_packing_host).                    *)
Source(b) == topology.hosts[1 + ((b - 1) % Len(topology.hosts))]
Others(b) == HostSet \ {Source(b)}

(* _finish_training_batch waits while so many releases are running.         *)
Slots == 2

Init ==
    /\ topology \in Topologies
    /\ entries = [h \in HostSet |-> {}]
    /\ fenced = [h \in HostSet |-> {}]
    /\ published = [h \in HostSet |-> {}]
    /\ calls = {} /\ live = {} /\ queue = None /\ background = {}
    /\ pack = [pc |-> "idle", batch |-> 0, replies |-> [h \in HostSet |-> "none"]]
    /\ train = [pc |-> "idle", batch |-> 0]
    /\ release = [b \in Batches |-> [state |-> "none", pending |-> {}]]
    /\ stopping = FALSE /\ runtime = "open"
    /\ used = [cancels |-> 0, faults |-> 0]

CallAll(op_, hs, b) == {[op |-> op_, host |-> h, batch |-> b] : h \in hs}

Fault ==
    /\ used.faults < MaxFaults
    /\ used' = [used EXCEPT !.faults = @ + 1]

-----------------------------------------------------------------------------
(* The hosts.                                                               *)

(* The handler of a call ends; its reply counts if the caller still awaits  *)
(* it.                                                                      *)
Answers(op_, h, b, pc, reply) ==
    LET c == [op |-> op_, host |-> h, batch |-> b]
    IN  /\ c \in calls /\ runtime # "closed"
        /\ calls' = calls \ {c}
        /\ pack' = IF pack.pc \in pc /\ pack.batch = b
                   THEN [pack EXCEPT !.replies[h] = reply] ELSE pack
        /\ UNCHANGED <<ownVars, release>>

(* create and reserve: a reclaimed batch is refused, and so is one for      *)
(* which there is no room.                                                  *)
Admission(h, b) ==
    CASE b \in fenced[h] -> "failed"
      [] Cardinality(entries[h]) >= Capacity -> "refused"
      [] OTHER -> "ok"

Insert(h, b) == entries' = [entries EXCEPT ![h] = @ \cup {b}]

(* pack_batch: the groups are fetched and packed; there may be nothing to   *)
(* train on.                                                                *)
HostPack(h, b) ==
    /\ \/ /\ Answers("pack", h, b, {"packing"}, Admission(h, b))
          /\ IF Admission(h, b) = "ok" THEN Insert(h, b) ELSE UNCHANGED entries
          /\ UNCHANGED used
       \/ Answers("pack", h, b, {"packing"}, "empty") /\ UNCHANGED <<entries, used>>
       \/ Answers("pack", h, b, {"packing"}, "failed") /\ Fault /\ UNCHANGED entries
    /\ UNCHANGED <<topology, fenced, published>>

(* publish_batch opens the segment by its name, which a reclaim removes.    *)
HostPublish(h, b) ==
    /\ Answers("publish", h, b, {"publishing"},
               IF b \in entries[h] THEN "ok" ELSE "failed")
    /\ published' = IF b \in entries[h]
                    THEN [published EXCEPT ![h] = @ \cup {b}] ELSE published
    /\ UNCHANGED <<topology, entries, fenced, used>>

(* receive_batch: reserve, read the stream to its end, commit.              *)
HostReceive(h, b) ==
    LET reply == IF Admission(h, b) = "ok" /\ b \notin published[Source(b)]
                 THEN "failed" ELSE Admission(h, b)
    IN  /\ \/ /\ Answers("receive", h, b, {"fanning"}, reply)
              /\ IF reply = "ok" THEN Insert(h, b) ELSE UNCHANGED entries
              /\ UNCHANGED used
           \/ Answers("receive", h, b, {"fanning"}, "failed") /\ Fault /\ UNCHANGED entries
        /\ UNCHANGED <<topology, fenced, published>>

(* drop_batch closes the publisher, if there is one.                        *)
HostUnpublish(h, b) ==
    /\ Answers("unpublish", h, b, {"dropping", "unpublishing"}, "ok")
    /\ published' = [published EXCEPT ![h] = @ \ {b}]
    /\ UNCHANGED <<topology, entries, fenced, used>>

(* drop_batch_ref reclaims a batch that is still there, with a fence.       *)
HostDropRef(h, b) ==
    /\ Answers("drop", h, b, {"undoing"}, "dropped")
    /\ entries' = [entries EXCEPT ![h] = @ \ {b}]
    /\ fenced' = IF b \in entries[h] THEN [fenced EXCEPT ![h] = @ \cup {b}] ELSE fenced
    /\ UNCHANGED <<topology, published, used>>

(* Variant: the fence is forgotten.                                         *)
HostReclaimUnfenced(h, b, fence) ==
    LET c == [op |-> IF fence THEN "fence" ELSE "reclaim", host |-> h, batch |-> b]
    IN  /\ c \in calls /\ runtime # "closed"
        /\ calls' = calls \ {c}
        /\ published' = [published EXCEPT ![h] = @ \ {b}]
        /\ entries' = [entries EXCEPT ![h] = @ \ {b}]
        /\ release' = [release EXCEPT ![b].pending = @ \ {h}]
        /\ UNCHANGED <<ownVars, pack, topology, fenced, used>>

(* reclaim_batch closes the publisher and frees the segment, and raises     *)
(* after that what the publisher met; the call may also be lost.            *)
HostReclaim(h, b, fence) ==
    LET c == [op |-> IF fence THEN "fence" ELSE "reclaim", host |-> h, batch |-> b]
        freed == [release EXCEPT ![b].pending = @ \ {h}]
    IN  /\ c \in calls /\ runtime # "closed"
        /\ calls' = calls \ {c}
        /\ \/ /\ published' = [published EXCEPT ![h] = @ \ {b}]
              /\ entries' = [entries EXCEPT ![h] = @ \ {b}]
              /\ fenced' = IF fence THEN [fenced EXCEPT ![h] = @ \cup {b}] ELSE fenced
              /\ \/ release' = freed /\ UNCHANGED used
                 \/ /\ b \in published[h] /\ Fault
                    /\ release' = [freed EXCEPT ![b].state = "failing"]
              /\ UNCHANGED topology
           \/ /\ Fault
              /\ release' = [freed EXCEPT ![b].state = "failing"]
              /\ UNCHANGED hostVars
        /\ UNCHANGED <<ownVars, pack>>

HostStep(h, b) ==
    \/ HostPack(h, b) \/ HostPublish(h, b) \/ HostReceive(h, b)
    \/ HostUnpublish(h, b) \/ HostDropRef(h, b)
    \/ \E fence \in BOOLEAN : HostReclaim(h, b, fence)

-----------------------------------------------------------------------------
(* Releases: every host is asked at once.                                   *)

StartRelease(bs, fence) ==
    /\ release' = [b \in Batches |-> IF b \in bs
                     THEN [state |-> "running", pending |-> HostSet] ELSE release[b]]
    /\ calls' = calls \cup UNION {CallAll(IF fence THEN "fence" ELSE "reclaim",
                                          HostSet, b) : b \in bs}

Running(b) == release[b].state \in {"running", "failing"}
Ended(b) == release[b].state \in {"done", "failed"}

(* The batch is forgotten only when every host has answered.                *)
ReleaseEnds(b) ==
    /\ Running(b) /\ release[b].pending = {} /\ runtime # "closed"
    /\ IF release[b].state = "running"
       THEN release' = [release EXCEPT ![b].state = "done"] /\ live' = live \ {b}
       ELSE release' = [release EXCEPT ![b].state = "failed"] /\ UNCHANGED live
    /\ UNCHANGED <<hostVars, calls, pack, queue, train, background, stopping,
                   runtime, used>>

-----------------------------------------------------------------------------
(* The packing stage.                                                       *)

(* It calls op on the hosts hs and awaits their replies at pc.              *)
Send(op_, hs, pc) ==
    /\ calls' = calls \cup CallAll(op_, hs, pack.batch)
    /\ pack' = [pack EXCEPT !.pc = pc,
                  !.replies = [h \in HostSet |-> IF h \in hs THEN "none" ELSE @[h]]]
    /\ UNCHANGED release

(* _reclaim_after_failure, with a fence, and _cleanup_packing_ownership or  *)
(* _discard_prepared_resources, without one: shielded from cancellation.    *)
GiveUp(fence) ==
    /\ StartRelease({pack.batch}, fence)
    /\ pack' = [pack EXCEPT !.pc = "releasing"]

PackStart ==
    /\ pack.pc = "idle" /\ pack.batch < topology.batches /\ train.pc # "ended"
    /\ LET b == pack.batch + 1 IN
        /\ pack' = [pc |-> "packing", batch |-> b, replies |-> [h \in HostSet |-> "none"]]
        /\ live' = live \cup {b}
        /\ calls' = calls \cup CallAll("pack", {Source(b)}, b)
    /\ UNCHANGED <<hostVars, queue, train, release, background, stopping, runtime, used>>

(* No more groups, or the trainer has stopped.                              *)
PackEnds ==
    /\ pack.pc = "idle"
    /\ pack.batch = topology.batches \/ train.pc = "ended"
    /\ pack' = [pack EXCEPT !.pc = "ended"]
    /\ UNCHANGED <<hostVars, ownVars, calls, release, used>>

(* The pack call returns: nothing to train on, a failure, or a batch that   *)
(* has to be copied to the other hosts.                                     *)
PackPacked ==
    LET b == pack.batch
        reply == pack.replies[Source(b)]
    IN  /\ pack.pc = "packing" /\ reply # "none"
        /\ CASE reply = "empty" -> /\ pack' = [pack EXCEPT !.pc = "idle"]
                                   /\ live' = live \ {b}
                                   /\ UNCHANGED <<calls, release>>
             [] reply = "ok" -> /\ IF Others(b) = {}
                                   THEN /\ pack' = [pack EXCEPT !.pc = "preparing"]
                                        /\ UNCHANGED <<calls, release>>
                                   ELSE Send("publish", {Source(b)}, "publishing")
                                /\ UNCHANGED live
             [] OTHER -> GiveUp(TRUE) /\ UNCHANGED live
        /\ UNCHANGED <<hostVars, queue, train, background, stopping, runtime, used>>

PackPublished ==
    LET reply == pack.replies[Source(pack.batch)]
    IN  /\ pack.pc = "publishing" /\ reply # "none"
        /\ IF reply = "ok" THEN Send("receive", Others(pack.batch), "fanning")
                           ELSE GiveUp(TRUE)
        /\ UNCHANGED <<hostVars, ownVars, used>>

(* Variant: one copy is taken for all of them.                              *)
PackFannedOutOnce ==
    LET replies == {pack.replies[h] : h \in Others(pack.batch)}
    IN  /\ pack.pc = "fanning" /\ "none" \notin replies
        /\ IF "ok" \in replies THEN Send("unpublish", {Source(pack.batch)}, "dropping")
                               ELSE Send("drop", {}, "undoing")
        /\ UNCHANGED <<hostVars, ownVars, used>>

(* Every other host has answered; the copies are undone unless all of them  *)
(* arrived.                                                                 *)
PackFannedOut ==
    LET b == pack.batch
        replies == {pack.replies[h] : h \in Others(b)}
    IN  /\ pack.pc = "fanning" /\ "none" \notin replies
        /\ IF replies \subseteq {"ok"} THEN Send("unpublish", {Source(b)}, "dropping")
                                       ELSE Send("drop", {}, "undoing")
        /\ UNCHANGED <<hostVars, ownVars, used>>

(* _release_transferred drops the copies one after the other; then the      *)
(* publisher is closed.                                                     *)
PackUndoes ==
    LET b == pack.batch
        copies == {h \in Others(b) : pack.replies[h] = "ok"}
        dropping == {c \in calls : c.op = "drop" /\ c.batch = b}
    IN  /\ pack.pc = "undoing" /\ dropping = {}
        /\ IF copies = {} THEN Send("unpublish", {Source(b)}, "unpublishing")
           ELSE LET h == CHOOSE h \in copies : TRUE
                IN  /\ calls' = calls \cup CallAll("drop", {h}, b)
                    /\ UNCHANGED <<pack, release>>
        /\ UNCHANGED <<hostVars, ownVars, used>>

PackUnpublished ==
    /\ pack.pc \in {"dropping", "unpublishing"}
    /\ pack.replies[Source(pack.batch)] # "none"
    /\ IF pack.pc = "dropping"
       THEN pack' = [pack EXCEPT !.pc = "preparing"] /\ UNCHANGED <<calls, release>>
       ELSE GiveUp(TRUE)
    /\ UNCHANGED <<hostVars, ownVars, used>>

(* The sources are marked packed and the CP lookahead opens the batch on    *)
(* every host, which may fail; then the batch is offered to the trainer,    *)
(* unless that has stopped.                                                 *)
PackPrepared ==
    /\ pack.pc = "preparing"
    /\ \/ /\ train.pc # "ended"
          /\ queue' = pack.batch
          /\ pack' = [pack EXCEPT !.pc = "handoff"]
          /\ UNCHANGED <<calls, release, used>>
       \/ /\ (train.pc = "ended" /\ UNCHANGED used) \/ Fault
          /\ GiveUp(FALSE) /\ UNCHANGED queue
    /\ UNCHANGED <<hostVars, live, train, background, stopping, runtime>>

(* Variant: the stage goes on while its last batch waits for the trainer.   *)
PackHandsOffEarly ==
    /\ pack.pc = "handoff"
    /\ queue = None \/ train.pc \notin {"idle", "ended", "failed"}
    /\ pack' = [pack EXCEPT !.pc = "idle"]
    /\ UNCHANGED <<hostVars, ownVars, calls, release, used>>

(* item.handoff is set: by the trainer when it has dealt with the batch.    *)
PackHandsOff ==
    /\ pack.pc = "handoff" /\ queue = None /\ train.pc # "discarding"
    /\ pack' = [pack EXCEPT !.pc = "idle"]
    /\ UNCHANGED <<hostVars, ownVars, calls, release, used>>

PackReleased ==
    /\ pack.pc = "releasing" /\ Ended(pack.batch)
    /\ pack' = [pack EXCEPT !.pc = "ended"]
    /\ stopping' = TRUE
    /\ UNCHANGED <<hostVars, calls, live, queue, train, release, background, runtime, used>>

(* The stage is cancelled, perhaps more than once.                          *)
PackInterrupted ==
    /\ stopping
    /\ CASE pack.pc \in {"packing", "publishing", "dropping", "unpublishing"} -> GiveUp(TRUE)
         [] pack.pc = "fanning" -> Send("drop", {}, "undoing")
         [] pack.pc = "undoing" -> Send("unpublish", {Source(pack.batch)}, "unpublishing")
         [] pack.pc = "preparing" -> GiveUp(FALSE)
         [] pack.pc \in {"idle", "handoff"} ->
                pack' = [pack EXCEPT !.pc = "ended"] /\ UNCHANGED <<calls, release>>
         [] OTHER -> FALSE
    /\ UNCHANGED <<hostVars, ownVars, used>>

PackStep ==
    \/ PackStart \/ PackEnds \/ PackPacked \/ PackPublished \/ PackFannedOut
    \/ PackUndoes \/ PackUnpublished \/ PackPrepared \/ PackHandsOff
    \/ PackReleased \/ PackInterrupted

-----------------------------------------------------------------------------
(* The training stage.                                                      *)

trainRest == <<hostVars, live, pack, runtime>>

EndedTasks == {b \in background : Ended(b)}
ReleaseFailed == \E b \in background : release[b].state = "failed"

(* A batch is taken; the failures of earlier releases are raised first, and *)
(* then this batch is released before the error leaves.                     *)
TrainStart ==
    /\ train.pc = "idle" /\ queue # None
    /\ background' = background \ EndedTasks
    /\ IF ReleaseFailed
       THEN train' = [pc |-> "draining", batch |-> queue] /\ StartRelease({queue}, FALSE)
       ELSE train' = [pc |-> "training", batch |-> queue] /\ UNCHANGED <<calls, release>>
    /\ queue' = None
    /\ UNCHANGED <<trainRest, stopping, used>>

(* A batch that has become stale is discarded, then handed off.             *)
TrainDiscards ==
    /\ train.pc = "idle" /\ queue # None
    /\ train' = [pc |-> "discarding", batch |-> queue]
    /\ StartRelease({queue}, FALSE)
    /\ queue' = None
    /\ UNCHANGED <<trainRest, background, stopping, used>>

TrainDiscarded ==
    /\ train.pc = "discarding" /\ Ended(train.batch)
    /\ IF release[train.batch].state = "done"
       THEN train' = [train EXCEPT !.pc = "idle"] /\ UNCHANGED stopping
       ELSE train' = [train EXCEPT !.pc = "failed"] /\ stopping' = TRUE
    /\ UNCHANGED <<trainRest, calls, queue, release, background, used>>

(* train_packed returns, or fails.                                          *)
TrainEnds ==
    /\ train.pc = "training"
    /\ train' = [train EXCEPT !.pc = "finishing"]
    /\ UNCHANGED <<trainRest, calls, queue, release, background, stopping, used>>

TrainFails ==
    /\ train.pc = "training"
    /\ (stopping /\ UNCHANGED used) \/ Fault
    /\ StartRelease({train.batch}, FALSE)
    /\ train' = [train EXCEPT !.pc = "draining"]
    /\ UNCHANGED <<trainRest, queue, background, stopping>>

TrainDrained ==
    /\ train.pc = "draining"
    /\ \A b \in background \cup {train.batch} : Ended(b)
    /\ background' = {}
    /\ train' = [train EXCEPT !.pc = "failed"]
    /\ stopping' = TRUE
    /\ UNCHANGED <<trainRest, calls, queue, release, used>>

(* Variants: the number of releases is not limited, or those that have      *)
(* ended are not taken out of the set.                                      *)
TrainFinishesAtOnce ==
    /\ train.pc = "finishing"
    /\ background' = background \cup {train.batch}
    /\ StartRelease({train.batch}, FALSE)
    /\ train' = [train EXCEPT !.pc = "idle"]
    /\ UNCHANGED <<trainRest, queue, stopping, used>>

TrainFinishesUncollected ==
    /\ Cardinality(background) < Slots
    /\ TrainFinishesAtOnce

(* _finish_training_batch: the batch is released in the background, once    *)
(* there is a slot; a failure of an earlier release leaves it to close.     *)
TrainFinishes ==
    /\ train.pc = "finishing"
    /\ IF ReleaseFailed
       THEN /\ background' = background \ EndedTasks
            /\ train' = [train EXCEPT !.pc = "failed"]
            /\ stopping' = TRUE
            /\ UNCHANGED <<calls, release>>
       ELSE /\ Cardinality(background \ EndedTasks) < Slots
            /\ background' = (background \ EndedTasks) \cup {train.batch}
            /\ StartRelease({train.batch}, FALSE)
            /\ train' = [train EXCEPT !.pc = "idle"]
            /\ UNCHANGED stopping
    /\ UNCHANGED <<trainRest, queue, used>>

(* The groups are used up, the last step is reached, or the stage is        *)
(* cancelled.                                                               *)
TrainStops ==
    /\ train.pc = "idle"
    /\ train' = [train EXCEPT !.pc = IF stopping THEN "failed" ELSE "ended"]
    /\ UNCHANGED <<trainRest, calls, queue, release, background, stopping, used>>

TrainStep ==
    \/ TrainStart \/ TrainDiscards \/ TrainDiscarded \/ TrainEnds \/ TrainFails
    \/ TrainDrained \/ TrainFinishes \/ TrainStops

-----------------------------------------------------------------------------
(* The end.                                                                 *)

(* _discard_pending_prepared_batches, by the trainer that has stopped or by *)
(* train() after its stages.                                                *)
DiscardQueued ==
    /\ queue # None
    /\ train.pc = "ended" \/ (train.pc = "failed" /\ pack.pc = "ended")
    /\ StartRelease({queue}, FALSE)
    /\ queue' = None
    /\ UNCHANGED <<trainRest, train, background, stopping, used>>

(* The backend is closed: what is still listed is reclaimed, with a fence,  *)
(* and then the hosts are closed whether or not that worked.                *)
NothingRuns == \A b \in Batches : ~Running(b)

Close ==
    /\ train.pc \in {"ended", "failed"} /\ pack.pc = "ended" /\ queue = None
    /\ runtime = "open" /\ NothingRuns
    /\ StartRelease(live, TRUE)
    /\ background' = {}
    /\ runtime' = "reclaiming"
    /\ UNCHANGED <<hostVars, live, pack, queue, train, stopping, used>>

CloseHosts ==
    /\ runtime = "reclaiming" /\ NothingRuns
    /\ entries' = [h \in HostSet |-> {}]
    /\ published' = [h \in HostSet |-> {}]
    /\ runtime' = "closed"
    /\ UNCHANGED <<topology, fenced, calls, live, pack, queue, train, release,
                   background, stopping, used>>

Cancel ==
    /\ used.cancels < MaxCancels /\ runtime = "open"
    /\ used' = [used EXCEPT !.cancels = @ + 1]
    /\ stopping' = TRUE
    /\ UNCHANGED <<hostVars, calls, live, pack, queue, train, release, background, runtime>>

GoesOn ==
    \/ \E h \in HostSet, b \in Batches : HostStep(h, b)
    \/ \E b \in Batches : ReleaseEnds(b)
    \/ PackStep \/ TrainStep \/ DiscardQueued \/ Close \/ CloseHosts

Next == GoesOn \/ Cancel

(* The hosts answer, or their calls fail, and the event loop goes on.       *)
Spec == Init /\ [][Next]_vars /\ WF_vars(GoesOn)

-----------------------------------------------------------------------------
(* Properties.                                                              *)

(* The types; at most Slots releases run in the background.                 *)
TypeOK ==
    /\ topology \in Topologies
    /\ {entries, fenced, published} \subseteq [HostSet -> SUBSET Batches]
    /\ calls \subseteq [op : {"pack", "publish", "receive", "unpublish", "drop",
                             "fence", "reclaim"},
                        host : HostSet, batch : Batches]
    /\ live \subseteq Batches /\ queue \in Batches \cup {None}
    /\ pack \in [pc : {"idle", "packing", "publishing", "fanning", "undoing", "dropping",
                      "unpublishing", "preparing", "handoff", "releasing", "ended"},
                batch : 0..topology.batches,
                replies : [HostSet -> {"none", "ok", "empty", "failed", "refused",
                                       "dropped"}]]
    /\ train \in [pc : {"idle", "training", "discarding", "finishing", "draining",
                       "ended", "failed"},
                 batch : 0..topology.batches]
    /\ release \in [Batches -> [state : {"none", "running", "failing", "done", "failed"},
                               pending : SUBSET HostSet]]
    /\ background \subseteq Batches /\ Cardinality(background) <= Slots
    /\ stopping \in BOOLEAN /\ runtime \in {"open", "reclaiming", "closed"}

(* From the end of its fan-out to the start of its release a batch is in    *)
(* the store of every host: the ranks, and the CP lookahead, open it there  *)
(* without asking (MappedPackedBatch.open).                                 *)
InUse == IF pack.pc = "preparing" THEN {pack.batch} ELSE {}
Offered == IF queue = None THEN {} ELSE {queue}
Trained == IF train.pc = "training" THEN {train.batch} ELSE {}

BatchIsWhole ==
    \A b \in InUse \cup Offered \cup Trained, h \in HostSet : b \in entries[h]

(* No shared memory is lost: what a store holds and what a host streams is  *)
(* in _live_batches, which close reclaims, also when a pack was cancelled   *)
(* and its calls are handled after the release.                             *)
StorageIsListed == \A h \in HostSet : entries[h] \cup published[h] \subseteq live

(* There is room for every batch that is packed: the stores raise, and do   *)
(* not wait, when there is none (_require_capacity).                        *)
PackIsNeverRefused == \A h \in HostSet : pack.replies[h] # "refused"

(* Everything is closed in the end: no stage waits for a reply, a slot, a   *)
(* handoff or a release that never comes.                                   *)
Closes == <>(runtime = "closed")
=============================================================================
