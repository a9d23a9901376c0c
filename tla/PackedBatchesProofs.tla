------------------------- MODULE PackedBatchesProofs -------------------------
(***************************************************************************)
(* Proofs about PackedBatches for any topology, any number of batches and  *)
(* any number of cancellations and faults.                                 *)
(*                                                                         *)
(* What a cancelled pack leaves behind are calls that would insert a batch *)
(* into a store.  The argument follows them: a release without a fence     *)
(* only happens when there are none, a release with a fence leaves a fence *)
(* wherever it has passed, and so a store the release has passed, or a     *)
(* batch that is not listed any more, is clean for good.                   *)
(***************************************************************************)
EXTENDS PackedBatches, FiniteSetTheorems, SequenceTheorems, TLAPS

Inserting == {"pack", "receive"}

Inserts(h, b) == \E c \in calls : c.op \in Inserting /\ c.host = h /\ c.batch = b

(* Nothing of b is at h, and nothing will be.                              *)
Clean(h, b) ==
    /\ b \notin entries[h] /\ b \notin published[h]
    /\ Inserts(h, b) => b \in fenced[h]

Whole(b) == \A h \in HostSet : b \in entries[h]

(* A batch that is on its way: no release of it has begun, no copy is being *)
(* dropped.                                                                *)
Untouched(b) ==
    /\ b \in live /\ release[b].state = "none"
    /\ \A c \in calls : c.op \in {"drop", "fence", "reclaim"} => c.batch # b

Settled(b) == Untouched(b) /\ Whole(b) /\ \A h \in HostSet : ~Inserts(h, b)

-----------------------------------------------------------------------------
(* The parts of the invariant.                                             *)

UnlistedAreClean == \A b \in Batches \ live, h \in HostSet : Clean(h, b)

ReleasedAreClean ==
    \A b \in Batches : release[b].state = "running" =>
       \A h \in HostSet \ release[b].pending : Clean(h, b)

(* A release without a fence has nothing to fear.                          *)
ReclaimsAreLate ==
    \A c \in calls : c.op = "reclaim" => \A h \in HostSet : ~Inserts(h, c.batch)

LaterAreFresh ==
    \A b \in Batches : b > pack.batch =>
       /\ b \notin live /\ release[b].state = "none"
       /\ \A c \in calls : c.batch # b

Early == {"packing", "publishing", "fanning", "dropping", "preparing"}
Active == Early \cup {"undoing", "unpublishing"}

(* What the packing stage awaits, and what it has got.                     *)
PackFollows ==
    LET b == pack.batch
        s == Source(b)
    IN  /\ pack.pc \in Active =>
              /\ b \in Batches /\ b \in live /\ release[b].state = "none"
              /\ \A c \in calls : c.op \in {"fence", "reclaim"} => c.batch # b
        /\ pack.pc \in Early => \A c \in calls : c.op = "drop" => c.batch # b
        /\ pack.pc = "packing" =>
              /\ \A h \in HostSet : b \notin published[h]
              /\ \A h \in HostSet : Inserts(h, b) => h = s /\ pack.replies[s] = "none"
              /\ \A h \in HostSet : b \in entries[h] <=> h = s /\ pack.replies[s] = "ok"
              /\ \A c \in calls : c.batch = b => c.op = "pack"
        /\ pack.pc \in {"publishing", "fanning", "dropping", "preparing"} =>
              b \in entries[s]
        /\ pack.pc = "publishing" =>
              \A h \in HostSet : ~Inserts(h, b) /\ (b \in entries[h] => h = s)
        /\ pack.pc = "fanning" =>
              /\ \A h \in HostSet : Inserts(h, b) => h # s /\ pack.replies[h] = "none"
              /\ \A h \in HostSet \ {s} : b \in entries[h] <=> pack.replies[h] = "ok"
              /\ \A c \in calls : c.batch = b => c.op # "pack"
        /\ pack.pc \in {"dropping", "preparing"} =>
              \A h \in HostSet : ~Inserts(h, b) /\ b \in entries[h]

(* The hand over of a batch to the training stage.                         *)
HandsOver ==
    /\ queue # None =>
          queue = pack.batch /\ pack.pc \in {"handoff", "ended"} /\ Settled(queue)
    /\ train.pc \in {"training", "finishing"} =>
          /\ train.batch \in Batches /\ Settled(train.batch)
          /\ train.batch <= pack.batch
          /\ train.batch = pack.batch => queue = None /\ pack.pc \notin Active
    /\ runtime # "open" =>
          queue = None /\ pack.pc = "ended" /\ train.pc \in {"ended", "failed"}

StoresFollow == UnlistedAreClean /\ ReleasedAreClean /\ ReclaimsAreLate /\ LaterAreFresh

IInv == TypeOK /\ StoresFollow /\ PackFollows /\ HandsOver

-----------------------------------------------------------------------------
(* The room a pack finds.                                                  *)

PackHolds ==
    IF pack.pc \in Active \cup {"releasing"} THEN {pack.batch} ELSE Offered

(* The batches that others than the packing stage still hold.              *)
Held == live \ PackHolds

Packing == pack.pc # "ended" /\ ~(train.pc = "ended" /\ pack.pc \in {"idle", "handoff"})

TrainHolds ==
    IF train.pc \in {"training", "finishing", "discarding"} THEN {train.batch} ELSE {}

HeldAreFew ==
    Packing =>
       /\ train.pc \in {"idle", "training", "finishing", "discarding", "ended"} =>
             Held \subseteq background \cup TrainHolds
       /\ Cardinality(Held) <= Slots + 1

DoneAreUnlisted == \A b \in Batches : release[b].state = "done" => b \notin live

RoomInv == HeldAreFew /\ DoneAreUnlisted

-----------------------------------------------------------------------------
(* Types of the model's operators.                                         *)

Calls == [op : {"pack", "publish", "receive", "unpublish", "drop", "fence", "reclaim"},
          host : HostSet, batch : Batches]
PackPcs == {"idle", "packing", "publishing", "fanning", "undoing", "dropping",
            "unpublishing", "preparing", "handoff", "releasing", "ended"}
Replies == {"none", "ok", "empty", "failed", "refused", "dropped"}
TrainPcs == {"idle", "training", "discarding", "finishing", "draining", "ended", "failed"}
Releases == [state : {"none", "running", "failing", "done", "failed"},
             pending : SUBSET HostSet]

(* TypeOK, one variable at a time.                                         *)
LEMMA Types ==
    TypeOK <=>
       /\ topology \in Topologies
       /\ entries \in [HostSet -> SUBSET Batches]
       /\ fenced \in [HostSet -> SUBSET Batches]
       /\ published \in [HostSet -> SUBSET Batches]
       /\ calls \subseteq Calls
       /\ live \subseteq Batches /\ queue \in Batches \cup {None}
       /\ pack \in [pc : PackPcs, batch : 0..topology.batches,
                    replies : [HostSet -> Replies]]
       /\ train \in [pc : TrainPcs, batch : 0..topology.batches]
       /\ release \in [Batches -> Releases]
       /\ background \subseteq Batches /\ Cardinality(background) <= Slots
       /\ stopping \in BOOLEAN /\ runtime \in {"open", "reclaiming", "closed"}
  BY DEF TypeOK, Calls, PackPcs, Replies, TrainPcs, Releases

LEMMA SourceType ==
    ASSUME TypeOK, NEW b \in Batches
    PROVE  Source(b) \in HostSet /\ b \in Nat \ {0} /\ b <= topology.batches
<1>1. topology.hosts \in Seq(STRING) /\ topology.hosts # <<>> /\ topology.batches \in Nat
  BY PackedAssumption DEF TypeOK
<1>2. Len(topology.hosts) \in Nat \ {0} /\ DOMAIN topology.hosts = 1..Len(topology.hosts)
  BY <1>1, LenProperties, EmptySeq
<1>3. b \in Int /\ b >= 1 /\ b <= topology.batches
  BY <1>1 DEF Batches
<1>4. \A n \in Nat \ {0} : (b - 1) % n \in 0..n - 1
  BY <1>3
<1>5. 1 + ((b - 1) % Len(topology.hosts)) \in 1..Len(topology.hosts)
  BY <1>2, <1>4
<1> QED
  BY <1>2, <1>3, <1>5 DEF Source, HostSet

LEMMA AdmissionType ==
    ASSUME NEW h, NEW b
    PROVE  /\ Admission(h, b) \in {"failed", "refused", "ok"}
           /\ Admission(h, b) = "ok" => b \notin fenced[h]
           /\ Admission(h, b) = "refused" => Cardinality(entries[h]) >= Capacity
  BY DEF Admission

(* What starting the releases of bs does to the calls.                     *)
Started(bs, fence) ==
    /\ \A c \in calls' : \/ c \in calls
                         \/ /\ c.op = (IF fence THEN "fence" ELSE "reclaim")
                            /\ c.batch \in bs /\ c \in Calls
    /\ calls \subseteq calls'
    /\ release' \in [Batches -> Releases]
    /\ \A b \in Batches \ bs : release'[b] = release[b]
    /\ \A b \in bs : release'[b].state = "running" /\ release'[b].pending = HostSet

LEMMA StartedCalls ==
    ASSUME TypeOK, NEW bs \in SUBSET Batches, NEW fence \in BOOLEAN,
           StartRelease(bs, fence), UNCHANGED topology
    PROVE  Started(bs, fence)
<1>1. release' = [b \in Batches |-> IF b \in bs THEN [state |-> "running", pending |-> HostSet]
                                   ELSE release[b]]
  BY DEF StartRelease
<1>2. release' \in [Batches -> Releases]
  BY <1>1, Types DEF Releases
<1>3. calls' = calls \cup UNION {CallAll(IF fence THEN "fence" ELSE "reclaim", HostSet, b) : b \in bs}
  BY DEF StartRelease
<1>4. ASSUME NEW b \in bs, NEW c \in CallAll(IF fence THEN "fence" ELSE "reclaim", HostSet, b)
      PROVE  /\ c.op = (IF fence THEN "fence" ELSE "reclaim")
             /\ c.batch \in bs /\ c \in Calls
  BY <1>4 DEF CallAll, Calls
<1>5. \A c \in calls' : c \in calls \/ \E b \in bs :
            c \in CallAll(IF fence THEN "fence" ELSE "reclaim", HostSet, b)
  BY <1>3
<1> QED
  BY <1>1, <1>2, <1>3, <1>4, <1>5 DEF Started

LEMMA SentCalls ==
    ASSUME TypeOK, NEW o \in {"pack", "publish", "receive", "unpublish", "drop"},
           NEW hs \in SUBSET HostSet, NEW b \in Batches
    PROVE  \A c \in CallAll(o, hs, b) :
              c.op = o /\ c.host \in hs /\ c.batch = b /\ c \in Calls
  BY DEF CallAll, Calls


-----------------------------------------------------------------------------
(* What the kinds of steps do to the stores' part of the invariant, and    *)
(* to a batch that is settled.                                             *)

SettledStay(bs) == \A b \in Batches \ bs : Settled(b) => Settled(b)'

(* Nothing but the stages' own variables changes.                          *)
LEMMA QuietStep ==
    ASSUME IInv, UNCHANGED <<hostVars, calls, live, release>>, pack'.batch = pack.batch
    PROVE  StoresFollow' /\ SettledStay({})
<1> USE DEF hostVars
<1>1. HostSet' = HostSet /\ Batches' = Batches
  BY DEF HostSet, Batches
<1>2. \A h, b : Clean(h, b)' <=> Clean(h, b)
  BY DEF Clean, Inserts
<1>3. \A h, b : Inserts(h, b)' <=> Inserts(h, b)
  BY DEF Inserts
<1>4. \A b \in Batches : Settled(b) => Settled(b)'
  BY <1>1, <1>3 DEF Settled, Untouched, Whole
<1>5. UnlistedAreClean' /\ ReleasedAreClean' /\ ReclaimsAreLate' /\ LaterAreFresh'
  BY <1>1, <1>2, <1>3 DEF IInv, StoresFollow, UnlistedAreClean, ReleasedAreClean,
                          ReclaimsAreLate, LaterAreFresh
<1> QED
  BY <1>4, <1>5 DEF StoresFollow, SettledStay

(* Releases start, without a fence only where nothing would insert.        *)
LEMMA ReleaseStep ==
    ASSUME IInv, NEW bs \in SUBSET live, NEW fence \in BOOLEAN, StartRelease(bs, fence),
           fence \/ \A b \in bs, h \in HostSet : ~Inserts(h, b),
           UNCHANGED <<hostVars, live>>, pack'.batch = pack.batch
    PROVE  /\ StoresFollow' /\ SettledStay(bs)
           /\ calls' \subseteq Calls /\ release' \in [Batches -> Releases]
<1> USE DEF hostVars
<1>1. HostSet' = HostSet /\ Batches' = Batches
  BY DEF HostSet, Batches
<1>2. TypeOK /\ bs \in SUBSET Batches /\ calls \subseteq Calls
  BY Types DEF IInv
<1>3. /\ \A c \in calls' : \/ c \in calls
                           \/ /\ c.op = (IF fence THEN "fence" ELSE "reclaim")
                              /\ c.batch \in bs /\ c \in Calls
      /\ calls \subseteq calls'
      /\ release' \in [Batches -> Releases]
      /\ \A b \in Batches \ bs : release'[b] = release[b]
      /\ \A b \in bs : release'[b].state = "running" /\ release'[b].pending = HostSet
  <2>1. bs \in SUBSET Batches /\ TypeOK
    BY <1>2
  <2>2. UNCHANGED topology
    OBVIOUS
  <2> QED
    <3>1. Started(bs, fence)
      BY <2>1, <2>2, StartedCalls
    <3> QED
      BY <3>1 DEF Started
<1>4. \A h, b : Inserts(h, b)' <=> Inserts(h, b)
  BY <1>3 DEF Inserts, Inserting
<1>5. \A h, b : Clean(h, b)' <=> Clean(h, b)
  BY <1>4 DEF Clean
<1>6. UnlistedAreClean' /\ ReleasedAreClean'
  BY <1>1, <1>3, <1>5 DEF IInv, StoresFollow, UnlistedAreClean, ReleasedAreClean
<1>7. ReclaimsAreLate'
  BY <1>1, <1>3, <1>4 DEF IInv, StoresFollow, ReclaimsAreLate
<1>8. LaterAreFresh'
  BY <1>1, <1>2, <1>3 DEF IInv, StoresFollow, LaterAreFresh
<1>9. \A b \in Batches \ bs : Settled(b) => Settled(b)'
  BY <1>1, <1>3, <1>4 DEF Settled, Untouched, Whole
<1> QED
  BY <1>2, <1>3, <1>6, <1>7, <1>8, <1>9 DEF StoresFollow, SettledStay

(* The packing stage sends calls for the batch it works on.                *)
LEMMA SendStep ==
    ASSUME IInv, pack.pc \in Active,
           NEW o \in {"publish", "receive", "unpublish", "drop"}, NEW hs \in SUBSET HostSet,
           calls' = calls \cup CallAll(o, hs, pack.batch),
           UNCHANGED <<hostVars, live, release>>, pack'.batch = pack.batch
    PROVE  StoresFollow' /\ SettledStay({pack.batch}) /\ calls' \subseteq Calls
<1> USE DEF hostVars
<1>1. HostSet' = HostSet /\ Batches' = Batches
  BY DEF HostSet, Batches
<1>2. /\ TypeOK /\ calls \subseteq Calls /\ pack.batch \in Batches
      /\ pack.batch \in live /\ release[pack.batch].state = "none"
      /\ \A c \in calls : c.op \in {"fence", "reclaim"} => c.batch # pack.batch
  BY Types DEF IInv, PackFollows
<1>3. \A c \in CallAll(o, hs, pack.batch) :
         c.op = o /\ c.host \in hs /\ c.batch = pack.batch /\ c \in Calls
  BY <1>2, SentCalls
<1>4. \A h, b : b # pack.batch => (Inserts(h, b)' <=> Inserts(h, b))
  BY <1>3 DEF Inserts
<1>5. \A h, b : b # pack.batch => (Clean(h, b)' <=> Clean(h, b))
  BY <1>4 DEF Clean
<1>6. UnlistedAreClean' /\ ReleasedAreClean'
  BY <1>1, <1>2, <1>5 DEF IInv, StoresFollow, UnlistedAreClean, ReleasedAreClean
<1>7. ReclaimsAreLate'
  BY <1>1, <1>2, <1>3, <1>4 DEF IInv, StoresFollow, ReclaimsAreLate
<1>8. LaterAreFresh'
  <2>1. \A b \in Batches : b > pack.batch => b # pack.batch
    BY <1>2, SourceType
  <2> QED
    BY <1>1, <1>3, <2>1 DEF IInv, StoresFollow, LaterAreFresh
<1>9. \A b \in Batches \ {pack.batch} : Settled(b) => Settled(b)'
  BY <1>1, <1>3, <1>4 DEF Settled, Untouched, Whole
<1> QED
  BY <1>2, <1>3, <1>6, <1>7, <1>8, <1>9 DEF StoresFollow, SettledStay

(* A host handles a call that inserts, and inserts the batch or not.       *)
LEMMA InsertStep ==
    ASSUME IInv, NEW h \in HostSet, NEW b \in Batches, NEW o \in Inserting,
           [op |-> o, host |-> h, batch |-> b] \in calls,
           calls' = calls \ {[op |-> o, host |-> h, batch |-> b]},
           \/ UNCHANGED entries
           \/ Insert(h, b) /\ b \notin fenced[h],
           UNCHANGED <<topology, fenced, published, live, release>>, pack'.batch = pack.batch
    PROVE  /\ StoresFollow' /\ SettledStay({}) /\ entries' \in [HostSet -> SUBSET Batches]
           /\ \A b2 \in Batches, h2 \in HostSet :
                 b2 \in entries'[h2] => b2 \in entries[h2] \/ (b2 = b /\ h2 = h)
           /\ \A b2 \in Batches, h2 \in HostSet : b2 \in entries[h2] => b2 \in entries'[h2]
<1> DEFINE c == [op |-> o, host |-> h, batch |-> b]
<1>1. HostSet' = HostSet /\ Batches' = Batches
  BY DEF HostSet, Batches
<1>2. TypeOK /\ calls \subseteq Calls /\ entries \in [HostSet -> SUBSET Batches]
  BY Types DEF IInv
<1>3. /\ entries' \in [HostSet -> SUBSET Batches]
      /\ \A b2 \in Batches, h2 \in HostSet :
            b2 \in entries'[h2] => b2 \in entries[h2] \/ (b2 = b /\ h2 = h /\ b \notin fenced[h])
      /\ \A b2 \in Batches, h2 \in HostSet : b2 \in entries[h2] => b2 \in entries'[h2]
  BY <1>2 DEF Insert
<1>4. c.op \in Inserting /\ c.host = h /\ c.batch = b /\ Inserts(h, b)
  BY DEF Inserts
<1>5. \A h2, b2 : Inserts(h2, b2)' => Inserts(h2, b2)
  BY DEF Inserts
<1>6. \A b2 \in Batches, h2 \in HostSet : Clean(h2, b2) => Clean(h2, b2)'
  BY <1>3, <1>4, <1>5 DEF Clean
<1>7. UnlistedAreClean' /\ ReleasedAreClean'
  BY <1>1, <1>6 DEF IInv, StoresFollow, UnlistedAreClean, ReleasedAreClean
<1>8. ReclaimsAreLate' /\ LaterAreFresh'
  BY <1>1, <1>5 DEF IInv, StoresFollow, ReclaimsAreLate, LaterAreFresh
<1>9. \A b2 \in Batches : Settled(b2) => Settled(b2)'
  BY <1>1, <1>3, <1>5 DEF Settled, Untouched, Whole
<1> QED
  BY <1>3, <1>7, <1>8, <1>9 DEF StoresFollow, SettledStay

(* A host handles a call that publishes or stops to publish a batch.       *)
LEMMA PublisherStep ==
    ASSUME IInv, NEW h \in HostSet, NEW b \in Batches, NEW c \in calls,
           calls' = calls \ {c},
           \/ UNCHANGED published
           \/ b \in entries[h] /\ published' = [published EXCEPT ![h] = @ \cup {b}]
           \/ published' = [published EXCEPT ![h] = @ \ {b}],
           UNCHANGED <<topology, entries, fenced, live, release>>, pack'.batch = pack.batch
    PROVE  /\ StoresFollow' /\ SettledStay({}) /\ published' \in [HostSet -> SUBSET Batches]
           /\ \A b2 \in Batches, h2 \in HostSet :
                 b2 \in published'[h2] => b2 \in published[h2] \/ b2 \in entries[h2]
<1>1. HostSet' = HostSet /\ Batches' = Batches
  BY DEF HostSet, Batches
<1>2. TypeOK /\ calls \subseteq Calls /\ published \in [HostSet -> SUBSET Batches]
  BY Types DEF IInv
<1>3. /\ published' \in [HostSet -> SUBSET Batches]
      /\ \A b2 \in Batches, h2 \in HostSet :
            b2 \in published'[h2] => b2 \in published[h2] \/ b2 \in entries[h2]
  BY <1>2
<1>4. \A h2, b2 : Inserts(h2, b2)' => Inserts(h2, b2)
  BY DEF Inserts
<1>5. \A b2 \in Batches, h2 \in HostSet : Clean(h2, b2) => Clean(h2, b2)'
  BY <1>3, <1>4 DEF Clean
<1>6. UnlistedAreClean' /\ ReleasedAreClean'
  BY <1>1, <1>5 DEF IInv, StoresFollow, UnlistedAreClean, ReleasedAreClean
<1>7. ReclaimsAreLate' /\ LaterAreFresh'
  BY <1>1, <1>4 DEF IInv, StoresFollow, ReclaimsAreLate, LaterAreFresh
<1>8. \A b2 \in Batches : Settled(b2) => Settled(b2)'
  BY <1>1, <1>4 DEF Settled, Untouched, Whole
<1> QED
  BY <1>3, <1>6, <1>7, <1>8 DEF StoresFollow, SettledStay


(* A copy is dropped, with a fence where it was still there.               *)
LEMMA DropStep ==
    ASSUME IInv, NEW h \in HostSet, NEW b \in Batches,
           [op |-> "drop", host |-> h, batch |-> b] \in calls,
           calls' = calls \ {[op |-> "drop", host |-> h, batch |-> b]},
           entries' = [entries EXCEPT ![h] = @ \ {b}],
           fenced' = IF b \in entries[h] THEN [fenced EXCEPT ![h] = @ \cup {b}] ELSE fenced,
           UNCHANGED <<topology, published, live, release>>, pack'.batch = pack.batch
    PROVE  /\ StoresFollow' /\ SettledStay({})
           /\ entries' \in [HostSet -> SUBSET Batches]
           /\ fenced' \in [HostSet -> SUBSET Batches]
           /\ \A b2 \in Batches, h2 \in HostSet :
                 b2 \in entries'[h2] => b2 \in entries[h2]
           /\ \A b2 \in Batches \ {b}, h2 \in HostSet :
                 b2 \in entries[h2] => b2 \in entries'[h2]
<1>1. HostSet' = HostSet /\ Batches' = Batches
  BY DEF HostSet, Batches
<1>2. /\ TypeOK /\ entries \in [HostSet -> SUBSET Batches]
      /\ fenced \in [HostSet -> SUBSET Batches]
  BY Types DEF IInv
<1>3. /\ entries' \in [HostSet -> SUBSET Batches] /\ fenced' \in [HostSet -> SUBSET Batches]
      /\ \A b2 \in Batches, h2 \in HostSet : b2 \in entries'[h2] => b2 \in entries[h2]
      /\ \A b2 \in Batches \ {b}, h2 \in HostSet : b2 \in entries[h2] => b2 \in entries'[h2]
      /\ \A b2 \in Batches, h2 \in HostSet : b2 \in fenced[h2] => b2 \in fenced'[h2]
  BY <1>2
<1>4. \A h2, b2 : Inserts(h2, b2)' => Inserts(h2, b2)
  BY DEF Inserts
<1>5. \A b2 \in Batches, h2 \in HostSet : Clean(h2, b2) => Clean(h2, b2)'
  BY <1>3, <1>4 DEF Clean
<1>6. UnlistedAreClean' /\ ReleasedAreClean'
  BY <1>1, <1>5 DEF IInv, StoresFollow, UnlistedAreClean, ReleasedAreClean
<1>7. ReclaimsAreLate' /\ LaterAreFresh'
  BY <1>1, <1>4 DEF IInv, StoresFollow, ReclaimsAreLate, LaterAreFresh
<1>8. ASSUME NEW b2 \in Batches, Settled(b2) PROVE Settled(b2)'
  <2>1. b2 # b
    BY <1>8 DEF Settled, Untouched
  <2> QED
    BY <1>1, <1>3, <1>4, <1>8, <2>1 DEF Settled, Untouched, Whole
<1> QED
  BY <1>3, <1>6, <1>7, <1>8 DEF StoresFollow, SettledStay

(* A release passes a host, or its call is lost.                           *)
LEMMA ReclaimStep ==
    ASSUME IInv, NEW h \in HostSet, NEW b \in Batches, NEW fence \in BOOLEAN,
           HostReclaim(h, b, fence)
    PROVE  /\ StoresFollow' /\ SettledStay({})
           /\ entries' \in [HostSet -> SUBSET Batches]
           /\ fenced' \in [HostSet -> SUBSET Batches]
           /\ published' \in [HostSet -> SUBSET Batches]
           /\ release' \in [Batches -> Releases]
           /\ UNCHANGED <<topology, live, queue, train, background, stopping, runtime, pack>>
           /\ calls' \subseteq calls
           /\ \E c \in calls : c.op \in {"fence", "reclaim"} /\ c.batch = b
           /\ \A b2 \in Batches \ {b} :
                 /\ release'[b2] = release[b2]
                 /\ \A h2 \in HostSet : /\ b2 \in entries'[h2] <=> b2 \in entries[h2]
                                        /\ b2 \in published'[h2] <=> b2 \in published[h2]
<1> DEFINE c == [op |-> IF fence THEN "fence" ELSE "reclaim", host |-> h, batch |-> b]
           freed == [release EXCEPT ![b].pending = @ \ {h}]
<1> USE DEF hostVars, ownVars
<1>1. /\ c \in calls /\ calls' = calls \ {c}
      /\ UNCHANGED <<topology, live, queue, train, background, stopping, runtime, pack>>
      /\ \/ /\ published' = [published EXCEPT ![h] = @ \ {b}]
            /\ entries' = [entries EXCEPT ![h] = @ \ {b}]
            /\ fenced' = IF fence THEN [fenced EXCEPT ![h] = @ \cup {b}] ELSE fenced
            /\ release' = freed \/ release' = [freed EXCEPT ![b].state = "failing"]
         \/ /\ release' = [freed EXCEPT ![b].state = "failing"]
            /\ UNCHANGED <<entries, fenced, published>>
  BY DEF HostReclaim
<1>2. HostSet' = HostSet /\ Batches' = Batches
  BY <1>1 DEF HostSet, Batches
<1>3. /\ TypeOK /\ entries \in [HostSet -> SUBSET Batches]
      /\ fenced \in [HostSet -> SUBSET Batches] /\ published \in [HostSet -> SUBSET Batches]
      /\ release \in [Batches -> Releases]
  BY Types DEF IInv
<1>4. c.op = (IF fence THEN "fence" ELSE "reclaim") /\ c.host = h /\ c.batch = b
  OBVIOUS
<1>5. /\ freed \in [Batches -> Releases]
      /\ [freed EXCEPT ![b].state = "failing"] \in [Batches -> Releases]
      /\ [freed EXCEPT ![b].state = "failing"][b].state = "failing"
      /\ freed[b].pending = release[b].pending \ {h} /\ freed[b].state = release[b].state
      /\ \A b2 \in Batches \ {b} : /\ freed[b2] = release[b2]
                                  /\ [freed EXCEPT ![b].state = "failing"][b2] = release[b2]
  BY <1>3 DEF Releases
<1> HIDE DEF freed
<1>6. /\ entries' \in [HostSet -> SUBSET Batches] /\ fenced' \in [HostSet -> SUBSET Batches]
      /\ published' \in [HostSet -> SUBSET Batches] /\ release' \in [Batches -> Releases]
      /\ \A b2 \in Batches, h2 \in HostSet :
            /\ b2 \in entries'[h2] => b2 \in entries[h2]
            /\ b2 \in published'[h2] => b2 \in published[h2]
            /\ b2 \in fenced[h2] => b2 \in fenced'[h2]
      /\ \A b2 \in Batches \ {b} :
            /\ release'[b2] = release[b2]
            /\ \A h2 \in HostSet : /\ b2 \in entries'[h2] <=> b2 \in entries[h2]
                                   /\ b2 \in published'[h2] <=> b2 \in published[h2]
  BY <1>1, <1>3, <1>5
<1>7. \A h2, b2 : Inserts(h2, b2)' => Inserts(h2, b2)
  BY <1>1 DEF Inserts
<1>8. \A b2 \in Batches, h2 \in HostSet : Clean(h2, b2) => Clean(h2, b2)'
  BY <1>6, <1>7 DEF Clean
<1>9. release'[b].state = "running" =>
         release'[b].pending = release[b].pending \ {h} /\ release[b].state = "running"
         /\ Clean(h, b)'
  <2> SUFFICES ASSUME release'[b].state = "running"
               PROVE  /\ release'[b].pending = release[b].pending \ {h}
                      /\ release[b].state = "running" /\ Clean(h, b)'
    OBVIOUS
  <2>1. /\ published' = [published EXCEPT ![h] = @ \ {b}]
        /\ entries' = [entries EXCEPT ![h] = @ \ {b}]
        /\ fenced' = IF fence THEN [fenced EXCEPT ![h] = @ \cup {b}] ELSE fenced
        /\ release' = freed
    BY <1>1, <1>5
  <2>2. ~fence => ~Inserts(h, b)
    BY <1>1, <1>4 DEF IInv, StoresFollow, ReclaimsAreLate
  <2>3. b \notin entries'[h] /\ b \notin published'[h] /\ (fence => b \in fenced'[h])
    BY <1>3, <2>1
  <2>4. Clean(h, b)'
    BY <1>7, <2>2, <2>3 DEF Clean
  <2> QED
    BY <1>5, <2>1, <2>4
<1>10. UnlistedAreClean'
  BY <1>1, <1>2, <1>8 DEF IInv, StoresFollow, UnlistedAreClean
<1>11. ReleasedAreClean'
  <2> SUFFICES ASSUME NEW b2 \in Batches, release'[b2].state = "running",
                      NEW h2 \in HostSet \ release'[b2].pending
               PROVE  Clean(h2, b2)'
    BY <1>2 DEF ReleasedAreClean
  <2>1. CASE b2 = b /\ h2 = h
    BY <1>9, <2>1
  <2>2. CASE ~(b2 = b /\ h2 = h)
    <3>1. release[b2].state = "running" /\ h2 \notin release[b2].pending
      BY <1>6, <1>9, <2>2
    <3> QED
      BY <1>8, <3>1 DEF IInv, StoresFollow, ReleasedAreClean
  <2> QED
    BY <2>1, <2>2
<1>12. ReclaimsAreLate'
  BY <1>1, <1>2, <1>7 DEF IInv, StoresFollow, ReclaimsAreLate
<1>13. LaterAreFresh'
  <2>1. ~(b > pack.batch)
    BY <1>1, <1>4 DEF IInv, StoresFollow, LaterAreFresh
  <2> QED
    BY <1>1, <1>2, <1>6, <2>1 DEF IInv, StoresFollow, LaterAreFresh
<1>14. ASSUME NEW b2 \in Batches, Settled(b2) PROVE Settled(b2)'
  <2>1. b2 # b
    BY <1>1, <1>4, <1>14 DEF Settled, Untouched
  <2> QED
    BY <1>1, <1>2, <1>6, <1>7, <1>14, <2>1 DEF Settled, Untouched, Whole
<1> QED
  BY <1>1, <1>4, <1>6, <1>10, <1>11, <1>12, <1>13, <1>14 DEF StoresFollow, SettledStay


-----------------------------------------------------------------------------
(* What is left of the invariant after a step of another kind.             *)

LEMMA TypeKept ==
    ASSUME UNCHANGED topology, topology \in Topologies,
           entries' \in [HostSet -> SUBSET Batches],
           fenced' \in [HostSet -> SUBSET Batches],
           published' \in [HostSet -> SUBSET Batches],
           calls' \subseteq Calls,
           live' \subseteq Batches, queue' \in Batches \cup {None},
           pack' \in [pc : PackPcs, batch : 0..topology.batches,
                      replies : [HostSet -> Replies]],
           train' \in [pc : TrainPcs, batch : 0..topology.batches],
           release' \in [Batches -> Releases],
           background' \subseteq Batches, Cardinality(background') <= Slots,
           stopping' \in BOOLEAN, runtime' \in {"open", "reclaiming", "closed"}
    PROVE  TypeOK'
<1>1. HostSet' = HostSet /\ Batches' = Batches /\ Slots' = Slots
  BY DEF HostSet, Batches, Slots
<1> QED
  BY <1>1 DEF TypeOK, Calls, PackPcs, Replies, TrainPcs, Releases

LEMMA HandsOverStays ==
    ASSUME IInv, UNCHANGED <<topology, queue, train, runtime>>, pack'.batch = pack.batch,
           SettledStay({}) \/ (pack.pc \in Active /\ SettledStay({pack.batch})),
           \/ pack'.pc \in {pack.pc, "ended"} \/ pack.pc \in Active
           \/ pack.pc # "ended" /\ pack'.pc \notin Active /\ queue = None
    PROVE  HandsOver'
<1>1. Batches' = Batches
  BY DEF Batches
<1>2. ASSUME queue # None
      PROVE queue = pack.batch /\ pack'.pc \in {"handoff", "ended"} /\ Settled(queue)'
  <2>1. queue = pack.batch /\ pack.pc \in {"handoff", "ended"} /\ Settled(queue)
    BY <1>2 DEF IInv, HandsOver
  <2>2. queue \in Batches /\ pack.pc \notin Active
    BY <1>2, <2>1, Types DEF IInv, Active, Early
  <2> QED
    BY <2>1, <2>2, <1>2 DEF SettledStay
<1>3. ASSUME train.pc \in {"training", "finishing"}
      PROVE /\ train.batch \in Batches /\ Settled(train.batch)'
            /\ train.batch <= pack.batch
            /\ train.batch = pack.batch => queue = None /\ pack'.pc \notin Active
  <2>1. /\ train.batch \in Batches /\ Settled(train.batch)
        /\ train.batch <= pack.batch
        /\ train.batch = pack.batch => queue = None /\ pack.pc \notin Active
    BY <1>3 DEF IInv, HandsOver
  <2> QED
    BY <2>1 DEF SettledStay, Active, Early
<1>4. runtime # "open" =>
         queue = None /\ pack'.pc = "ended" /\ train.pc \in {"ended", "failed"}
  <2>1. runtime # "open" =>
           queue = None /\ pack.pc = "ended" /\ train.pc \in {"ended", "failed"}
    BY DEF IInv, HandsOver
  <2> QED
    BY <2>1 DEF Active, Early
<1> HIDE DEF Settled
<1> QED
  BY <1>1, <1>2, <1>3, <1>4 DEF HandsOver

(* A step that leaves the batch in the packing stage alone.                *)
LEMMA PackFollowsStays ==
    ASSUME IInv, UNCHANGED <<topology, pack>>,
           pack.pc \in Active =>
              /\ pack.batch \in live' /\ release'[pack.batch] = release[pack.batch]
              /\ \A h \in HostSet :
                    /\ pack.batch \in entries'[h] <=> pack.batch \in entries[h]
                    /\ pack.batch \in published'[h] => pack.batch \in published[h]
              /\ \A c \in calls' : c.batch = pack.batch => c \in calls
    PROVE  PackFollows'
<1>1. HostSet' = HostSet /\ Batches' = Batches /\ Source(pack.batch)' = Source(pack.batch)
  BY DEF HostSet, Batches, Source
<1> SUFFICES ASSUME pack.pc \in Active PROVE PackFollows'
  BY DEF PackFollows, Active, Early
<1>2. \A h \in HostSet : Inserts(h, pack.batch)' => Inserts(h, pack.batch)
  BY DEF Inserts
<1>3. pack.batch \in Batches /\ Source(pack.batch) \in HostSet
  BY SourceType DEF IInv, PackFollows
<1> QED
  BY <1>1, <1>2, <1>3 DEF IInv, PackFollows

(* The reply of a handler.                                                 *)
LEMMA AnswersStep ==
    ASSUME IInv, NEW o \in {"pack", "publish", "receive", "unpublish", "drop"},
           NEW h \in HostSet, NEW b \in Batches, NEW pc, NEW reply \in Replies,
           Answers(o, h, b, pc, reply), UNCHANGED topology
    PROVE  /\ [op |-> o, host |-> h, batch |-> b] \in calls
           /\ calls' = calls \ {[op |-> o, host |-> h, batch |-> b]}
           /\ calls' \subseteq Calls
           /\ UNCHANGED <<live, queue, train, background, stopping, runtime, release>>
           /\ pack'.pc = pack.pc /\ pack'.batch = pack.batch
           /\ pack.pc \notin pc \/ pack.batch # b => pack' = pack
           /\ pack' \in [pc : PackPcs, batch : 0..topology.batches,
                         replies : [HostSet -> Replies]]
           /\ \A h2 \in HostSet : pack'.replies[h2] =
                 IF pack.pc \in pc /\ pack.batch = b /\ h2 = h THEN reply ELSE pack.replies[h2]
<1>1. /\ [op |-> o, host |-> h, batch |-> b] \in calls
      /\ calls' = calls \ {[op |-> o, host |-> h, batch |-> b]}
      /\ UNCHANGED <<live, queue, train, background, stopping, runtime, release>>
      /\ pack' = IF pack.pc \in pc /\ pack.batch = b
                 THEN [pack EXCEPT !.replies[h] = reply] ELSE pack
  BY DEF Answers, ownVars
<1>2. /\ pack \in [pc : PackPcs, batch : 0..topology.batches, replies : [HostSet -> Replies]]
      /\ calls \subseteq Calls
  BY Types DEF IInv
<1> QED
  BY <1>1, <1>2

-----------------------------------------------------------------------------
(* The hosts keep the invariant.                                           *)

LEMMA HostPackKeeps ==
    ASSUME IInv, NEW h \in HostSet, NEW b \in Batches, HostPack(h, b)
    PROVE  IInv'
<1> DEFINE call == [op |-> "pack", host |-> h, batch |-> b]
<1>1. UNCHANGED <<topology, fenced, published>>
  BY DEF HostPack
<1>2. \E reply \in {"ok", "failed", "refused", "empty"} :
         /\ Answers("pack", h, b, {"packing"}, reply)
         /\ \/ reply # "ok" /\ UNCHANGED entries
            \/ reply = "ok" /\ Insert(h, b) /\ b \notin fenced[h]
  BY AdmissionType DEF HostPack
<1>3. PICK reply \in {"ok", "failed", "refused", "empty"} :
         /\ Answers("pack", h, b, {"packing"}, reply)
         /\ \/ reply # "ok" /\ UNCHANGED entries
            \/ reply = "ok" /\ Insert(h, b) /\ b \notin fenced[h]
  BY <1>2
<1>4. reply \in Replies
  BY DEF Replies
<1>5. /\ call \in calls /\ calls' = calls \ {call} /\ calls' \subseteq Calls
      /\ UNCHANGED <<live, queue, train, background, stopping, runtime, release>>
      /\ pack'.pc = pack.pc /\ pack'.batch = pack.batch
      /\ pack.pc # "packing" \/ pack.batch # b => pack' = pack
      /\ pack' \in [pc : PackPcs, batch : 0..topology.batches, replies : [HostSet -> Replies]]
      /\ \A h2 \in HostSet : pack'.replies[h2] =
            IF pack.pc = "packing" /\ pack.batch = b /\ h2 = h THEN reply ELSE pack.replies[h2]
  <2>1. pack.pc \notin {"packing"} <=> pack.pc # "packing"
    OBVIOUS
  <2> QED
    BY <1>1, <1>3, <1>4, <2>1, AnswersStep
<1>6. call.op \in Inserting /\ call.op = "pack" /\ call.host = h /\ call.batch = b
  BY DEF Inserting
<1>7. /\ StoresFollow' /\ SettledStay({}) /\ entries' \in [HostSet -> SUBSET Batches]
      /\ \A b2 \in Batches, h2 \in HostSet :
            b2 \in entries'[h2] => b2 \in entries[h2] \/ (b2 = b /\ h2 = h)
      /\ \A b2 \in Batches, h2 \in HostSet : b2 \in entries[h2] => b2 \in entries'[h2]
  <2>1. "pack" \in Inserting
    BY DEF Inserting
  <2> QED
    BY <1>1, <1>3, <1>5, <2>1, InsertStep
<1>8. HandsOver'
  BY <1>1, <1>5, <1>7, HandsOverStays
<1>9. TypeOK'
  BY <1>1, <1>5, <1>7, TypeKept, Types DEF IInv
<1>10. PackFollows'
  <2>1. CASE pack.batch # b \/ pack.pc \notin {"packing"}
    <3>1. pack' = pack
      BY <1>5, <2>1
    <3>2. ASSUME pack.pc \in Active, pack.batch = b
          PROVE  UNCHANGED entries \/ pack.pc \in {"undoing", "unpublishing"}
      <4>1. Inserts(h, b)
        BY <1>5, <1>6 DEF Inserts
      <4> QED
        BY <1>5, <1>6, <2>1, <3>2, <4>1 DEF IInv, PackFollows, Active, Early
    <3>3. CASE pack.pc \in Active /\ pack.batch = b /\ entries' # entries
      BY <1>5, <3>1, <3>2, <3>3, <1>1 DEF IInv, PackFollows, Active, Early, Batches
    <3>4. CASE ~(pack.pc \in Active /\ pack.batch = b /\ entries' # entries)
      <4>1. pack.pc \in Active => pack.batch \in Batches /\ pack.batch \in live
        BY DEF IInv, PackFollows
      <4> QED
        BY <1>1, <1>5, <1>7, <3>1, <3>4, <4>1, PackFollowsStays
    <3> QED
      BY <3>3, <3>4
  <2>2. CASE pack.batch = b /\ pack.pc = "packing"
    <3>1. HostSet' = HostSet /\ Batches' = Batches /\ Source(b)' = Source(b)
      BY <1>1 DEF HostSet, Batches, Source
    <3>2. h = Source(b) /\ Source(b) \in HostSet
      <4>1. Inserts(h, b)
        BY <1>5, <1>6 DEF Inserts
      <4> QED
        BY <2>2, <4>1, SourceType DEF IInv, PackFollows
    <3>3. \A h2 \in HostSet : ~Inserts(h2, b)'
      <4> SUFFICES ASSUME NEW h2 \in HostSet, Inserts(h2, b)' PROVE FALSE
        OBVIOUS
      <4>1. PICK c \in calls' : c.op \in Inserting /\ c.host = h2 /\ c.batch = b
        BY DEF Inserts
      <4>2. h2 = h /\ c.op = "pack" /\ c \in Calls
        <5>1. Inserts(h2, b)
          BY <1>5, <4>1 DEF Inserts
        <5> QED
          BY <1>5, <2>2, <3>2, <4>1, <5>1 DEF IInv, PackFollows
      <4>3. c = call
        BY <4>1, <4>2 DEF Calls
      <4> QED
        BY <1>5, <4>3
    <3>4. \A h2 \in HostSet : b \in entries'[h2] <=> h2 = h /\ reply = "ok"
      <4>1. \A h2 \in HostSet : b \notin entries[h2]
        <5>1. pack.replies[h] = "none"
          <6>1. Inserts(h, b)
            BY <1>5, <1>6 DEF Inserts
          <6> QED
            BY <2>2, <3>2, <6>1 DEF IInv, PackFollows
        <5> QED
          BY <2>2, <3>2, <5>1 DEF IInv, PackFollows
      <4>2. reply = "ok" => b \in entries'[h]
        BY <1>3, Types DEF Insert, IInv
      <4> QED
        BY <1>3, <1>7, <4>1, <4>2
    <3>5. pack'.replies[h] = reply
      BY <1>5, <2>2
    <3> QED
      BY <1>1, <1>5, <2>2, <3>1, <3>2, <3>3, <3>4, <3>5 DEF IInv, PackFollows, Active, Early
  <2> QED
    BY <2>1, <2>2
<1> QED
  BY <1>7, <1>8, <1>9, <1>10 DEF IInv


LEMMA HostPublishKeeps ==
    ASSUME IInv, NEW h \in HostSet, NEW b \in Batches, HostPublish(h, b)
    PROVE  IInv'
<1> DEFINE call == [op |-> "publish", host |-> h, batch |-> b]
           reply == IF b \in entries[h] THEN "ok" ELSE "failed"
<1>1. /\ UNCHANGED <<topology, entries, fenced>> /\ reply \in Replies
      /\ Answers("publish", h, b, {"publishing"}, reply)
      /\ \/ UNCHANGED published
         \/ b \in entries[h] /\ published' = [published EXCEPT ![h] = @ \cup {b}]
  BY DEF HostPublish, Replies
<1> HIDE DEF reply
<1>2. /\ call \in calls /\ calls' = calls \ {call} /\ calls' \subseteq Calls
      /\ UNCHANGED <<live, queue, train, background, stopping, runtime, release>>
      /\ pack'.pc = pack.pc /\ pack'.batch = pack.batch
      /\ pack.pc \notin {"publishing"} \/ pack.batch # b => pack' = pack
      /\ pack' \in [pc : PackPcs, batch : 0..topology.batches, replies : [HostSet -> Replies]]
  BY <1>1, AnswersStep
<1>3. /\ StoresFollow' /\ SettledStay({}) /\ published' \in [HostSet -> SUBSET Batches]
  BY <1>1, <1>2, PublisherStep
<1>4. HandsOver'
  BY <1>1, <1>2, <1>3, HandsOverStays
<1>5. TypeOK'
  BY <1>1, <1>2, <1>3, TypeKept, Types DEF IInv
<1>6. PackFollows'
  <2>1. HostSet' = HostSet /\ Batches' = Batches /\ Source(pack.batch)' = Source(pack.batch)
    BY <1>1, <1>2 DEF HostSet, Batches, Source
  <2>2. \A h2 \in HostSet : Inserts(h2, pack.batch)' => Inserts(h2, pack.batch)
    BY <1>2 DEF Inserts
  <2>3. pack.pc = "packing" => UNCHANGED pack /\ \A h2 \in HostSet : pack.batch \notin published'[h2]
    <3> SUFFICES ASSUME pack.pc = "packing" 
                 PROVE UNCHANGED pack /\ \A h2 \in HostSet : pack.batch \notin published'[h2]
      OBVIOUS
    <3>1. pack.batch # b
      BY <1>2 DEF IInv, PackFollows
    <3> QED
      BY <1>1, <1>2, <3>1, Types DEF IInv, PackFollows
  <2>4. CASE pack.pc = "publishing"
    BY <1>1, <1>2, <2>1, <2>2, <2>4 DEF IInv, PackFollows, Active, Early
  <2>5. CASE pack.pc # "publishing"
    <3>1. pack' = pack
      BY <1>2, <2>5
    <3> QED
      BY <1>1, <1>2, <2>1, <2>2, <2>3, <2>5, <3>1 DEF IInv, PackFollows, Active, Early
  <2> QED
    BY <2>4, <2>5
<1> QED
  BY <1>3, <1>4, <1>5, <1>6 DEF IInv

LEMMA HostReceiveKeeps ==
    ASSUME IInv, NEW h \in HostSet, NEW b \in Batches, HostReceive(h, b)
    PROVE  IInv'
<1> DEFINE call == [op |-> "receive", host |-> h, batch |-> b]
<1>1. UNCHANGED <<topology, fenced, published>>
  BY DEF HostReceive
<1>2. \E reply \in {"ok", "failed", "refused"} :
         /\ Answers("receive", h, b, {"fanning"}, reply)
         /\ \/ reply # "ok" /\ UNCHANGED entries
            \/ reply = "ok" /\ Insert(h, b) /\ b \notin fenced[h]
  BY AdmissionType DEF HostReceive
<1>3. PICK reply \in {"ok", "failed", "refused"} :
         /\ Answers("receive", h, b, {"fanning"}, reply)
         /\ \/ reply # "ok" /\ UNCHANGED entries
            \/ reply = "ok" /\ Insert(h, b) /\ b \notin fenced[h]
  BY <1>2
<1>4. reply \in Replies
  BY DEF Replies
<1>5. /\ call \in calls /\ calls' = calls \ {call} /\ calls' \subseteq Calls
      /\ UNCHANGED <<live, queue, train, background, stopping, runtime, release>>
      /\ pack'.pc = pack.pc /\ pack'.batch = pack.batch
      /\ pack.pc \notin {"fanning"} \/ pack.batch # b => pack' = pack
      /\ pack' \in [pc : PackPcs, batch : 0..topology.batches, replies : [HostSet -> Replies]]
      /\ \A h2 \in HostSet : pack'.replies[h2] =
            IF pack.pc \in {"fanning"} /\ pack.batch = b /\ h2 = h
            THEN reply ELSE pack.replies[h2]
  BY <1>1, <1>3, <1>4, AnswersStep
<1>6. call.op \in Inserting /\ call.op = "receive" /\ call.host = h /\ call.batch = b
  BY DEF Inserting
<1>7. /\ StoresFollow' /\ SettledStay({}) /\ entries' \in [HostSet -> SUBSET Batches]
      /\ \A b2 \in Batches, h2 \in HostSet :
            b2 \in entries'[h2] => b2 \in entries[h2] \/ (b2 = b /\ h2 = h)
      /\ \A b2 \in Batches, h2 \in HostSet : b2 \in entries[h2] => b2 \in entries'[h2]
  <2>1. "receive" \in Inserting
    BY DEF Inserting
  <2> QED
    BY <1>1, <1>3, <1>5, <2>1, InsertStep
<1>8. HandsOver'
  BY <1>1, <1>5, <1>7, HandsOverStays
<1>9. TypeOK'
  BY <1>1, <1>5, <1>7, TypeKept, Types DEF IInv
<1>10. PackFollows'
  <2>0. Inserts(h, b)
    BY <1>5, <1>6 DEF Inserts
  <2>1. CASE pack.batch # b \/ pack.pc \notin {"fanning"}
    <3>1. pack' = pack
      BY <1>5, <2>1
    <3>2. pack.pc \in Active /\ pack.batch = b => pack.pc \in {"undoing", "unpublishing"}
      BY <1>5, <1>6, <2>0, <2>1 DEF IInv, PackFollows, Active, Early
    <3>3. CASE pack.pc \in {"undoing", "unpublishing"}
      BY <1>5, <3>1, <3>3, <1>1 DEF IInv, PackFollows, Active, Early, Batches
    <3>4. CASE pack.pc \notin {"undoing", "unpublishing"}
      <4>1. pack.pc \in Active => pack.batch \in Batches /\ pack.batch \in live
        BY DEF IInv, PackFollows
      <4> QED
        BY <1>1, <1>5, <1>7, <3>1, <3>2, <3>4, <4>1, PackFollowsStays
    <3> QED
      BY <3>3, <3>4
  <2>2. CASE pack.batch = b /\ pack.pc = "fanning"
    <3>1. HostSet' = HostSet /\ Batches' = Batches /\ Source(b)' = Source(b)
      BY <1>1 DEF HostSet, Batches, Source
    <3>2. h # Source(b) /\ Source(b) \in HostSet /\ pack.replies[h] = "none"
      BY <2>0, <2>2, SourceType DEF IInv, PackFollows
    <3>3. \A h2 \in HostSet : Inserts(h2, b)' => h2 # h /\ Inserts(h2, b)
      <4> SUFFICES ASSUME NEW h2 \in HostSet, Inserts(h2, b)'
                   PROVE h2 # h /\ Inserts(h2, b)
        OBVIOUS
      <4>1. PICK c \in calls' : c.op \in Inserting /\ c.host = h2 /\ c.batch = b
        BY DEF Inserts
      <4>2. Inserts(h2, b) /\ c.op = "receive" /\ c \in Calls
        BY <1>5, <2>2, <4>1 DEF IInv, PackFollows, Inserts, Inserting
      <4>3. h2 = h => c = call
        BY <4>1, <4>2 DEF Calls
      <4> QED
        BY <1>5, <4>2, <4>3
    <3>4. \A h2 \in HostSet \ {Source(b)} : b \in entries'[h2] <=> pack'.replies[h2] = "ok"
      <4>1. b \notin entries[h] /\ \A h2 \in HostSet \ {Source(b)} :
               b \in entries[h2] <=> pack.replies[h2] = "ok"
        BY <2>2, <3>2 DEF IInv, PackFollows
      <4>2. b \in entries'[h] <=> reply = "ok"
        BY <1>3, <4>1, Types DEF Insert, IInv
      <4> QED
        BY <1>5, <1>7, <2>2, <4>1, <4>2
    <3> QED
      BY <1>1, <1>5, <1>7, <2>2, <3>1, <3>2, <3>3, <3>4 DEF IInv, PackFollows, Active, Early
  <2> QED
    BY <2>1, <2>2
<1> QED
  BY <1>7, <1>8, <1>9, <1>10 DEF IInv

LEMMA HostUnpublishKeeps ==
    ASSUME IInv, NEW h \in HostSet, NEW b \in Batches, HostUnpublish(h, b)
    PROVE  IInv'
<1> DEFINE call == [op |-> "unpublish", host |-> h, batch |-> b]
<1>1. /\ UNCHANGED <<topology, entries, fenced>> /\ "ok" \in Replies
      /\ Answers("unpublish", h, b, {"dropping", "unpublishing"}, "ok")
      /\ published' = [published EXCEPT ![h] = @ \ {b}]
  BY DEF HostUnpublish, Replies
<1>2. /\ call \in calls /\ calls' = calls \ {call} /\ calls' \subseteq Calls
      /\ UNCHANGED <<live, queue, train, background, stopping, runtime, release>>
      /\ pack'.pc = pack.pc /\ pack'.batch = pack.batch
      /\ pack.pc \notin {"dropping", "unpublishing"} \/ pack.batch # b => pack' = pack
      /\ pack' \in [pc : PackPcs, batch : 0..topology.batches, replies : [HostSet -> Replies]]
  BY <1>1, AnswersStep
<1>3. /\ StoresFollow' /\ SettledStay({}) /\ published' \in [HostSet -> SUBSET Batches]
  BY <1>1, <1>2, PublisherStep
<1>4. HandsOver'
  BY <1>1, <1>2, <1>3, HandsOverStays
<1>5. TypeOK'
  BY <1>1, <1>2, <1>3, TypeKept, Types DEF IInv
<1>6. PackFollows'
  <2>1. HostSet' = HostSet /\ Batches' = Batches /\ Source(pack.batch)' = Source(pack.batch)
    BY <1>1, <1>2 DEF HostSet, Batches, Source
  <2>2. \A h2 \in HostSet : Inserts(h2, pack.batch)' => Inserts(h2, pack.batch)
    BY <1>2 DEF Inserts
  <2>3. \A h2 \in HostSet : pack.batch \in published'[h2] => pack.batch \in published[h2]
    BY <1>1, Types DEF IInv
  <2>4. CASE pack.pc \in {"dropping", "unpublishing"}
    BY <1>1, <1>2, <2>1, <2>2, <2>4 DEF IInv, PackFollows, Active, Early
  <2>5. CASE pack.pc \notin {"dropping", "unpublishing"}
    <3>1. pack' = pack
      BY <1>2, <2>5
    <3> QED
      BY <1>1, <1>2, <2>3, <3>1, PackFollowsStays DEF IInv, PackFollows
  <2> QED
    BY <2>4, <2>5
<1> QED
  BY <1>3, <1>4, <1>5, <1>6 DEF IInv

LEMMA HostDropRefKeeps ==
    ASSUME IInv, NEW h \in HostSet, NEW b \in Batches, HostDropRef(h, b)
    PROVE  IInv'
<1> DEFINE call == [op |-> "drop", host |-> h, batch |-> b]
<1>1. /\ UNCHANGED <<topology, published>> /\ "dropped" \in Replies
      /\ Answers("drop", h, b, {"undoing"}, "dropped")
      /\ entries' = [entries EXCEPT ![h] = @ \ {b}]
      /\ fenced' = IF b \in entries[h] THEN [fenced EXCEPT ![h] = @ \cup {b}] ELSE fenced
  BY DEF HostDropRef, Replies
<1>2. /\ call \in calls /\ calls' = calls \ {call} /\ calls' \subseteq Calls
      /\ UNCHANGED <<live, queue, train, background, stopping, runtime, release>>
      /\ pack'.pc = pack.pc /\ pack'.batch = pack.batch
      /\ pack.pc \notin {"undoing"} \/ pack.batch # b => pack' = pack
      /\ pack' \in [pc : PackPcs, batch : 0..topology.batches, replies : [HostSet -> Replies]]
  BY <1>1, AnswersStep
<1>3. /\ StoresFollow' /\ SettledStay({})
      /\ entries' \in [HostSet -> SUBSET Batches]
      /\ fenced' \in [HostSet -> SUBSET Batches]
      /\ \A b2 \in Batches, h2 \in HostSet : b2 \in entries'[h2] => b2 \in entries[h2]
      /\ \A b2 \in Batches \ {b}, h2 \in HostSet : b2 \in entries[h2] => b2 \in entries'[h2]
  BY <1>1, <1>2, DropStep
<1>4. HandsOver'
  BY <1>1, <1>2, <1>3, HandsOverStays
<1>5. TypeOK'
  BY <1>1, <1>2, <1>3, TypeKept, Types DEF IInv
<1>6. PackFollows'
  <2>1. HostSet' = HostSet /\ Batches' = Batches
    BY <1>1 DEF HostSet, Batches
  <2>2. CASE pack.pc \in {"undoing", "unpublishing"}
    BY <1>1, <1>2, <2>1, <2>2 DEF IInv, PackFollows, Active, Early
  <2>3. CASE pack.pc \notin {"undoing", "unpublishing"}
    <3>1. pack' = pack
      BY <1>2, <2>3
    <3>2. pack.pc \in Active => pack.batch # b /\ pack.batch \in Batches /\ pack.batch \in live
      BY <1>2, <2>3 DEF IInv, PackFollows, Active, Early
    <3> QED
      BY <1>1, <1>2, <1>3, <3>1, <3>2, PackFollowsStays
  <2> QED
    BY <2>2, <2>3
<1> QED
  BY <1>3, <1>4, <1>5, <1>6 DEF IInv

LEMMA HostReclaimKeeps ==
    ASSUME IInv, NEW h \in HostSet, NEW b \in Batches, NEW fence \in BOOLEAN,
           HostReclaim(h, b, fence)
    PROVE  IInv'
<1>1. /\ StoresFollow' /\ SettledStay({})
      /\ entries' \in [HostSet -> SUBSET Batches]
      /\ fenced' \in [HostSet -> SUBSET Batches]
      /\ published' \in [HostSet -> SUBSET Batches]
      /\ release' \in [Batches -> Releases]
      /\ UNCHANGED <<topology, live, queue, train, background, stopping, runtime, pack>>
      /\ calls' \subseteq calls
      /\ \E c \in calls : c.op \in {"fence", "reclaim"} /\ c.batch = b
      /\ \A b2 \in Batches \ {b} :
            /\ release'[b2] = release[b2]
            /\ \A h2 \in HostSet : /\ b2 \in entries'[h2] <=> b2 \in entries[h2]
                                   /\ b2 \in published'[h2] <=> b2 \in published[h2]
  BY ReclaimStep
<1>2. HandsOver'
  BY <1>1, HandsOverStays
<1>3. TypeOK'
  BY <1>1, TypeKept, Types DEF IInv
<1>4. PackFollows'
  <2>1. pack.pc \in Active => pack.batch # b /\ pack.batch \in Batches /\ pack.batch \in live
    BY <1>1 DEF IInv, PackFollows
  <2> QED
    BY <1>1, <2>1, PackFollowsStays
<1> QED
  BY <1>1, <1>2, <1>3, <1>4 DEF IInv


-----------------------------------------------------------------------------
(* The end of a release, and the packing stage, keep the invariant.        *)

(* A batch is not listed any more, or its release has ended.               *)
LEMMA UnlistStep ==
    ASSUME IInv, NEW b \in Batches, ~(b > pack.batch),
           live' = live \/ (live' = live \ {b} /\ \A h \in HostSet : Clean(h, b)),
           \A b2 \in Batches \ {b} : release'[b2] = release[b2],
           release'[b] = release[b] \/ release'[b].state \in {"done", "failed"},
           UNCHANGED <<hostVars, calls>>, pack'.batch = pack.batch
    PROVE  StoresFollow' /\ SettledStay({b})
<1> USE DEF hostVars
<1>1. HostSet' = HostSet /\ Batches' = Batches
  BY DEF HostSet, Batches
<1>2. \A h2, b2 : Clean(h2, b2)' <=> Clean(h2, b2)
  BY DEF Clean, Inserts
<1>3. \A h2, b2 : Inserts(h2, b2)' <=> Inserts(h2, b2)
  BY DEF Inserts
<1>4. UnlistedAreClean'
  BY <1>1, <1>2 DEF IInv, StoresFollow, UnlistedAreClean
<1>5. ReleasedAreClean'
  BY <1>1, <1>2 DEF IInv, StoresFollow, ReleasedAreClean
<1>6. ReclaimsAreLate' /\ LaterAreFresh'
  BY <1>1, <1>3 DEF IInv, StoresFollow, ReclaimsAreLate, LaterAreFresh
<1>7. \A b2 \in Batches \ {b} : Settled(b2) => Settled(b2)'
  BY <1>1, <1>3 DEF Settled, Untouched, Whole
<1> QED
  BY <1>4, <1>5, <1>6, <1>7 DEF StoresFollow, SettledStay

LEMMA ReleaseEndsKeeps ==
    ASSUME IInv, NEW b \in Batches, ReleaseEnds(b)
    PROVE  IInv'
<1> USE DEF hostVars
<1>1. /\ UNCHANGED <<hostVars, calls, pack, queue, train, background, stopping, runtime>>
      /\ release[b].state \in {"running", "failing"} /\ release[b].pending = {}
      /\ \/ /\ release[b].state = "running"
            /\ release' = [release EXCEPT ![b].state = "done"] /\ live' = live \ {b}
         \/ release' = [release EXCEPT ![b].state = "failed"] /\ live' = live
  BY DEF ReleaseEnds, Running
<1>2. /\ release \in [Batches -> Releases] /\ release' \in [Batches -> Releases]
      /\ \A b2 \in Batches \ {b} : release'[b2] = release[b2]
      /\ release'[b].state \in {"done", "failed"}
  <2>1. release \in [Batches -> Releases]
    BY Types DEF IInv
  <2>2. PICK st \in {"done", "failed"} : release' = [release EXCEPT ![b].state = st]
    BY <1>1
  <2> QED
    BY <2>1, <2>2 DEF Releases
<1>3. ~(b > pack.batch)
  BY <1>1 DEF IInv, StoresFollow, LaterAreFresh
<1>4. live' = live \/ (live' = live \ {b} /\ \A h \in HostSet : Clean(h, b))
  BY <1>1 DEF IInv, StoresFollow, ReleasedAreClean
<1>5. StoresFollow' /\ SettledStay({b})
  BY <1>1, <1>2, <1>3, <1>4, UnlistStep
<1>6. ~Settled(b)
  BY <1>1 DEF Settled, Untouched
<1>7. SettledStay({})
  BY <1>5, <1>6 DEF SettledStay
<1>8. HandsOver'
  BY <1>1, <1>7, HandsOverStays
<1>9. TypeOK'
  BY <1>1, <1>2, TypeKept, Types DEF IInv
<1>10. PackFollows'
  <2>1. pack.pc \in Active => pack.batch # b /\ pack.batch \in Batches /\ pack.batch \in live
    BY <1>1 DEF IInv, PackFollows
  <2> QED
    BY <1>1, <1>2, <2>1, PackFollowsStays
<1> QED
  BY <1>5, <1>8, <1>9, <1>10 DEF IInv

LEMMA PackStartKeeps ==
    ASSUME IInv, PackStart
    PROVE  IInv'
<1> USE DEF hostVars
<1>0. PICK b : b = pack.batch + 1
  OBVIOUS
<1>1. /\ UNCHANGED <<topology, entries, fenced, published, queue, train, release,
                     background, stopping, runtime>>
      /\ pack.pc = "idle" /\ pack.batch < topology.batches
      /\ pack' = [pc |-> "packing", batch |-> b, replies |-> [h \in HostSet |-> "none"]]
      /\ live' = live \cup {b}
      /\ calls' = calls \cup CallAll("pack", {Source(b)}, b)
  BY <1>0 DEF PackStart
<1>2. HostSet' = HostSet /\ Batches' = Batches /\ Source(b)' = Source(b)
  BY <1>1 DEF HostSet, Batches, Source
<1>3. TypeOK /\ pack.batch \in 0..topology.batches /\ topology.batches \in Nat
  BY PackedAssumption, Types DEF IInv, TypeOK
<1>4. b \in Batches /\ b > pack.batch
  BY <1>0, <1>1, <1>3 DEF Batches
<1>5. Source(b) \in HostSet
  BY <1>3, <1>4, SourceType
<1>6. b \notin live /\ release[b].state = "none" /\ \A c \in calls : c.batch # b
  BY <1>4 DEF IInv, StoresFollow, LaterAreFresh
<1>7. \A c \in CallAll("pack", {Source(b)}, b) :
         c.op = "pack" /\ c.host = Source(b) /\ c.batch = b /\ c \in Calls
  BY <1>3, <1>4, <1>5, SentCalls
<1>8. \A h2, b2 : b2 # b => (Inserts(h2, b2)' <=> Inserts(h2, b2))
  BY <1>1, <1>7 DEF Inserts
<1>9. \A h2, b2 : b2 # b => (Clean(h2, b2)' <=> Clean(h2, b2))
  BY <1>1, <1>8 DEF Clean
<1>10. \A h \in HostSet : b \notin entries[h] /\ b \notin published[h]
  BY <1>4, <1>6 DEF IInv, StoresFollow, UnlistedAreClean, Clean
<1>11. UnlistedAreClean' /\ ReleasedAreClean'
  BY <1>1, <1>2, <1>6, <1>9 DEF IInv, StoresFollow, UnlistedAreClean, ReleasedAreClean
<1>12. ReclaimsAreLate'
  BY <1>1, <1>2, <1>6, <1>7, <1>8 DEF IInv, StoresFollow, ReclaimsAreLate
<1>13. LaterAreFresh'
  <2>1. \A b2 \in Batches : b2 > b => b2 > pack.batch /\ b2 # b
    BY <1>0, <1>3 DEF Batches
  <2>2. pack'.batch = b
    BY <1>1
  <2> QED
    BY <1>1, <1>2, <1>7, <2>1, <2>2 DEF IInv, StoresFollow, LaterAreFresh
<1>14. \A b2 \in Batches \ {b} : Settled(b2) => Settled(b2)'
  BY <1>1, <1>2, <1>7, <1>8 DEF Settled, Untouched, Whole
<1>15. HandsOver'
  <2>1. queue = None /\ runtime = "open"
    BY <1>1 DEF IInv, HandsOver
  <2>2. train.pc \in {"training", "finishing"} =>
           train.batch \in Batches /\ Settled(train.batch)' /\ train.batch < b
    <3>1. train.pc \in {"training", "finishing"} => /\ train.batch \in Batches
              /\ Settled(train.batch) /\ train.batch <= pack.batch
      BY DEF IInv, HandsOver
    <3>2. train.batch \in Batches /\ train.batch <= pack.batch => train.batch < b
      BY <1>0, <1>3 DEF Batches
    <3>3. train.batch < b => train.batch # b
      BY <1>4 DEF Batches
    <3> QED
      BY <1>1, <1>14, <3>1, <3>2, <3>3
  <2>3. train.batch < b => train.batch <= b /\ train.batch # b
    BY <1>4, Types, <1>3 DEF Batches
  <2> HIDE DEF Settled
  <2> QED
    BY <1>1, <1>2, <2>1, <2>2, <2>3 DEF HandsOver
<1>16. TypeOK'
  <2>1. pack' \in [pc : PackPcs, batch : 0..topology.batches, replies : [HostSet -> Replies]]
    BY <1>1, <1>4, <1>3 DEF PackPcs, Replies, Batches
  <2>2. calls' \subseteq Calls /\ live' \subseteq Batches
    BY <1>1, <1>3, <1>4, <1>7, Types
  <2> QED
    BY <1>1, <1>3, <2>1, <2>2, TypeKept, Types
<1>17. PackFollows'
  <2>1. \A h \in HostSet : Inserts(h, b)' => h = Source(b)
    BY <1>1, <1>6, <1>7 DEF Inserts
  <2>2. pack'.pc = "packing" /\ pack'.batch = b /\ \A h \in HostSet : pack'.replies[h] = "none"
    BY <1>1
  <2> QED
    BY <1>1, <1>2, <1>4, <1>5, <1>6, <1>7, <1>10, <2>1, <2>2 DEF PackFollows, Active, Early
<1> QED
  BY <1>11, <1>12, <1>13, <1>15, <1>16, <1>17 DEF IInv, StoresFollow

(* A change of the packing stage's program counter alone.                  *)
LEMMA PackMoves ==
    ASSUME IInv, NEW pc \in PackPcs, pack' = [pack EXCEPT !.pc = pc],
           pc = "ended" \/ pack.pc \in Active
              \/ (pack.pc # "ended" /\ pc \notin Active /\ queue = None),
           UNCHANGED <<hostVars, live, queue, train, background, runtime, calls, release>>,
           stopping' \in BOOLEAN
    PROVE  TypeOK' /\ StoresFollow' /\ HandsOver' /\ (pc \notin Active => IInv')
<1> USE DEF hostVars
<1>1. /\ pack'.pc = pc /\ pack'.batch = pack.batch
      /\ pack' \in [pc : PackPcs, batch : 0..topology.batches, replies : [HostSet -> Replies]]
  BY Types DEF IInv
<1>2. StoresFollow' /\ SettledStay({})
  BY <1>1, QuietStep
<1>3. HandsOver'
  BY <1>1, <1>2, HandsOverStays
<1>4. TypeOK'
  BY <1>1, TypeKept, Types DEF IInv
<1>5. pc \notin Active => PackFollows'
  BY <1>1 DEF PackFollows, Active, Early
<1> QED
  BY <1>2, <1>3, <1>4, <1>5 DEF IInv

(* The stage releases its batch; without a fence only when nothing would    *)
(* insert it.                                                              *)
LEMMA GiveUpKeeps ==
    ASSUME IInv, pack.pc \in Active, NEW fence \in BOOLEAN, GiveUp(fence),
           fence \/ pack.pc = "preparing", UNCHANGED <<hostVars, ownVars>>
    PROVE  IInv'
<1> USE DEF hostVars, ownVars
<1>1. /\ StartRelease({pack.batch}, fence)
      /\ pack'.pc = "releasing" /\ pack'.batch = pack.batch
      /\ pack' \in [pc : PackPcs, batch : 0..topology.batches, replies : [HostSet -> Replies]]
  BY Types DEF GiveUp, IInv, PackPcs
<1>2. /\ {pack.batch} \in SUBSET live
      /\ fence \/ \A b \in {pack.batch}, h \in HostSet : ~Inserts(h, b)
  BY DEF IInv, PackFollows
<1>3. /\ StoresFollow' /\ SettledStay({pack.batch})
      /\ calls' \subseteq Calls /\ release' \in [Batches -> Releases]
  BY <1>1, <1>2, ReleaseStep
<1>4. HandsOver'
  BY <1>1, <1>3, HandsOverStays
<1>5. TypeOK'
  BY <1>1, <1>3, TypeKept, Types DEF IInv
<1>6. PackFollows'
  BY <1>1 DEF PackFollows, Active, Early
<1> QED
  BY <1>3, <1>4, <1>5, <1>6 DEF IInv

(* The stage sends calls and awaits their replies.                         *)
LEMMA SendKeeps ==
    ASSUME IInv, pack.pc \in Active,
           NEW o \in {"publish", "receive", "unpublish", "drop"}, NEW hs \in SUBSET HostSet,
           NEW pc \in Active, Send(o, hs, pc), UNCHANGED <<hostVars, ownVars>>
    PROVE  /\ TypeOK' /\ StoresFollow' /\ HandsOver'
           /\ UNCHANGED <<topology, entries, published, live, release>>
           /\ HostSet' = HostSet /\ Batches' = Batches /\ Source(pack.batch)' = Source(pack.batch)
           /\ pack'.pc = pc /\ pack'.batch = pack.batch
           /\ \A h \in HostSet : pack'.replies[h] = IF h \in hs THEN "none" ELSE pack.replies[h]
           /\ \A c \in calls' : \/ c \in calls
                                \/ c.op = o /\ c.host \in hs /\ c.batch = pack.batch
<1> USE DEF hostVars, ownVars
<1>1. /\ pack.batch \in Batches
      /\ pack \in [pc : PackPcs, batch : 0..topology.batches, replies : [HostSet -> Replies]]
  BY Types DEF IInv, PackFollows
<1>2. /\ calls' = calls \cup CallAll(o, hs, pack.batch)
      /\ pack'.pc = pc /\ pack'.batch = pack.batch
      /\ pack'.replies = [h \in HostSet |-> IF h \in hs THEN "none" ELSE pack.replies[h]]
      /\ pack' \in [pc : PackPcs, batch : 0..topology.batches, replies : [HostSet -> Replies]]
      /\ UNCHANGED release
  BY <1>1 DEF Send, PackPcs, Active, Early, Replies
<1>3. StoresFollow' /\ SettledStay({pack.batch}) /\ calls' \subseteq Calls
  BY <1>2, SendStep
<1>4. HandsOver'
  BY <1>2, <1>3, HandsOverStays
<1>5. TypeOK'
  BY <1>2, <1>3, TypeKept, Types DEF IInv
<1>6. \A c \in CallAll(o, hs, pack.batch) : c.op = o /\ c.host \in hs /\ c.batch = pack.batch
  BY <1>1, SentCalls DEF IInv
<1>7. HostSet' = HostSet /\ Batches' = Batches /\ Source(pack.batch)' = Source(pack.batch)
  BY <1>2 DEF HostSet, Batches, Source
<1> QED
  <2>1. UNCHANGED <<topology, entries, published, live, release>>
    BY <1>2
  <2>2. \A h \in HostSet : pack'.replies[h] = IF h \in hs THEN "none" ELSE pack.replies[h]
    BY <1>2
  <2>3. \A c \in calls' : \/ c \in calls
                          \/ c.op = o /\ c.host \in hs /\ c.batch = pack.batch
    BY <1>2, <1>6
  <2> QED
    BY <1>2, <1>3, <1>4, <1>5, <1>7, <2>1, <2>2, <2>3

LEMMA PackEndsKeeps ==
    ASSUME IInv, PackEnds
    PROVE  IInv'
  BY PackMoves, Types DEF IInv, PackEnds, PackPcs, ownVars, Active, Early

LEMMA PackPackedKeeps ==
    ASSUME IInv, PackPacked
    PROVE  IInv'
<1> DEFINE b == pack.batch
           s == Source(b)
           reply == pack.replies[s]
<1> USE DEF hostVars
<1>1. /\ pack.pc = "packing" /\ reply # "none"
      /\ UNCHANGED <<hostVars, queue, train, background, stopping, runtime>>
  BY DEF PackPacked
<1>2. /\ pack.pc \in Active /\ b \in Batches /\ s \in HostSet
      /\ TypeOK /\ stopping' \in BOOLEAN
  <2>1. pack.pc \in Active /\ TypeOK /\ stopping' \in BOOLEAN
    BY <1>1, Types DEF Active, Early, IInv
  <2> QED
    BY <2>1, SourceType DEF IInv, PackFollows
<1>3. /\ \A h \in HostSet : b \notin published[h] /\ ~Inserts(h, b)
      /\ \A h \in HostSet : b \in entries[h] <=> h = s /\ reply = "ok"
      /\ \A c \in calls : c.op = "drop" => c.batch # b
  BY <1>1 DEF IInv, PackFollows, Early
<1>4. CASE reply = "empty"
  <2>1. /\ pack' = [pack EXCEPT !.pc = "idle"] /\ live' = live \ {b}
        /\ UNCHANGED <<calls, release>>
    BY <1>4 DEF PackPacked
  <2>2. \A h \in HostSet : Clean(h, b)
    BY <1>3, <1>4 DEF Clean
  <2>3. /\ pack'.pc = "idle" /\ pack'.batch = pack.batch
        /\ pack' \in [pc : PackPcs, batch : 0..topology.batches,
                      replies : [HostSet -> Replies]]
    BY <2>1, <1>2, Types DEF PackPcs
  <2>4. ~(b > pack.batch)
    BY <1>2, SourceType
  <2>5. StoresFollow' /\ SettledStay({b})
    BY <1>1, <1>2, <2>1, <2>2, <2>3, <2>4, UnlistStep
  <2>6. HandsOver'
    <3>1. queue = None
      BY <1>1 DEF IInv, HandsOver
    <3> QED
      BY <1>1, <1>2, <2>3, <2>5, HandsOverStays
  <2>7. TypeOK'
    BY <1>1, <1>2, <2>1, <2>3, TypeKept, Types
  <2>8. PackFollows'
    BY <2>3 DEF PackFollows, Active, Early
  <2> QED
    BY <2>5, <2>6, <2>7, <2>8 DEF IInv
<1>5. CASE reply = "ok" /\ Others(b) = {}
  <2>1. /\ pack' = [pack EXCEPT !.pc = "preparing"]
        /\ UNCHANGED <<calls, release, live>>
    BY <1>5 DEF PackPacked
  <2>2. TypeOK' /\ StoresFollow' /\ HandsOver'
    <3>1. "preparing" \in PackPcs
      BY DEF PackPcs
    <3> QED
      BY <1>1, <1>2, <2>1, <3>1, PackMoves
  <2>3. PackFollows'
    <3>1. HostSet' = HostSet /\ Batches' = Batches /\ pack'.batch = b /\ pack'.pc = "preparing"
          /\ Source(b)' = Source(b)
      BY <1>1, <2>1, Types, <1>2 DEF HostSet, Batches, Source
    <3>2. \A h \in HostSet : h = s
      BY <1>5 DEF Others
    <3>3. \A h \in HostSet : ~Inserts(h, b)' /\ b \in entries'[h]
      BY <1>1, <1>3, <1>5, <2>1, <3>2 DEF Inserts
    <3> QED
      BY <1>1, <1>2, <1>3, <2>1, <3>1, <3>3 DEF IInv, PackFollows, Active, Early
  <2> QED
    BY <2>2, <2>3 DEF IInv
<1>6. CASE reply = "ok" /\ Others(b) # {}
  <2>1. Send("publish", {s}, "publishing") /\ UNCHANGED live
    BY <1>6 DEF PackPacked
  <2>2. /\ TypeOK' /\ StoresFollow' /\ HandsOver'
        /\ UNCHANGED <<topology, entries, published, live, release>>
        /\ HostSet' = HostSet /\ Batches' = Batches /\ Source(pack.batch)' = Source(pack.batch)
        /\ pack'.pc = "publishing" /\ pack'.batch = pack.batch
        /\ \A h \in HostSet : pack'.replies[h] = IF h \in {s} THEN "none" ELSE pack.replies[h]
        /\ \A c \in calls' : \/ c \in calls
                             \/ c.op = "publish" /\ c.host \in {s} /\ c.batch = pack.batch
    <3>1. "publishing" \in Active /\ {s} \in SUBSET HostSet /\ UNCHANGED ownVars
      BY <1>1, <1>2, <2>1 DEF Active, Early, ownVars
    <3> QED
      BY <1>1, <1>2, <2>1, <3>1, SendKeeps
  <2>3. \A h \in HostSet : ~Inserts(h, b)'
    BY <1>3, <2>2 DEF Inserts, Inserting
  <2>4. PackFollows'
    BY <1>1, <1>2, <1>3, <1>6, <2>2, <2>3 DEF IInv, PackFollows, Active, Early
  <2> QED
    BY <2>2, <2>4 DEF IInv
<1>7. CASE reply \notin {"empty", "ok"}
  <2>1. GiveUp(TRUE) /\ UNCHANGED ownVars
    BY <1>1, <1>7 DEF PackPacked, ownVars
  <2> QED
    BY <1>1, <1>2, <2>1, GiveUpKeeps
<1> QED
  BY <1>4, <1>5, <1>6, <1>7

LEMMA PackPublishedKeeps ==
    ASSUME IInv, PackPublished
    PROVE  IInv'
<1> DEFINE b == pack.batch
<1>1. /\ pack.pc = "publishing" /\ pack.pc \in Active /\ UNCHANGED <<hostVars, ownVars>>
      /\ Others(b) \in SUBSET HostSet /\ "fanning" \in Active
  BY DEF PackPublished, Others, Active, Early
<1>2. CASE GiveUp(TRUE)
  BY <1>1, <1>2, GiveUpKeeps
<1>3. CASE Send("receive", Others(b), "fanning")
  <2>1. /\ TypeOK' /\ StoresFollow' /\ HandsOver'
        /\ UNCHANGED <<topology, entries, published, live, release>>
        /\ HostSet' = HostSet /\ Batches' = Batches /\ Source(b)' = Source(b)
        /\ pack'.pc = "fanning" /\ pack'.batch = b
        /\ \A h \in HostSet :
              pack'.replies[h] = IF h \in Others(b) THEN "none" ELSE pack.replies[h]
        /\ \A c \in calls' : \/ c \in calls
                             \/ c.op = "receive" /\ c.host \in Others(b) /\ c.batch = b
    BY <1>1, <1>3, SendKeeps
  <2>2. \A h \in HostSet : ~Inserts(h, b) /\ (b \in entries[h] => h = Source(b))
    BY <1>1 DEF IInv, PackFollows
  <2>3. \A h \in HostSet : Inserts(h, b)' => h \in Others(b)
    BY <2>1, <2>2 DEF Inserts
  <2>4. \A c \in calls' : c.batch = b => c.op # "pack"
    <3>1. \A c \in calls : c.host \in HostSet
      BY Types DEF IInv, Calls
    <3> QED
      BY <2>1, <2>2, <3>1 DEF Inserts, Inserting
  <2>5. PackFollows'
    BY <1>1, <2>1, <2>2, <2>3, <2>4 DEF IInv, PackFollows, Active, Early, Others
  <2> QED
    BY <2>1, <2>5 DEF IInv
<1> QED
  BY <1>2, <1>3 DEF PackPublished

(* Undoing the copies is an active part of the stage and says little.      *)
LEMMA UndoKeeps ==
    ASSUME IInv, pack.pc \in Active,
           NEW o \in {"publish", "receive", "unpublish", "drop"}, NEW hs \in SUBSET HostSet,
           NEW pc \in {"undoing", "unpublishing"}, Send(o, hs, pc), UNCHANGED <<hostVars, ownVars>>
    PROVE  IInv'
<1>1. pc \in Active
  BY DEF Active
<1>2. /\ TypeOK' /\ StoresFollow' /\ HandsOver'
      /\ UNCHANGED <<topology, entries, published, live, release>>
      /\ HostSet' = HostSet /\ Batches' = Batches /\ Source(pack.batch)' = Source(pack.batch)
      /\ pack'.pc = pc /\ pack'.batch = pack.batch
      /\ \A h \in HostSet : pack'.replies[h] = IF h \in hs THEN "none" ELSE pack.replies[h]
      /\ \A c \in calls' : \/ c \in calls
                           \/ c.op = o /\ c.host \in hs /\ c.batch = pack.batch
  BY <1>1, SendKeeps
<1>3. PackFollows'
  BY <1>1, <1>2 DEF IInv, PackFollows, Active, Early
<1> QED
  BY <1>2, <1>3 DEF IInv

LEMMA PackFannedOutKeeps ==
    ASSUME IInv, PackFannedOut
    PROVE  IInv'
<1> DEFINE b == pack.batch
<1>1. /\ pack.pc = "fanning" /\ pack.pc \in Active /\ UNCHANGED <<hostVars, ownVars>>
      /\ \A h \in Others(b) : pack.replies[h] # "none"
      /\ {} \in SUBSET HostSet
  BY DEF PackFannedOut, Active, Early
<1>2. CASE Send("drop", {}, "undoing")
  BY <1>1, <1>2, UndoKeeps
<1>3. CASE /\ Send("unpublish", {Source(b)}, "dropping")
           /\ \A h \in Others(b) : pack.replies[h] = "ok"
  <2>1. {Source(b)} \in SUBSET HostSet /\ "dropping" \in Active
    BY <1>1, SourceType DEF IInv, PackFollows, Active, Early
  <2>2. /\ TypeOK' /\ StoresFollow' /\ HandsOver'
        /\ UNCHANGED <<topology, entries, published, live, release>>
        /\ HostSet' = HostSet /\ Batches' = Batches /\ Source(b)' = Source(b)
        /\ pack'.pc = "dropping" /\ pack'.batch = b
        /\ \A h \in HostSet :
              pack'.replies[h] = IF h \in {Source(b)} THEN "none" ELSE pack.replies[h]
        /\ \A c \in calls' : \/ c \in calls
                             \/ c.op = "unpublish" /\ c.host \in {Source(b)} /\ c.batch = b
    BY <1>1, <1>3, <2>1, SendKeeps
  <2>3. \A h \in HostSet : ~Inserts(h, b) /\ b \in entries[h]
    BY <1>1, <1>3 DEF IInv, PackFollows, Others
  <2>4. \A h \in HostSet : ~Inserts(h, b)' /\ b \in entries'[h]
    BY <2>2, <2>3 DEF Inserts, Inserting
  <2>5. PackFollows'
    BY <1>1, <2>1, <2>2, <2>4 DEF IInv, PackFollows, Active, Early
  <2> QED
    BY <2>2, <2>5 DEF IInv
<1> QED
  BY <1>2, <1>3 DEF PackFannedOut

LEMMA PackUndoesKeeps ==
    ASSUME IInv, PackUndoes
    PROVE  IInv'
<1> DEFINE b == pack.batch
           copies == {h \in Others(b) : pack.replies[h] = "ok"}
<1>1. /\ pack.pc = "undoing" /\ pack.pc \in Active /\ UNCHANGED <<hostVars, ownVars>>
      /\ copies \subseteq HostSet
  BY DEF PackUndoes, Others, Active
<1>2. CASE copies = {}
  <2>1. Send("unpublish", {Source(b)}, "unpublishing")
    BY <1>2 DEF PackUndoes
  <2>2. {Source(b)} \in SUBSET HostSet
    BY <1>1, SourceType DEF IInv, PackFollows
  <2> QED
    BY <1>1, <2>1, <2>2, UndoKeeps
<1>3. CASE copies # {}
  <2>1. PICK h \in HostSet : /\ calls' = calls \cup CallAll("drop", {h}, b)
                             /\ UNCHANGED <<pack, release>>
    BY <1>1, <1>3 DEF PackUndoes
  <2>2. /\ {h} \in SUBSET HostSet /\ b \in Batches /\ TypeOK
    BY <1>1 DEF IInv, PackFollows
  <2>3. StoresFollow' /\ SettledStay({b}) /\ calls' \subseteq Calls
    <3>1. UNCHANGED <<hostVars, live, release>> /\ pack'.batch = pack.batch
      BY <1>1, <2>1 DEF ownVars
    <3> QED
      BY <1>1, <2>1, <2>2, <3>1, SendStep
  <2>4. HandsOver'
    BY <1>1, <2>1, <2>3, HandsOverStays DEF hostVars, ownVars
  <2>5. TypeOK'
    BY <1>1, <2>1, <2>2, <2>3, TypeKept, Types DEF hostVars, ownVars
  <2>6. PackFollows'
    <3>1. \A c \in CallAll("drop", {h}, b) : c.op = "drop"
      BY <2>2, SentCalls
    <3>2. Batches' = Batches
      BY <1>1 DEF hostVars, Batches
    <3> QED
      BY <1>1, <2>1, <3>1, <3>2 DEF IInv, PackFollows, Active, Early, ownVars
  <2> QED
    BY <2>3, <2>4, <2>5, <2>6 DEF IInv
<1> QED
  BY <1>2, <1>3

LEMMA PackUnpublishedKeeps ==
    ASSUME IInv, PackUnpublished
    PROVE  IInv'
<1>1. /\ pack.pc \in {"dropping", "unpublishing"} /\ pack.pc \in Active
      /\ UNCHANGED <<hostVars, ownVars>> /\ "preparing" \in PackPcs
      /\ "preparing" \in Active
  BY DEF PackUnpublished, Active, Early, PackPcs
<1>2. CASE pack.pc = "dropping"
  <2>1. pack' = [pack EXCEPT !.pc = "preparing"] /\ UNCHANGED <<calls, release>>
    BY <1>2 DEF PackUnpublished
  <2>2. TypeOK' /\ StoresFollow' /\ HandsOver'
    <3>1. stopping' \in BOOLEAN
      BY <1>1, Types DEF IInv, ownVars
    <3> QED
      BY <1>1, <2>1, <3>1, PackMoves DEF ownVars
  <2>3. PackFollows'
    <3>1. /\ HostSet' = HostSet /\ Batches' = Batches
          /\ pack'.batch = pack.batch /\ pack'.pc = "preparing"
          /\ Source(pack.batch)' = Source(pack.batch)
      BY <1>1, <2>1, Types DEF hostVars, HostSet, Batches, Source, IInv
    <3>2. \A h \in HostSet : ~Inserts(h, pack.batch)' /\ pack.batch \in entries'[h]
      BY <1>1, <1>2, <2>1, <3>1 DEF Inserts, hostVars, IInv, PackFollows
    <3>3. pack.batch \in Batches /\ Source(pack.batch) \in HostSet
      BY <1>1, SourceType DEF IInv, PackFollows
    <3> QED
      BY <1>1, <1>2, <2>1, <3>1, <3>2, <3>3 DEF IInv, PackFollows, Active, Early, ownVars
  <2> QED
    BY <2>2, <2>3 DEF IInv
<1>3. CASE pack.pc = "unpublishing"
  BY <1>1, <1>3, GiveUpKeeps DEF PackUnpublished
<1> QED
  BY <1>1, <1>2, <1>3

LEMMA PackPreparedKeeps ==
    ASSUME IInv, PackPrepared
    PROVE  IInv'
<1> DEFINE b == pack.batch
<1>1. /\ pack.pc = "preparing" /\ pack.pc \in Active
      /\ UNCHANGED <<hostVars, live, train, background, stopping, runtime>>
  BY DEF PackPrepared, Active, Early
<1>2. CASE /\ queue' = pack.batch /\ pack' = [pack EXCEPT !.pc = "handoff"]
           /\ UNCHANGED <<calls, release>>
  <2>1. /\ b \in Batches /\ Settled(b) /\ TypeOK
    BY <1>1 DEF IInv, PackFollows, Early, Settled, Untouched, Whole
  <2>2. /\ pack'.pc = "handoff" /\ pack'.batch = b
        /\ pack' \in [pc : PackPcs, batch : 0..topology.batches, replies : [HostSet -> Replies]]
    BY <1>2, <2>1, Types DEF PackPcs
  <2>3. StoresFollow' /\ SettledStay({})
    BY <1>1, <1>2, <2>2, QuietStep
  <2>4. HandsOver'
    <3>1. Settled(b)'
      <4>1. \A b2 \in Batches : Settled(b2) => Settled(b2)'
        BY <2>3 DEF SettledStay
      <4>2. b' = b
        BY <2>2
      <4> QED
        BY <2>1, <4>1, <4>2
    <3>2. train.pc \in {"training", "finishing"} => /\ train.batch \in Batches
             /\ Settled(train.batch)' /\ train.batch <= b /\ train.batch # b
      <4>1. train.pc \in {"training", "finishing"} => /\ train.batch \in Batches
               /\ Settled(train.batch) /\ train.batch <= b /\ train.batch # b
        BY <1>1 DEF IInv, HandsOver
      <4> QED
        BY <1>1, <2>3, <4>1 DEF SettledStay
    <3>3. runtime = "open"
      BY <1>1 DEF IInv, HandsOver
    <3>4. Settled(queue)'
      BY <3>1, <1>2, <2>2
    <3>5. Batches' = Batches
      BY <1>1 DEF Batches, hostVars
    <3> HIDE DEF Settled
    <3> QED
      BY <1>1, <1>2, <2>2, <3>2, <3>3, <3>4, <3>5 DEF HandsOver
  <2>5. TypeOK'
    BY <1>1, <1>2, <2>1, <2>2, TypeKept, Types DEF hostVars
  <2>6. PackFollows'
    BY <2>2 DEF PackFollows, Active, Early
  <2> QED
    BY <2>3, <2>4, <2>5, <2>6 DEF IInv
<1>3. CASE GiveUp(FALSE) /\ UNCHANGED queue
  BY <1>1, <1>3, GiveUpKeeps DEF ownVars
<1> QED
  BY <1>2, <1>3 DEF PackPrepared

LEMMA PackHandsOffKeeps ==
    ASSUME IInv, PackHandsOff
    PROVE  IInv'
  BY PackMoves, Types DEF IInv, PackHandsOff, PackPcs, ownVars, Active, Early

LEMMA PackReleasedKeeps ==
    ASSUME IInv, PackReleased
    PROVE  IInv'
<1>1. /\ pack' = [pack EXCEPT !.pc = "ended"] /\ stopping' \in BOOLEAN
      /\ UNCHANGED <<hostVars, live, queue, train, background, runtime, calls, release>>
      /\ "ended" \in PackPcs /\ "ended" \notin Active
  BY DEF PackReleased, PackPcs, Active, Early
<1> QED
  BY <1>1, PackMoves

LEMMA PackInterruptedKeeps ==
    ASSUME IInv, PackInterrupted
    PROVE  IInv'
<1>1. UNCHANGED <<hostVars, ownVars>> /\ {} \in SUBSET HostSet
  BY DEF PackInterrupted
<1>2. CASE pack.pc \in {"packing", "publishing", "dropping", "unpublishing"} /\ GiveUp(TRUE)
  BY <1>1, <1>2, GiveUpKeeps DEF Active, Early
<1>3. CASE pack.pc = "fanning" /\ Send("drop", {}, "undoing")
  BY <1>1, <1>3, UndoKeeps DEF Active, Early
<1>4. CASE pack.pc = "undoing" /\ Send("unpublish", {Source(pack.batch)}, "unpublishing")
  <2>1. pack.pc \in Active /\ {Source(pack.batch)} \in SUBSET HostSet
    BY <1>4, SourceType DEF IInv, PackFollows, Active
  <2> QED
    BY <1>1, <1>4, <2>1, UndoKeeps
<1>5. CASE pack.pc = "preparing" /\ GiveUp(FALSE)
  BY <1>1, <1>5, GiveUpKeeps DEF Active, Early
<1>6. CASE pack' = [pack EXCEPT !.pc = "ended"] /\ UNCHANGED <<calls, release>>
  BY <1>1, <1>6, PackMoves, Types DEF IInv, PackPcs, ownVars, Active, Early
<1> QED
  BY <1>2, <1>3, <1>4, <1>5, <1>6 DEF PackInterrupted


-----------------------------------------------------------------------------
(* The training stage and the end keep the invariant.                      *)

LEMMA BackgroundShrinks ==
    ASSUME TypeOK, NEW bs \in SUBSET background
    PROVE  IsFiniteSet(bs) /\ Cardinality(bs) \in Nat /\ Cardinality(bs) <= Slots
<1>1. topology.batches \in Nat
  BY PackedAssumption DEF TypeOK
<1>2. IsFiniteSet(Batches)
  BY <1>1, FS_Interval DEF Batches
<1>3. IsFiniteSet(background)
  BY <1>2, FS_Subset DEF TypeOK
<1>4. IsFiniteSet(bs) /\ Cardinality(bs) <= Cardinality(background)
  BY <1>3, FS_Subset
<1>5. Cardinality(bs) \in Nat /\ Cardinality(background) \in Nat
  BY <1>3, <1>4, FS_CardinalityType
<1>6. Slots \in Nat /\ Cardinality(background) <= Slots
  BY DEF Slots, TypeOK
<1> QED
  BY <1>4, <1>5, <1>6

LEMMA StageQuiet ==
    ASSUME IInv, UNCHANGED <<hostVars, calls, live, pack, release>>
    PROVE  StoresFollow' /\ SettledStay({}) /\ PackFollows'
<1>1. StoresFollow' /\ SettledStay({})
  BY QuietStep
<1>2. PackFollows'
  BY PackFollowsStays DEF hostVars, IInv, PackFollows
<1> QED
  BY <1>1, <1>2

(* The stage changes its program counter alone.                            *)
LEMMA TrainMoves ==
    ASSUME IInv, UNCHANGED <<hostVars, calls, live, pack, queue, release, runtime>>,
           NEW pc \in TrainPcs, train' = [train EXCEPT !.pc = pc],
           train.pc \notin {"ended", "failed"},
           pc \in {"training", "finishing"} => train.pc \in {"training", "finishing"},
           background' \subseteq background, stopping' \in BOOLEAN
    PROVE  IInv'
<1>1. StoresFollow' /\ SettledStay({}) /\ PackFollows'
  BY StageQuiet
<1>2. /\ train' \in [pc : TrainPcs, batch : 0..topology.batches]
      /\ train'.pc = pc /\ train'.batch = train.batch
  BY Types DEF IInv
<1>3. HandsOver'
  <2>1. runtime = "open"
    BY DEF IInv, HandsOver
  <2>2. queue # None => queue \in Batches /\ queue = pack.batch
                        /\ pack.pc \in {"handoff", "ended"} /\ Settled(queue)
    BY Types DEF IInv, HandsOver
  <2>3. queue # None => Settled(queue)'
    <3>1. queue' = queue
      OBVIOUS
    <3> QED
      BY <1>1, <2>2, <3>1 DEF SettledStay
  <2>4. pc \in {"training", "finishing"} =>
           /\ train.batch \in Batches /\ Settled(train.batch)
           /\ train.batch <= pack.batch
           /\ train.batch = pack.batch => queue = None /\ pack.pc \notin Active
    BY DEF IInv, HandsOver
  <2>5. pc \in {"training", "finishing"} => Settled(train.batch)'
    BY <1>1, <1>2, <2>4 DEF SettledStay
  <2>6. Batches' = Batches
    BY DEF Batches, hostVars
  <2> HIDE DEF Settled
  <2> QED
    BY <1>2, <2>1, <2>2, <2>3, <2>4, <2>5, <2>6 DEF HandsOver
<1>4. TypeOK'
  <2>1. background' \subseteq Batches /\ Cardinality(background') <= Slots
    BY BackgroundShrinks, Types DEF IInv
  <2> QED
    BY <1>2, <2>1, TypeKept, Types DEF IInv, hostVars
<1> QED
  BY <1>1, <1>3, <1>4 DEF IInv

(* The stage releases a batch it has, or the one it is offered.            *)
LEMMA StageReleases ==
    ASSUME IInv, NEW b \in Batches, Settled(b), b = pack.batch => pack.pc \notin Active,
           StartRelease({b}, FALSE), UNCHANGED <<hostVars, live, pack, runtime>>,
           queue' = IF queue = b THEN None ELSE queue,
           train' \in [pc : TrainPcs \ {"training", "finishing"}, batch : 0..topology.batches],
           runtime = "open",
           background' \subseteq Batches, Cardinality(background') <= Slots,
           stopping' \in BOOLEAN
    PROVE  IInv'
<1> USE DEF hostVars
<1>1. {b} \in SUBSET live /\ \A b2 \in {b}, h \in HostSet : ~Inserts(h, b2)
  BY DEF Settled, Untouched
<1>2. /\ StoresFollow' /\ SettledStay({b})
      /\ calls' \subseteq Calls /\ release' \in [Batches -> Releases]
  BY <1>1, ReleaseStep
<1>3. TypeOK /\ {b} \in SUBSET Batches
  BY DEF IInv
<1>4. /\ \A c \in calls' : \/ c \in calls
                           \/ /\ c.op = (IF FALSE THEN "fence" ELSE "reclaim")
                              /\ c.batch \in {b} /\ c \in Calls
      /\ \A b2 \in Batches \ {b} : release'[b2] = release[b2]
  BY <1>3, StartedCalls DEF Started
<1>5. PackFollows'
  <2>1. pack.pc \in Active => pack.batch \in live /\ pack.batch \in Batches /\ pack.batch # b
    BY DEF IInv, PackFollows
  <2> QED
    BY <1>4, <2>1, PackFollowsStays
<1>6. train'.pc \notin {"training", "finishing"}
  OBVIOUS
<1>7. HandsOver'
  <2>1. queue' # None => queue' = queue /\ queue \in Batches \ {b} /\ queue = pack.batch
                         /\ pack.pc \in {"handoff", "ended"} /\ Settled(queue)
    BY Types DEF IInv, HandsOver
  <2>2. queue' # None => Settled(queue)'
    BY <1>2, <2>1 DEF SettledStay
  <2>3. runtime # "open" => queue = None /\ pack.pc = "ended" /\ train.pc \in {"ended", "failed"}
    BY DEF IInv, HandsOver
  <2> HIDE DEF Settled
  <2> QED
    BY <1>6, <2>1, <2>2, <2>3 DEF HandsOver
<1>8. TypeOK'
  <2>1. train' \in [pc : TrainPcs, batch : 0..topology.batches]
    BY Types DEF IInv
  <2>2. queue' \in Batches \cup {None}
    BY Types DEF IInv
  <2> QED
    BY <1>2, <2>1, <2>2, TypeKept, Types DEF IInv
<1> QED
  BY <1>2, <1>5, <1>7, <1>8 DEF IInv

LEMMA QueueIsSettled ==
    ASSUME IInv, queue # None
    PROVE  /\ queue \in Batches /\ Settled(queue) /\ queue \in 0..topology.batches
           /\ queue = pack.batch /\ pack.pc \notin Active /\ runtime = "open"
<1>1. /\ queue \in Batches /\ Settled(queue) /\ queue = pack.batch
      /\ pack.pc \in {"handoff", "ended"} /\ runtime = "open"
  BY Types DEF IInv, HandsOver
<1>2. queue \in 0..topology.batches
  BY <1>1, Types DEF IInv
<1> QED
  BY <1>1, <1>2 DEF Active, Early

LEMMA TrainStartKeeps ==
    ASSUME IInv, TrainStart
    PROVE  IInv'
<1> USE DEF hostVars
<1>1. /\ train.pc = "idle" /\ queue # None /\ queue' = None
      /\ background' = background \ EndedTasks
      /\ UNCHANGED <<topology, entries, fenced, published, live, pack, runtime, stopping>>
  BY DEF TrainStart, trainRest
<1>2. /\ background' \subseteq background /\ background' \subseteq Batches
      /\ Cardinality(background') <= Slots /\ stopping' \in BOOLEAN
  BY <1>1, BackgroundShrinks, Types DEF IInv
<1>3. CASE train' = [pc |-> "draining", batch |-> queue] /\ StartRelease({queue}, FALSE)
  <2>1. train' \in [pc : TrainPcs \ {"training", "finishing"}, batch : 0..topology.batches]
    BY <1>1, <1>3, QueueIsSettled DEF TrainPcs
  <2>2. /\ queue \in Batches /\ Settled(queue) /\ pack.pc \notin Active /\ runtime = "open"
    BY <1>1, QueueIsSettled
  <2> QED
    BY <1>1, <1>2, <1>3, <2>1, <2>2, StageReleases
<1>4. CASE train' = [pc |-> "training", batch |-> queue] /\ UNCHANGED <<calls, release>>
  <2>1. StoresFollow' /\ SettledStay({}) /\ PackFollows'
    BY <1>1, <1>4, StageQuiet
  <2>2. /\ train' \in [pc : TrainPcs, batch : 0..topology.batches]
        /\ train'.pc = "training" /\ train'.batch = queue
    BY <1>1, <1>4, QueueIsSettled DEF TrainPcs
  <2>3. HandsOver'
    <3>1. \A b2 \in Batches : Settled(b2) => Settled(b2)'
      BY <2>1 DEF SettledStay
    <3>2. PICK b \in Batches : b = queue /\ Settled(b)'
      BY <1>1, <3>1, QueueIsSettled
    <3>3. Settled(train.batch)'
      BY <2>2, <3>2
    <3>4. /\ Batches' = Batches /\ train'.batch \in Batches /\ train'.batch = pack.batch
          /\ pack.pc \notin Active /\ runtime = "open" /\ train'.batch <= pack.batch
      BY <1>1, <2>2, QueueIsSettled DEF Batches
    <3> HIDE DEF Settled
    <3> QED
      BY <1>1, <2>2, <3>3, <3>4 DEF HandsOver
  <2>4. TypeOK'
    BY <1>1, <1>2, <1>4, <2>2, TypeKept, Types DEF IInv
  <2> QED
    BY <2>1, <2>3, <2>4 DEF IInv
<1> QED
  BY <1>3, <1>4 DEF TrainStart

LEMMA TrainDiscardsKeeps ==
    ASSUME IInv, TrainDiscards
    PROVE  IInv'
<1>1. /\ queue # None /\ queue' = None
      /\ train' = [pc |-> "discarding", batch |-> queue] /\ StartRelease({queue}, FALSE)
      /\ UNCHANGED <<hostVars, live, pack, runtime, background, stopping>>
  BY DEF TrainDiscards, trainRest
<1>2. train' \in [pc : TrainPcs \ {"training", "finishing"}, batch : 0..topology.batches]
  BY <1>1, QueueIsSettled DEF TrainPcs
<1>3. /\ queue \in Batches /\ Settled(queue) /\ pack.pc \notin Active /\ runtime = "open"
  BY <1>1, QueueIsSettled
<1>4. /\ background' \subseteq Batches /\ Cardinality(background') <= Slots
      /\ stopping' \in BOOLEAN
  BY <1>1, Types DEF IInv, Slots
<1> QED
  BY <1>1, <1>2, <1>3, <1>4, StageReleases

LEMMA TrainDiscardedKeeps ==
    ASSUME IInv, TrainDiscarded
    PROVE  IInv'
<1>1. /\ UNCHANGED <<hostVars, live, pack, runtime, calls, queue, release, background>>
      /\ train.pc = "discarding"
      /\ \E pc \in {"idle", "failed"} : train' = [train EXCEPT !.pc = pc]
      /\ stopping' \in BOOLEAN
  BY Types DEF TrainDiscarded, trainRest, IInv
<1>2. PICK pc \in {"idle", "failed"} : train' = [train EXCEPT !.pc = pc]
  BY <1>1
<1> QED
  BY <1>1, <1>2, TrainMoves DEF TrainPcs

LEMMA TrainEndsKeeps ==
    ASSUME IInv, TrainEnds
    PROVE  IInv'
<1>1. /\ UNCHANGED <<hostVars, live, pack, runtime, calls, queue, release, background>>
      /\ train.pc = "training" /\ train' = [train EXCEPT !.pc = "finishing"]
      /\ stopping' \in BOOLEAN /\ "finishing" \in TrainPcs
  BY Types DEF TrainEnds, trainRest, IInv, TrainPcs
<1> QED
  BY <1>1, TrainMoves

LEMMA TrainedIsSettled ==
    ASSUME IInv, train.pc \in {"training", "finishing"}
    PROVE  /\ train.batch \in Batches /\ Settled(train.batch)
           /\ train.batch = pack.batch => pack.pc \notin Active
           /\ train.batch # queue /\ runtime = "open"
<1>1. /\ train.batch \in Batches /\ Settled(train.batch)
      /\ train.batch = pack.batch => queue = None /\ pack.pc \notin Active
      /\ runtime = "open" /\ (queue # None => queue = pack.batch)
  BY DEF IInv, HandsOver
<1>2. queue = None => train.batch # queue
  <2>1. train.batch \in Nat
    BY <1>1, SourceType DEF IInv
  <2> QED
    BY <2>1, PackedAssumption
<1> QED
  BY <1>1, <1>2

LEMMA TrainFailsKeeps ==
    ASSUME IInv, TrainFails
    PROVE  IInv'
<1>1. /\ train.pc = "training" /\ StartRelease({train.batch}, FALSE)
      /\ train' = [train EXCEPT !.pc = "draining"]
      /\ UNCHANGED <<hostVars, live, pack, runtime, queue, background, stopping>>
  BY DEF TrainFails, trainRest
<1>2. train' \in [pc : TrainPcs \ {"training", "finishing"}, batch : 0..topology.batches]
  BY <1>1, Types DEF TrainPcs, IInv
<1>3. /\ train.batch \in Batches /\ Settled(train.batch)
      /\ train.batch = pack.batch => pack.pc \notin Active
      /\ train.batch # queue /\ runtime = "open"
  BY <1>1, TrainedIsSettled
<1>4. /\ background' \subseteq Batches /\ Cardinality(background') <= Slots
      /\ stopping' \in BOOLEAN
  BY <1>1, Types DEF IInv, Slots
<1> QED
  BY <1>1, <1>2, <1>3, <1>4, StageReleases

LEMMA TrainDrainedKeeps ==
    ASSUME IInv, TrainDrained
    PROVE  IInv'
<1>1. /\ UNCHANGED <<hostVars, live, pack, runtime, calls, queue, release>>
      /\ background' = {} /\ train.pc = "draining" /\ train' = [train EXCEPT !.pc = "failed"]
      /\ stopping' \in BOOLEAN /\ "failed" \in TrainPcs
  BY DEF TrainDrained, trainRest, TrainPcs
<1> QED
  BY <1>1, TrainMoves

LEMMA TrainFinishesKeeps ==
    ASSUME IInv, TrainFinishes
    PROVE  IInv'
<1>1. /\ train.pc = "finishing"
      /\ UNCHANGED <<hostVars, live, pack, runtime, queue>>
  BY DEF TrainFinishes, trainRest
<1>2. CASE ReleaseFailed
  <2>1. /\ background' = background \ EndedTasks /\ UNCHANGED <<calls, release>>
        /\ train' = [train EXCEPT !.pc = "failed"] /\ stopping' \in BOOLEAN
        /\ "failed" \in TrainPcs
    BY <1>2 DEF TrainFinishes, TrainPcs
  <2> QED
    BY <1>1, <2>1, TrainMoves
<1>3. CASE ~ReleaseFailed
  <2>1. /\ Cardinality(background \ EndedTasks) < Slots
        /\ background' = (background \ EndedTasks) \cup {train.batch}
        /\ StartRelease({train.batch}, FALSE)
        /\ train' = [train EXCEPT !.pc = "idle"] /\ UNCHANGED stopping
    BY <1>3 DEF TrainFinishes
  <2>2. background' \subseteq Batches
    BY <1>1, <2>1, TrainedIsSettled, Types DEF IInv
  <2>3. Cardinality(background') <= Slots
    <3>1. /\ IsFiniteSet(background \ EndedTasks)
          /\ Cardinality(background \ EndedTasks) \in Nat
      BY BackgroundShrinks DEF IInv
    <3>2. Cardinality(background') \in {Cardinality(background \ EndedTasks),
                                         Cardinality(background \ EndedTasks) + 1}
      BY <2>1, <3>1, FS_AddElement
    <3> QED
      BY <2>1, <3>1, <3>2 DEF Slots
  <2>4. train' \in [pc : TrainPcs \ {"training", "finishing"}, batch : 0..topology.batches]
    BY <2>1, Types DEF TrainPcs, IInv
  <2>5. /\ train.batch \in Batches /\ Settled(train.batch)
        /\ train.batch = pack.batch => pack.pc \notin Active
        /\ train.batch # queue /\ runtime = "open"
    BY <1>1, TrainedIsSettled
  <2>6. stopping' \in BOOLEAN
    BY <2>1, Types DEF IInv
  <2> QED
    BY <1>1, <2>1, <2>2, <2>3, <2>4, <2>5, <2>6, StageReleases
<1> QED
  BY <1>2, <1>3

LEMMA TrainStopsKeeps ==
    ASSUME IInv, TrainStops
    PROVE  IInv'
<1>1. PICK pc \in {"ended", "failed"} : train' = [train EXCEPT !.pc = pc]
  BY DEF TrainStops
<1>2. /\ UNCHANGED <<hostVars, live, pack, runtime, calls, queue, release, background>>
      /\ train.pc = "idle" /\ stopping' \in BOOLEAN /\ pc \in TrainPcs
  BY Types DEF TrainStops, trainRest, IInv, TrainPcs
<1> QED
  BY <1>1, <1>2, TrainMoves

LEMMA DiscardQueuedKeeps ==
    ASSUME IInv, DiscardQueued
    PROVE  IInv'
<1>1. /\ queue # None /\ queue' = None /\ StartRelease({queue}, FALSE)
      /\ UNCHANGED <<hostVars, live, pack, runtime, train, background, stopping>>
      /\ train' \in [pc : TrainPcs \ {"training", "finishing"}, batch : 0..topology.batches]
  BY Types DEF DiscardQueued, trainRest, IInv, TrainPcs
<1>2. /\ queue \in Batches /\ Settled(queue) /\ pack.pc \notin Active /\ runtime = "open"
  BY <1>1, QueueIsSettled
<1>3. /\ background' \subseteq Batches /\ Cardinality(background') <= Slots
      /\ stopping' \in BOOLEAN
  BY <1>1, Types DEF IInv, Slots
<1> QED
  BY <1>1, <1>2, <1>3, StageReleases

LEMMA CloseKeeps ==
    ASSUME IInv, Close
    PROVE  IInv'
<1> USE DEF hostVars
<1>1. /\ train.pc \in {"ended", "failed"} /\ pack.pc = "ended" /\ queue = None
      /\ StartRelease(live, TRUE) /\ background' = {} /\ runtime' = "reclaiming"
      /\ UNCHANGED <<hostVars, live, pack, queue, train, stopping>>
  BY DEF Close
<1>2. /\ StoresFollow' /\ SettledStay(live)
      /\ calls' \subseteq Calls /\ release' \in [Batches -> Releases]
  BY <1>1, ReleaseStep
<1>3. HandsOver'
  BY <1>1 DEF HandsOver
<1>4. PackFollows'
  BY <1>1 DEF PackFollows, Active, Early
<1>5. TypeOK'
  <2>1. background' \subseteq Batches /\ Cardinality(background') <= Slots
    BY <1>1, FS_EmptySet DEF Slots
  <2> QED
    BY <1>1, <1>2, <2>1, TypeKept, Types DEF IInv
<1> QED
  BY <1>2, <1>3, <1>4, <1>5 DEF IInv

LEMMA CloseHostsKeeps ==
    ASSUME IInv, CloseHosts
    PROVE  IInv'
<1>1. /\ entries' = [h \in HostSet |-> {}] /\ published' = [h \in HostSet |-> {}]
      /\ runtime = "reclaiming" /\ runtime' = "closed"
      /\ UNCHANGED <<topology, fenced, calls, live, pack, queue, train, release,
                     background, stopping>>
  BY DEF CloseHosts
<1>2. queue = None /\ pack.pc = "ended" /\ train.pc \in {"ended", "failed"}
  BY <1>1 DEF IInv, HandsOver
<1>3. HostSet' = HostSet /\ Batches' = Batches
  BY <1>1 DEF HostSet, Batches
<1>4. \A h \in HostSet, b \in Batches : Clean(h, b) => Clean(h, b)'
  BY <1>1 DEF Clean, Inserts
<1>5. \A h, b : Inserts(h, b)' <=> Inserts(h, b)
  BY <1>1 DEF Inserts
<1>6. UnlistedAreClean' /\ ReleasedAreClean'
  BY <1>1, <1>3, <1>4 DEF IInv, StoresFollow, UnlistedAreClean, ReleasedAreClean
<1>7. ReclaimsAreLate' /\ LaterAreFresh'
  BY <1>1, <1>3, <1>5 DEF IInv, StoresFollow, ReclaimsAreLate, LaterAreFresh
<1>8. HandsOver' /\ PackFollows'
  BY <1>1, <1>2 DEF HandsOver, PackFollows, Active, Early
<1>9. TypeOK'
  BY <1>1, TypeKept, Types DEF IInv
<1> QED
  BY <1>6, <1>7, <1>8, <1>9 DEF IInv, StoresFollow

LEMMA UnchangedKeeps ==
    ASSUME IInv, UNCHANGED <<hostVars, calls, live, pack, queue, train, release,
                             background, runtime>>, stopping' \in BOOLEAN
    PROVE  IInv'
<1>1. StoresFollow' /\ SettledStay({}) /\ PackFollows'
  BY StageQuiet
<1>2. HandsOver'
  BY <1>1, HandsOverStays DEF hostVars
<1>3. TypeOK'
  BY TypeKept, Types DEF IInv, hostVars
<1> QED
  BY <1>1, <1>2, <1>3 DEF IInv

-----------------------------------------------------------------------------
(* The invariant.                                                          *)

LEMMA InitIInv == Init => IInv
<1> SUFFICES ASSUME Init PROVE IInv
  OBVIOUS
<1>1. TypeOK
  <2>1. topology.batches \in Nat /\ topology \in Topologies
    BY PackedAssumption DEF Init
  <2>2. release \in [Batches -> Releases]
    BY DEF Init, Releases
  <2>3. pack \in [pc : PackPcs, batch : 0..topology.batches, replies : [HostSet -> Replies]]
    BY <2>1 DEF Init, PackPcs, Replies
  <2>4. train \in [pc : TrainPcs, batch : 0..topology.batches]
    BY <2>1 DEF Init, TrainPcs
  <2>5. background \subseteq Batches /\ Cardinality(background) <= Slots
    BY FS_EmptySet DEF Init, Slots
  <2> QED
    BY <2>1, <2>2, <2>3, <2>4, <2>5, Types DEF Init
<1>2. \A h, b : ~Inserts(h, b)
  BY DEF Init, Inserts
<1>3. StoresFollow
  BY <1>2 DEF Init, StoresFollow, UnlistedAreClean, ReleasedAreClean, ReclaimsAreLate,
              LaterAreFresh, Clean
<1>4. PackFollows /\ HandsOver
  BY DEF Init, PackFollows, HandsOver, Active, Early
<1> QED
  BY <1>1, <1>3, <1>4 DEF IInv

LEMMA NextIInv == IInv /\ [Next]_vars => IInv'
<1> SUFFICES ASSUME IInv, [Next]_vars PROVE IInv'
  OBVIOUS
<1>1. ASSUME NEW h \in HostSet, NEW b \in Batches, HostStep(h, b) PROVE IInv'
  BY <1>1, HostPackKeeps, HostPublishKeeps, HostReceiveKeeps, HostUnpublishKeeps,
     HostDropRefKeeps, HostReclaimKeeps DEF HostStep
<1>2. ASSUME NEW b \in Batches, ReleaseEnds(b) PROVE IInv'
  BY <1>2, ReleaseEndsKeeps
<1>3. CASE PackStep
  BY <1>3, PackStartKeeps, PackEndsKeeps, PackPackedKeeps, PackPublishedKeeps,
     PackFannedOutKeeps, PackUndoesKeeps, PackUnpublishedKeeps, PackPreparedKeeps,
     PackHandsOffKeeps, PackReleasedKeeps, PackInterruptedKeeps DEF PackStep
<1>4. CASE TrainStep
  BY <1>4, TrainStartKeeps, TrainDiscardsKeeps, TrainDiscardedKeeps, TrainEndsKeeps,
     TrainFailsKeeps, TrainDrainedKeeps, TrainFinishesKeeps, TrainStopsKeeps DEF TrainStep
<1>5. CASE DiscardQueued \/ Close \/ CloseHosts
  BY <1>5, DiscardQueuedKeeps, CloseKeeps, CloseHostsKeeps
<1>6. CASE Cancel
  BY <1>6, UnchangedKeeps DEF Cancel
<1>7. CASE UNCHANGED vars
  BY <1>7, UnchangedKeeps, Types DEF vars, IInv, hostVars
<1> QED
  BY <1>1, <1>2, <1>3, <1>4, <1>5, <1>6, <1>7 DEF Next, GoesOn

(* Every state of the trainer satisfies the inductive invariant.           *)
THEOREM Invariant == Spec => []IInv
  BY InitIInv, NextIInv, PTL DEF Spec

(* The types, and the limit on the releases that run in the background.    *)
THEOREM TypeCorrect == Spec => []TypeOK
<1>1. IInv => TypeOK
  BY DEF IInv
<1> QED
  BY <1>1, Invariant, PTL

(* A batch that is prepared, offered or trained is in the store of every   *)
(* host, whatever was cancelled, refused or lost before.                   *)
THEOREM BatchWhole == Spec => []BatchIsWhole
<1>1. IInv => BatchIsWhole
  <2> SUFFICES ASSUME IInv, NEW b \in InUse \cup Offered \cup Trained, NEW h \in HostSet
               PROVE  b \in entries[h]
    BY DEF BatchIsWhole
  <2>1. CASE b \in InUse
    BY <2>1 DEF InUse, IInv, PackFollows
  <2>2. CASE b \in Offered
    BY <2>2 DEF Offered, IInv, HandsOver, Settled, Whole
  <2>3. CASE b \in Trained
    BY <2>3 DEF Trained, IInv, HandsOver, Settled, Whole
  <2> QED
    BY <2>1, <2>2, <2>3
<1> QED
  BY <1>1, Invariant, PTL

(* What a store holds, or a host streams, is in _live_batches, for close   *)
(* to reclaim.                                                             *)
THEOREM StorageListed == Spec => []StorageIsListed
<1>1. IInv => StorageIsListed
  BY Types DEF IInv, StoresFollow, UnlistedAreClean, Clean, StorageIsListed
<1> QED
  BY <1>1, Invariant, PTL


-----------------------------------------------------------------------------
(* The room a pack finds: the steps that keep RoomInv.                     *)

Waits == {"idle", "training", "finishing", "discarding", "ended"}

LEMMA HeldIsFinite ==
    ASSUME IInv, NEW bs \in SUBSET Batches
    PROVE  IsFiniteSet(bs) /\ Cardinality(bs) \in Nat
<1>1. topology.batches \in Nat
  BY PackedAssumption DEF TypeOK, IInv
<1>2. IsFiniteSet(Batches)
  BY <1>1, FS_Interval DEF Batches
<1> QED
  BY <1>2, FS_Subset, FS_CardinalityType

(* Fewer batches are held, or as many.                                     *)
LEMMA RoomQuiet ==
    ASSUME IInv, RoomInv, UNCHANGED topology,
           \A b \in Batches : release'[b].state = "done" => b \notin live',
           Packing' => Packing /\ Held' \subseteq Held,
           Packing' /\ train'.pc \in Waits =>
              train.pc \in Waits /\ Held' \cap (background \cup TrainHolds)
                                       \subseteq background' \cup TrainHolds'
    PROVE  RoomInv'
<1>1. Batches' = Batches /\ Slots' = Slots /\ Held \subseteq Batches
  BY Types DEF Batches, Slots, Held, IInv
<1>2. DoneAreUnlisted'
  BY <1>1 DEF DoneAreUnlisted
<1>3. ASSUME Packing' PROVE Cardinality(Held') <= Slots + 1
  <2>1. Held' \subseteq Held /\ Cardinality(Held) <= Slots + 1
    BY <1>3 DEF RoomInv, HeldAreFew
  <2>2. IsFiniteSet(Held) /\ Cardinality(Held) \in Nat
    BY <1>1, HeldIsFinite
  <2>3. Cardinality(Held') <= Cardinality(Held) /\ Cardinality(Held') \in Nat
    BY <2>1, <2>2, FS_Subset, FS_CardinalityType
  <2> QED
    BY <2>1, <2>2, <2>3 DEF Slots
<1>4. ASSUME Packing', train'.pc \in Waits
      PROVE  Held' \subseteq background' \cup TrainHolds'
  BY <1>4 DEF RoomInv, HeldAreFew, Waits
<1>5. HeldAreFew'
  BY <1>1, <1>3, <1>4 DEF HeldAreFew, Waits
<1> QED
  BY <1>2, <1>5 DEF RoomInv

(* A batch joins those that the background releases.                       *)
LEMMA RoomFor ==
    ASSUME IInv, NEW b \in Batches, NEW bs \in SUBSET (background \cup {b})
    PROVE  Cardinality(bs) <= Slots + 1
<1>1. background \subseteq Batches /\ Cardinality(background) <= Slots
  BY DEF IInv, TypeOK
<1>2. IsFiniteSet(background) /\ Cardinality(background) \in Nat
  BY <1>1, HeldIsFinite
<1>3. Cardinality(background \cup {b}) <= Slots + 1
  <2>1. Cardinality(background \cup {b}) \in {Cardinality(background), Cardinality(background) + 1}
    BY <1>2, FS_AddElement
  <2> QED
    BY <1>1, <1>2, <2>1 DEF Slots
<1>4. IsFiniteSet(background \cup {b}) /\ Cardinality(background \cup {b}) \in Nat
  BY <1>1, HeldIsFinite
<1>5. Cardinality(bs) <= Cardinality(background \cup {b}) /\ Cardinality(bs) \in Nat
  BY <1>4, FS_Subset, FS_CardinalityType
<1> QED
  BY <1>3, <1>4, <1>5 DEF Slots

(* The training stage takes the batch it is offered.                       *)
LEMMA RoomTake ==
    ASSUME IInv, RoomInv, queue # None, train.pc = "idle",
           UNCHANGED <<topology, live, pack>>, queue' = None,
           \A b \in Batches : release'[b].state = "done" => release[b].state = "done",
           train'.pc \in {"training", "discarding", "draining"}, train'.batch = queue,
           train'.pc # "draining" => background \cap live \subseteq background'
    PROVE  RoomInv'
<1>1. Batches' = Batches /\ Slots' = Slots
  BY DEF Batches, Slots
<1>2. DoneAreUnlisted'
  BY <1>1 DEF DoneAreUnlisted, RoomInv
<1>3. /\ queue \in Batches /\ pack.pc \notin Active \cup {"releasing"}
      /\ pack.pc \in {"handoff", "ended"}
  BY QueueIsSettled DEF IInv, HandsOver
<1>4. ASSUME Packing' PROVE live \subseteq background \cup {queue}
  <2>1. Packing /\ train.pc \in Waits /\ TrainHolds = {}
    BY <1>3, <1>4 DEF Packing, Waits, TrainHolds
  <2>2. Held = live \ {queue}
    BY <1>3 DEF Held, PackHolds, Offered
  <2> QED
    BY <2>1, <2>2 DEF RoomInv, HeldAreFew, Waits
<1>5. Held' \subseteq live
  BY DEF Held
<1>6. ASSUME Packing' PROVE Cardinality(Held') <= Slots + 1
  BY <1>3, <1>4, <1>5, <1>6, RoomFor
<1>7. ASSUME Packing', train'.pc \in Waits
      PROVE  Held' \subseteq background' \cup TrainHolds'
  <2>1. TrainHolds' = {queue} /\ train'.pc # "draining"
    BY <1>7 DEF TrainHolds, Waits
  <2> QED
    BY <1>4, <1>5, <1>7, <2>1
<1>8. HeldAreFew'
  BY <1>1, <1>6, <1>7 DEF HeldAreFew, Waits
<1> QED
  BY <1>2, <1>8 DEF RoomInv

(* A batch whose release has ended well is not listed.                     *)
LEMMA EndedAreUnlisted ==
    ASSUME RoomInv, IInv, ~ReleaseFailed
    PROVE  background \cap live \subseteq background \ EndedTasks
  BY Types DEF RoomInv, DoneAreUnlisted, ReleaseFailed, EndedTasks, Ended, IInv

LEMMA StartedAreNotDone ==
    ASSUME TypeOK, NEW bs \in SUBSET Batches, NEW fence \in BOOLEAN, StartRelease(bs, fence)
    PROVE  \A b \in Batches : release'[b].state = "done" => release[b].state = "done"
  BY DEF StartRelease

(* A release that ends at a host has not yet ended everywhere.             *)
LEMMA ReclaimKeepsDone ==
    ASSUME IInv, NEW h \in HostSet, NEW b \in Batches, NEW fence \in BOOLEAN,
           HostReclaim(h, b, fence)
    PROVE  \A b2 \in Batches : release'[b2].state = "done" => release[b2].state = "done"
<1> DEFINE freed == [release EXCEPT ![b].pending = @ \ {h}]
<1>1. release' = freed \/ release' = [freed EXCEPT ![b].state = "failing"]
  BY DEF HostReclaim
<1>2. release \in [Batches -> Releases]
  BY Types DEF IInv
<1>3. \A b2 \in Batches : /\ freed[b2].state = release[b2].state
                          /\ \/ [freed EXCEPT ![b].state = "failing"][b2].state = "failing"
                             \/ [freed EXCEPT ![b].state = "failing"][b2] = freed[b2]
  BY <1>2 DEF Releases
<1> QED
  BY <1>1, <1>3

LEMMA HostRoom ==
    ASSUME IInv, RoomInv, NEW h \in HostSet, NEW b \in Batches, HostStep(h, b)
    PROVE  RoomInv'
<1>1. /\ UNCHANGED <<topology, live, queue, train, background>>
      /\ pack'.pc = pack.pc /\ pack'.batch = pack.batch
      /\ \A b2 \in Batches : release'[b2].state = "done" => release[b2].state = "done"
  <2>1. CASE \E fence \in BOOLEAN : HostReclaim(h, b, fence)
    <3>1. \A b2 \in Batches : release'[b2].state = "done" => release[b2].state = "done"
      BY <2>1, ReclaimKeepsDone
    <3> QED
      BY <2>1, <3>1 DEF HostReclaim, ownVars, hostVars
  <2>2. CASE \/ HostPack(h, b) \/ HostPublish(h, b) \/ HostReceive(h, b)
             \/ HostUnpublish(h, b) \/ HostDropRef(h, b)
    <3>1. \E o, pc, reply : Answers(o, h, b, pc, reply)
      BY <2>2 DEF HostPack, HostPublish, HostReceive, HostUnpublish, HostDropRef
    <3>2. UNCHANGED topology
      BY <2>2 DEF HostPack, HostPublish, HostReceive, HostUnpublish, HostDropRef
    <3> QED
      BY <3>1, <3>2, Types DEF Answers, ownVars, IInv
  <2> QED
    BY <2>1, <2>2 DEF HostStep
<1>2. Packing' = Packing /\ Held' = Held /\ TrainHolds' = TrainHolds
  BY <1>1 DEF Packing, Held, PackHolds, Offered, TrainHolds
<1> QED
  BY <1>1, <1>2, RoomQuiet DEF RoomInv, DoneAreUnlisted

LEMMA ReleaseEndsRoom ==
    ASSUME IInv, RoomInv, NEW b \in Batches, ReleaseEnds(b)
    PROVE  RoomInv'
<1>1. /\ UNCHANGED <<topology, queue, train, background, pack>>
      /\ live' \subseteq live
      /\ \A b2 \in Batches : release'[b2].state = "done" => b2 \notin live'
  BY Types DEF ReleaseEnds, Running, hostVars, IInv, RoomInv, DoneAreUnlisted, Releases
<1>2. Packing' = Packing /\ Held' \subseteq Held /\ TrainHolds' = TrainHolds
  BY <1>1 DEF Packing, Held, PackHolds, Offered, TrainHolds
<1> QED
  BY <1>1, <1>2, RoomQuiet

LEMMA PackRoom ==
    ASSUME IInv, RoomInv, PackStep
    PROVE  RoomInv'
<1> USE DEF hostVars, ownVars
<1>1. UNCHANGED <<topology, train, background>>
  BY DEF PackStep, PackStart, PackEnds, PackPacked, PackPublished, PackFannedOut, PackUndoes,
         PackUnpublished, PackPrepared, PackHandsOff, PackReleased, PackInterrupted
<1>2. TrainHolds' = TrainHolds
  BY <1>1 DEF TrainHolds
<1>3. ASSUME pack'.pc = "ended" PROVE ~Packing'
  BY <1>3 DEF Packing
<1>4. TypeOK /\ {pack.batch} \cap Batches \in SUBSET Batches
  BY DEF IInv
<1>5. ASSUME NEW fence \in BOOLEAN, GiveUp(fence), pack.pc \in Active
      PROVE  /\ pack'.pc \in Active \cup {"releasing"} /\ pack'.batch = pack.batch
             /\ \A b \in Batches : release'[b].state = "done" => release[b].state = "done"
  <2>1. {pack.batch} \in SUBSET Batches
    BY <1>5 DEF IInv, PackFollows
  <2>2. \A b \in Batches : release'[b].state = "done" => release[b].state = "done"
    BY <1>4, <1>5, <2>1, StartedAreNotDone DEF GiveUp
  <2> QED
    BY <1>5, <2>2, Types DEF GiveUp, IInv
<1>6. ASSUME NEW o, NEW hs, NEW pc \in Active, Send(o, hs, pc)
      PROVE  /\ pack'.pc \in Active \cup {"releasing"} /\ pack'.batch = pack.batch
             /\ \A b \in Batches : release'[b].state = "done" => release[b].state = "done"
  BY <1>6, Types DEF Send, IInv
<1>7. ASSUME pack.pc \in Active, pack'.pc \in Active \cup {"releasing"},
             pack'.batch = pack.batch, UNCHANGED live,
             \A b \in Batches : release'[b].state = "done" => release[b].state = "done"
      PROVE  RoomInv'
  <2>1. Packing /\ Held' = Held
    BY <1>7 DEF Packing, Held, PackHolds, Active, Early
  <2> QED
    BY <1>1, <1>2, <1>7, <2>1, RoomQuiet DEF RoomInv, DoneAreUnlisted
<1>8. CASE PackStart
  <2>1. PICK b : b = pack.batch + 1
    OBVIOUS
  <2>2. /\ pack.pc = "idle" /\ pack.batch < topology.batches /\ train.pc # "ended"
        /\ pack'.pc = "packing" /\ pack'.batch = b /\ live' = live \cup {b}
        /\ UNCHANGED release
    BY <1>8, <2>1 DEF PackStart
  <2>3. b \in Batches /\ b > pack.batch
    <3>1. pack.batch \in 0..topology.batches /\ topology.batches \in Nat
      BY PackedAssumption, Types DEF IInv, TypeOK
    <3> QED
      BY <2>1, <2>2, <3>1 DEF Batches
  <2>4. b \notin live /\ release[b].state = "none"
    BY <2>3 DEF IInv, StoresFollow, LaterAreFresh
  <2>5. queue = None
    BY <2>2 DEF IInv, HandsOver
  <2>6. Packing /\ Held = live /\ Held' = live
    BY <2>2, <2>4, <2>5 DEF Packing, Held, PackHolds, Offered, Active, Early
  <2> QED
    BY <1>1, <1>2, <2>2, <2>4, <2>6, RoomQuiet DEF RoomInv, DoneAreUnlisted
<1>9. CASE PackPacked
  <2>1. pack.pc = "packing" /\ pack.pc \in Active /\ UNCHANGED queue
    BY <1>9 DEF PackPacked, Active, Early
  <2>2. CASE \/ GiveUp(TRUE) /\ UNCHANGED live
             \/ Send("publish", {Source(pack.batch)}, "publishing") /\ UNCHANGED live
             \/ pack' = [pack EXCEPT !.pc = "preparing"] /\ UNCHANGED <<live, release>>
    <3>1. {"publishing", "preparing"} \subseteq Active
      BY DEF Active, Early
    <3> QED
      BY <2>1, <2>2, <3>1, <1>5, <1>6, <1>7, Types DEF IInv
  <2>3. CASE /\ pack' = [pack EXCEPT !.pc = "idle"] /\ live' = live \ {pack.batch}
             /\ UNCHANGED release
    <3>1. queue = None /\ pack'.pc = "idle"
      BY <2>1, <2>3, Types DEF IInv, HandsOver
    <3>2. Packing /\ Held' = Held
      BY <2>1, <2>3, <3>1 DEF Packing, Held, PackHolds, Offered, Active, Early
    <3> QED
      BY <1>1, <1>2, <2>3, <3>2, RoomQuiet DEF RoomInv, DoneAreUnlisted
  <2> QED
    BY <1>9, <2>2, <2>3 DEF PackPacked
<1>10. CASE PackPublished \/ PackFannedOut
  <2>1. /\ pack.pc \in Active /\ UNCHANGED live
        /\ {"fanning", "dropping", "undoing"} \subseteq Active
    BY <1>10 DEF PackPublished, PackFannedOut, Active, Early
  <2> QED
    BY <1>10, <2>1, <1>5, <1>6, <1>7 DEF PackPublished, PackFannedOut
<1>11. CASE PackUndoes
  <2>1. pack.pc \in Active /\ UNCHANGED live /\ "unpublishing" \in Active
    BY <1>11 DEF PackUndoes, Active
  <2>2. \/ Send("unpublish", {Source(pack.batch)}, "unpublishing")
        \/ UNCHANGED <<pack, release>>
    BY <1>11 DEF PackUndoes
  <2> QED
    BY <2>1, <2>2, <1>6, <1>7
<1>12. CASE PackUnpublished
  <2>1. pack.pc \in Active /\ UNCHANGED live /\ "preparing" \in Active
    BY <1>12 DEF PackUnpublished, Active, Early
  <2>2. \/ GiveUp(TRUE)
        \/ pack' = [pack EXCEPT !.pc = "preparing"] /\ UNCHANGED release
    BY <1>12 DEF PackUnpublished
  <2> QED
    BY <2>1, <2>2, <1>5, <1>7, Types DEF IInv
<1>13. CASE PackPrepared
  <2>1. pack.pc = "preparing" /\ pack.pc \in Active /\ UNCHANGED live
    BY <1>13 DEF PackPrepared, Active, Early
  <2>2. CASE GiveUp(FALSE)
    BY <2>1, <2>2, <1>5, <1>7
  <2>3. CASE /\ queue' = pack.batch /\ pack' = [pack EXCEPT !.pc = "handoff"]
             /\ UNCHANGED release
    <3>1. pack.batch # None
      <4>1. pack.batch \in Nat
        BY <2>1, SourceType DEF IInv, PackFollows
      <4> QED
        BY <4>1, PackedAssumption
    <3>2. pack'.pc = "handoff" /\ queue' # None
      BY <2>3, <3>1, Types DEF IInv
    <3>3. Packing /\ Held' = Held
      BY <2>1, <2>3, <3>2 DEF Packing, Held, PackHolds, Offered, Active, Early
    <3> QED
      BY <1>1, <1>2, <2>1, <2>3, <3>3, RoomQuiet DEF RoomInv, DoneAreUnlisted
  <2> QED
    BY <1>13, <2>2, <2>3 DEF PackPrepared
<1>14. CASE PackHandsOff
  <2>1. /\ pack.pc = "handoff" /\ queue = None /\ pack'.pc = "idle"
        /\ UNCHANGED <<live, queue, release>>
    BY <1>14, Types DEF PackHandsOff, IInv
  <2>2. Packing' = Packing /\ Held' = Held
    BY <1>1, <2>1 DEF Packing, Held, PackHolds, Offered, Active, Early
  <2> QED
    BY <1>1, <1>2, <2>1, <2>2, RoomQuiet DEF RoomInv, DoneAreUnlisted
<1>15. CASE pack' = [pack EXCEPT !.pc = "ended"] /\ UNCHANGED <<live, release>>
  <2>1. ~Packing'
    BY <1>15, <1>3, Types DEF IInv
  <2> QED
    BY <1>1, <1>15, <2>1, RoomQuiet DEF RoomInv, DoneAreUnlisted
<1>16. CASE PackEnds \/ PackReleased
  BY <1>15, <1>16 DEF PackEnds, PackReleased
<1>17. CASE PackInterrupted
  <2>1. {"undoing", "unpublishing"} \subseteq Active /\ UNCHANGED live
    BY <1>17 DEF PackInterrupted, Active
  <2>2. \/ pack.pc \in Active /\ GiveUp(TRUE)
        \/ pack.pc \in Active /\ GiveUp(FALSE)
        \/ pack.pc \in Active /\ Send("drop", {}, "undoing")
        \/ pack.pc \in Active /\ Send("unpublish", {Source(pack.batch)}, "unpublishing")
        \/ pack' = [pack EXCEPT !.pc = "ended"] /\ UNCHANGED release
    BY <1>17 DEF PackInterrupted, Active, Early
  <2> QED
    BY <2>1, <2>2, <1>5, <1>6, <1>7, <1>15
<1> QED
  BY <1>8, <1>9, <1>10, <1>11, <1>12, <1>13, <1>14, <1>16, <1>17 DEF PackStep

LEMMA TrainRoom ==
    ASSUME IInv, RoomInv, TrainStep
    PROVE  RoomInv'
<1> USE DEF hostVars
<1>1. UNCHANGED <<topology, live, pack>>
  BY DEF TrainStep, TrainStart, TrainDiscards, TrainDiscarded, TrainEnds, TrainFails,
         TrainDrained, TrainFinishes, TrainStops, trainRest
<1>2. /\ TypeOK /\ (queue # None => {queue} \in SUBSET Batches)
      /\ (train.pc \in {"training", "finishing"} => {train.batch} \in SUBSET Batches)
  BY QueueIsSettled, TrainedIsSettled DEF IInv
<1>3. CASE TrainStart
  <2>1. /\ train.pc = "idle" /\ queue # None /\ queue' = None
        /\ background' = background \ EndedTasks
    BY <1>3 DEF TrainStart
  <2>2. CASE /\ ReleaseFailed /\ train' = [pc |-> "draining", batch |-> queue]
             /\ StartRelease({queue}, FALSE)
    <3>1. \A b \in Batches : release'[b].state = "done" => release[b].state = "done"
      BY <1>2, <2>1, <2>2, StartedAreNotDone
    <3> QED
      BY <1>1, <2>1, <2>2, <3>1, RoomTake
  <2>3. CASE /\ ~ReleaseFailed /\ train' = [pc |-> "training", batch |-> queue]
             /\ UNCHANGED release
    BY <1>1, <2>1, <2>3, EndedAreUnlisted, RoomTake
  <2> QED
    BY <1>3, <2>2, <2>3 DEF TrainStart
<1>4. CASE TrainDiscards
  <2>1. /\ train.pc = "idle" /\ queue # None /\ queue' = None /\ background' = background
        /\ train' = [pc |-> "discarding", batch |-> queue] /\ StartRelease({queue}, FALSE)
    BY <1>4 DEF TrainDiscards
  <2>2. \A b \in Batches : release'[b].state = "done" => release[b].state = "done"
    BY <1>2, <2>1, StartedAreNotDone
  <2> QED
    BY <1>1, <2>1, <2>2, RoomTake
<1>5. ASSUME UNCHANGED queue, train.pc # "ended",
             \A b \in Batches : release'[b].state = "done" => release[b].state = "done",
             train'.pc \in Waits =>
                train.pc \in Waits /\ live \cap (background \cup TrainHolds)
                                         \subseteq background' \cup TrainHolds'
      PROVE  RoomInv'
  <2>1. Held' = Held /\ (Packing' => Packing) /\ Held \subseteq live
    BY <1>1, <1>5 DEF Held, PackHolds, Offered, Packing
  <2> QED
    BY <1>1, <1>5, <2>1, RoomQuiet DEF RoomInv, DoneAreUnlisted
<1>6. CASE TrainDiscarded
  <2>1. /\ train.pc = "discarding" /\ UNCHANGED <<queue, release, background>>
        /\ \/ release[train.batch].state = "done" /\ train'.pc = "idle"
           \/ train'.pc = "failed"
    BY <1>6, Types DEF TrainDiscarded, IInv
  <2>2. live \subseteq Batches /\ TrainHolds = {train.batch}
    BY <2>1, Types DEF IInv, TrainHolds
  <2>3. train'.pc \in Waits => train.batch \notin live
    BY <2>1, <2>2 DEF RoomInv, DoneAreUnlisted, Waits
  <2> QED
    BY <1>5, <2>1, <2>2, <2>3 DEF Waits
<1>7. CASE TrainEnds
  <2>1. /\ train.pc = "training" /\ UNCHANGED <<queue, release, background>>
        /\ train'.pc = "finishing" /\ train'.batch = train.batch
    BY <1>7, Types DEF TrainEnds, IInv
  <2> QED
    BY <1>5, <2>1 DEF Waits, TrainHolds
<1>8. CASE TrainFails
  <2>1. /\ train.pc = "training" /\ train'.pc = "draining" /\ UNCHANGED queue
        /\ StartRelease({train.batch}, FALSE)
    BY <1>8, Types DEF TrainFails, IInv
  <2>2. \A b \in Batches : release'[b].state = "done" => release[b].state = "done"
    BY <1>2, <2>1, StartedAreNotDone
  <2> QED
    BY <1>5, <2>1, <2>2 DEF Waits
<1>9. CASE TrainDrained
  <2>1. train.pc = "draining" /\ train'.pc = "failed" /\ UNCHANGED <<queue, release>>
    BY <1>9, Types DEF TrainDrained, IInv
  <2> QED
    BY <1>5, <2>1 DEF Waits
<1>10. CASE TrainFinishes
  <2>1. train.pc = "finishing" /\ UNCHANGED queue
    BY <1>10 DEF TrainFinishes
  <2>2. CASE ReleaseFailed
    <3>1. train'.pc = "failed" /\ UNCHANGED release
      BY <1>10, <2>2, Types DEF TrainFinishes, IInv
    <3> QED
      BY <1>5, <2>1, <3>1 DEF Waits
  <2>3. CASE ~ReleaseFailed
    <3>1. /\ background' = (background \ EndedTasks) \cup {train.batch}
          /\ StartRelease({train.batch}, FALSE) /\ train'.pc = "idle"
      BY <1>10, <2>3, Types DEF TrainFinishes, IInv
    <3>2. \A b \in Batches : release'[b].state = "done" => release[b].state = "done"
      BY <1>2, <2>1, <3>1, StartedAreNotDone
    <3>3. background \cap live \subseteq background \ EndedTasks
      BY <2>3, EndedAreUnlisted
    <3>4. TrainHolds = {train.batch}
      BY <2>1 DEF TrainHolds
    <3> QED
      BY <1>5, <2>1, <3>1, <3>2, <3>3, <3>4 DEF Waits
  <2> QED
    BY <2>2, <2>3
<1>11. CASE TrainStops
  <2>1. /\ train.pc = "idle" /\ UNCHANGED <<queue, release, background>>
    BY <1>11 DEF TrainStops
  <2> QED
    BY <1>5, <2>1 DEF Waits, TrainHolds
<1> QED
  BY <1>3, <1>4, <1>6, <1>7, <1>8, <1>9, <1>10, <1>11 DEF TrainStep

LEMMA EndRoom ==
    ASSUME IInv, RoomInv, DiscardQueued \/ Close \/ CloseHosts
    PROVE  RoomInv'
<1>1. UNCHANGED <<topology, live, pack, train>>
  BY DEF DiscardQueued, Close, CloseHosts, trainRest, hostVars
<1>2. TypeOK /\ live \in SUBSET Batches /\ (queue # None => {queue} \in SUBSET Batches)
  BY QueueIsSettled, Types DEF IInv
<1>3. ~Packing'
  <2>1. CASE DiscardQueued
    <3>1. pack.pc \in {"handoff", "ended"}
      BY <2>1 DEF DiscardQueued, IInv, HandsOver
    <3> QED
      BY <1>1, <2>1, <3>1 DEF DiscardQueued, Packing
  <2>2. CASE Close
    BY <1>1, <2>2 DEF Close, Packing
  <2>3. CASE CloseHosts
    BY <1>1, <2>3 DEF CloseHosts, Packing, IInv, HandsOver
  <2> QED
    BY <2>1, <2>2, <2>3
<1>4. \A b \in Batches : release'[b].state = "done" => release[b].state = "done"
  BY <1>2, StartedAreNotDone DEF DiscardQueued, Close, CloseHosts
<1> QED
  BY <1>1, <1>3, <1>4, RoomQuiet DEF RoomInv, DoneAreUnlisted

LEMMA NextRoom == IInv /\ RoomInv /\ [Next]_vars => RoomInv'
<1> SUFFICES ASSUME IInv, RoomInv, [Next]_vars PROVE RoomInv'
  OBVIOUS
<1>1. ASSUME UNCHANGED <<topology, live, pack, queue, train, release, background>>
      PROVE  RoomInv'
  <2>1. Packing' = Packing /\ Held' = Held /\ TrainHolds' = TrainHolds
    BY <1>1 DEF Packing, Held, PackHolds, Offered, TrainHolds
  <2> QED
    BY <1>1, <2>1, RoomQuiet DEF RoomInv, DoneAreUnlisted
<1>2. CASE Next
  BY <1>1, <1>2, HostRoom, ReleaseEndsRoom, PackRoom, TrainRoom, EndRoom
     DEF Next, GoesOn, Cancel, hostVars
<1>3. CASE UNCHANGED vars
  BY <1>1, <1>3 DEF vars
<1> QED
  BY <1>2, <1>3


-----------------------------------------------------------------------------
(* No pack is refused.                                                     *)

(* What is in a store is held by others, or is the batch that is packed,   *)
(* which has not got there yet.                                            *)
LEMMA ThereIsRoom ==
    ASSUME IInv, RoomInv, Capacity >= Slots + 2, NEW h \in HostSet,
           Inserts(h, pack.batch), pack.pc \in {"packing", "fanning"}
    PROVE  Admission(h, pack.batch) # "refused"
<1>1. pack.batch \notin entries[h]
  BY DEF IInv, PackFollows
<1>2. entries[h] \subseteq Batches /\ entries[h] \subseteq live
  BY Types DEF IInv, StoresFollow, UnlistedAreClean, Clean
<1>3. entries[h] \subseteq Held
  BY <1>1, <1>2 DEF Held, PackHolds, Active, Early
<1>4. Cardinality(Held) <= Slots + 1
  BY DEF RoomInv, HeldAreFew, Packing
<1>5. /\ IsFiniteSet(Held) /\ Cardinality(Held) \in Nat /\ Cardinality(entries[h]) \in Nat
      /\ Cardinality(entries[h]) <= Cardinality(Held)
  <2>1. Held \subseteq Batches
    BY Types DEF Held, IInv
  <2> QED
    BY <1>2, <1>3, <2>1, HeldIsFinite, FS_Subset
<1>6. Capacity \in Nat
  BY PackedAssumption
<1> QED
  BY <1>4, <1>5, <1>6, AdmissionType DEF Slots

LEMMA HostReply ==
    ASSUME IInv, RoomInv, PackIsNeverRefused, Capacity >= Slots + 2,
           NEW h \in HostSet, NEW b \in Batches, HostStep(h, b)
    PROVE  PackIsNeverRefused'
<1> SUFFICES ASSUME NEW h2 \in HostSet', pack'.replies[h2] = "refused" PROVE FALSE
  BY DEF PackIsNeverRefused
<1>1. UNCHANGED topology /\ h2 \in HostSet
  BY DEF HostStep, HostPack, HostPublish, HostReceive, HostUnpublish, HostDropRef, HostReclaim,
         hostVars, HostSet
<1>2. /\ pack.replies[h2] # "refused" /\ TypeOK
      /\ pack \in [pc : PackPcs, batch : 0..topology.batches, replies : [HostSet -> Replies]]
  BY <1>1, Types DEF PackIsNeverRefused, IInv
<1>3. PICK o, pc : /\ Answers(o, h, b, pc, "refused") /\ Admission(h, b) = "refused"
                   /\ \/ o = "pack" /\ pc = {"packing"}
                      \/ o = "receive" /\ pc = {"fanning"}
  <2>1. \A o, pc, reply : Answers(o, h, b, pc, reply) => reply = "refused"
    BY <1>1, <1>2 DEF Answers
  <2>2. CASE HostPack(h, b)
    BY <2>1, <2>2, AdmissionType DEF HostPack
  <2>3. CASE HostReceive(h, b)
    BY <2>1, <2>3, AdmissionType DEF HostReceive
  <2>4. CASE HostPublish(h, b) \/ HostUnpublish(h, b) \/ HostDropRef(h, b)
    BY <2>1, <2>4 DEF HostPublish, HostUnpublish, HostDropRef
  <2>5. CASE \E fence \in BOOLEAN : HostReclaim(h, b, fence)
    BY <1>1, <1>2, <2>5 DEF HostReclaim
  <2> QED
    BY <2>2, <2>3, <2>4, <2>5 DEF HostStep
<1>4. /\ [op |-> o, host |-> h, batch |-> b] \in calls
      /\ pack.pc \in pc /\ pack.batch = b
  BY <1>1, <1>2, <1>3 DEF Answers
<1>5. Inserts(h, b)
  BY <1>3, <1>4 DEF Inserts, Inserting
<1> QED
  BY <1>3, <1>4, <1>5, ThereIsRoom

LEMMA NextReply ==
    IInv /\ RoomInv /\ PackIsNeverRefused /\ Capacity >= Slots + 2 /\ [Next]_vars
       => PackIsNeverRefused'
<1> SUFFICES ASSUME IInv, RoomInv, PackIsNeverRefused, Capacity >= Slots + 2, [Next]_vars
             PROVE  PackIsNeverRefused'
  OBVIOUS
<1>1. TypeOK /\ pack \in [pc : PackPcs, batch : 0..topology.batches,
                          replies : [HostSet -> Replies]]
  BY Types DEF IInv
<1>2. ASSUME UNCHANGED topology,
             \A h \in HostSet : pack'.replies[h] \in {pack.replies[h], "none"}
      PROVE  PackIsNeverRefused'
  BY <1>2 DEF PackIsNeverRefused, HostSet
<1>3. CASE \E h \in HostSet, b \in Batches : HostStep(h, b)
  BY <1>3, HostReply
<1>4. CASE PackStep
  <2>1. UNCHANGED topology
    BY <1>4 DEF PackStep, PackStart, PackEnds, PackPacked, PackPublished, PackFannedOut,
         PackUndoes, PackUnpublished, PackPrepared, PackHandsOff, PackReleased,
         PackInterrupted, hostVars
  <2>2. ASSUME NEW pc, pack' = [pack EXCEPT !.pc = pc]
        PROVE  \A h \in HostSet : pack'.replies[h] = pack.replies[h]
    BY <1>1, <2>2
  <2>3. \A fence : GiveUp(fence) => \A h \in HostSet : pack'.replies[h] = pack.replies[h]
    BY <2>2 DEF GiveUp
  <2>4. ASSUME NEW o, NEW hs, NEW pc, Send(o, hs, pc)
        PROVE  \A h \in HostSet : pack'.replies[h] \in {pack.replies[h], "none"}
    BY <1>1, <2>4 DEF Send
  <2>5. CASE PackStart
    <3>1. \A h \in HostSet : pack'.replies[h] = "none"
      BY <2>5 DEF PackStart
    <3> QED
      BY <1>2, <2>1, <3>1
  <2>6. CASE PackEnds \/ PackHandsOff \/ PackReleased
    BY <1>2, <2>1, <2>2, <2>6 DEF PackEnds, PackHandsOff, PackReleased
  <2>7. CASE PackPacked
    BY <1>2, <2>1, <2>2, <2>3, <2>4, <2>7 DEF PackPacked
  <2>8. CASE PackPublished \/ PackFannedOut
    BY <1>2, <2>1, <2>3, <2>4, <2>8 DEF PackPublished, PackFannedOut
  <2>9. CASE PackUndoes
    BY <1>2, <2>1, <2>4, <2>9 DEF PackUndoes
  <2>10. CASE PackUnpublished \/ PackPrepared
    BY <1>2, <2>1, <2>2, <2>3, <2>10 DEF PackUnpublished, PackPrepared
  <2>11. CASE PackInterrupted
    BY <1>2, <2>1, <2>2, <2>3, <2>4, <2>11 DEF PackInterrupted
  <2> QED
    BY <1>4, <2>5, <2>6, <2>7, <2>8, <2>9, <2>10, <2>11 DEF PackStep
<1>5. CASE UNCHANGED <<topology, pack>>
  BY <1>2, <1>5
<1>6. TrainStep \/ DiscardQueued \/ Close \/ CloseHosts \/ Cancel => UNCHANGED <<topology, pack>>
  BY DEF TrainStep, TrainStart, TrainDiscards, TrainDiscarded, TrainEnds, TrainFails,
         TrainDrained, TrainFinishes, TrainStops, DiscardQueued, Close, CloseHosts, Cancel,
         trainRest, hostVars
<1>7. ASSUME NEW b \in Batches, ReleaseEnds(b) PROVE UNCHANGED <<topology, pack>>
  BY <1>7 DEF ReleaseEnds, hostVars
<1>8. UNCHANGED vars => UNCHANGED <<topology, pack>>
  BY DEF vars
<1> QED
  BY <1>3, <1>4, <1>5, <1>6, <1>7, <1>8 DEF Next, GoesOn

LEMMA InitRoom == Init => RoomInv /\ PackIsNeverRefused
<1> SUFFICES ASSUME Init PROVE RoomInv /\ PackIsNeverRefused
  OBVIOUS
<1>1. Held = {} /\ background = {}
  BY DEF Init, Held
<1>2. Cardinality(Held) <= Slots + 1
  BY <1>1, FS_EmptySet DEF Slots
<1>3. \A b \in Batches : release[b].state = "none"
  BY DEF Init
<1>4. \A h \in HostSet : pack.replies[h] = "none"
  BY DEF Init
<1> QED
  BY <1>1, <1>2, <1>3, <1>4 DEF RoomInv, HeldAreFew, DoneAreUnlisted, PackIsNeverRefused

(* Stores with room for the batches that are released in the background,   *)
(* the one that is trained and the one that is packed never refuse a pack: *)
(* _finish_training_batch and the hand over hold the stages back.          *)
THEOREM PackNeverRefused == Capacity >= Slots + 2 => (Spec => []PackIsNeverRefused)
<1> SUFFICES ASSUME Capacity >= Slots + 2 PROVE Spec => []PackIsNeverRefused
  OBVIOUS
<1> DEFINE J == IInv /\ RoomInv /\ PackIsNeverRefused
<1>1. Init => J
  BY InitIInv, InitRoom
<1>2. J /\ [Next]_vars => J'
  BY NextIInv, NextRoom, NextReply
<1>3. J => PackIsNeverRefused
  OBVIOUS
<1> QED
  BY <1>1, <1>2, <1>3, PTL DEF Spec


=============================================================================
