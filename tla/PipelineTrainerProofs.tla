------------------------ MODULE PipelineTrainerProofs ------------------------
(***************************************************************************)
(* Proofs about PipelineTrainer, for any workers, scenarios, limits,       *)
(* failures and outcomes: its types, that batches are trained fresh and at *)
(* the step they were packed for, and that run loses no scenario.          *)
(*                                                                         *)
(* The inductive invariant IInv says, beside the types,                    *)
(*   OnePlace  that each scenario that was read has a fate or is in the    *)
(*             hands of one worker, queue or stage,                        *)
(*   Shape     what each stage holds at each point of its code,            *)
(*   Steps     how the counters of the steps agree, and that there is no   *)
(*             step without a trained scenario of its own,                 *)
(*   Fresh     that a batch was fresh for the step it was collected for,   *)
(*   Handoff   that the packed queue is empty and nobody still owes the    *)
(*             handoff while the packing stage collects,                   *)
(*   Ends      what the stages have seen of the end of the queue: Ran      *)
(*             always, InOrder while nothing but the end of the source has *)
(*             stopped the pipeline.                                       *)
(* Each part is shown to be kept by the actions of each task in turn.      *)
(***************************************************************************)
EXTENDS PipelineTrainer, SequenceTheorems, FiniteSetTheorems, TLAPS

-----------------------------------------------------------------------------
(* Where the scenarios are.                                                 *)

Of(groups) == {g.scenario : g \in groups}
PackedItems == ToSet(packed) \ {None}
QueueGroups == ToSet(queue) \ {None}

(* No scenario is in the sequence twice.                                    *)
Distinct(q) ==
    \A i, j \in DOMAIN q :
       q[i] # None /\ q[j] # None /\ q[i].scenario = q[j].scenario => i = j

Open == {s \in 1..offset : fate[s] = None}
InWorkers == {worker[w].scenario : w \in Workers} \ {None}
InQueue == Of(QueueGroups)
InPack == Of(pack.batch)
InPacked == Of(UNION {i.batch : i \in PackedItems})
InTrain == Of(train.batch)
Trained == {s \in Scenarios : fate[s] = "trained"}

(* Each scenario that was read has one fate or is in one place.             *)
OnePlace ==
    /\ Open = InWorkers \cup InQueue \cup InPack \cup InPacked \cup InTrain
    /\ \A s \in Scenarios : s > offset => fate[s] = None
    /\ InWorkers \cap (InQueue \cup InPack \cup InPacked \cup InTrain) = {}
    /\ InQueue \cap (InPack \cup InPacked \cup InTrain) = {}
    /\ InPack \cap (InPacked \cup InTrain) = {}
    /\ InPacked \cap InTrain = {}
    /\ \A v, w \in Workers :
          worker[v].scenario = worker[w].scenario => worker[v].scenario = None \/ v = w
    /\ Distinct(queue)

(* What is in hand at each point of the code.                               *)
Shape ==
    /\ mode # "packed" => pack.pc = "ended" /\ packed = <<>> /\ train.pc # "get"
    /\ mode = "packed" => train.pc # "collect"
    /\ mode = "local" => ~finished
    /\ mode # "local" => None \notin ToSet(queue)
    /\ \A w \in Workers : worker[w].scenario = None <=> worker[w].pc \in {"idle", "raised", "ended"}
    /\ IsFiniteSet(pack.batch) /\ IsFiniteSet(train.batch)
    /\ pack.pc \in {"start", "handoff", "ended"} => pack.batch = {}
    /\ pack.pc = "prepare" => pack.batch # {}
    /\ pack.pc = "collect" => Cardinality(pack.batch) < MaxBatch
    /\ train.pc \notin {"collect", "train", "trained"} => train.batch = {}
    /\ train.pc \in {"train", "trained"} => train.batch # {}
    /\ train.pc = "collect" => Cardinality(train.batch) < MaxBatch
    /\ \A i \in PackedItems : i.batch # {} /\ IsFiniteSet(i.batch)
                              /\ Cardinality(i.batch) <= MaxBatch
    /\ ends > 0 => done
    /\ run # "stages" => StagesEnded /\ packed = <<>>

(* The counters of the steps.                                               *)
Steps ==
    /\ version = train.step
    /\ train.pc \in {"train", "trained"} => next = train.step + 1
    /\ train.pc \in {"top", "get", "collect", "wrap", "wrapped", "finish"} => next = train.step
    /\ train.pc \in {"raising", "ended"} => next \in {train.step, train.step + 1}
    /\ train.step <= Cardinality(Trained)
    /\ pack.pc \in {"collect", "prepare"} => pack.step = next
    /\ \A i \in PackedItems : i.step = next
    /\ train.pc \in {"train", "trained"} => train.taken = train.step

Fresh ==
    /\ \A g \in pack.batch : ~Stale(g, pack.step)
    /\ \A i \in PackedItems : \A g \in i.batch : ~Stale(g, i.step)
    /\ \A g \in train.batch : ~Stale(g, train.step)

(* The handoff.                                                             *)
Owes == ~PostDone /\ post.handoff
Handoff ==
    /\ pack.pc \in {"start", "collect", "prepare"} => packed = <<>> /\ ~Owes
    /\ pack.pc = "handoff" /\ packed # <<>> => ~handoff /\ ~Owes
    /\ pack.pc = "handoff" /\ handoff => ~Owes

-----------------------------------------------------------------------------
(* Nothing has stopped the pipeline but the end of its source.              *)
Clean ==
    /\ ~failed /\ cause \in {None, "end"} /\ train.pc # "raising"
    /\ ~(train.pc \in {"wrap", "wrapped", "finish"} /\ train.step >= MaxSteps)

Dry == exhausted /\ \A w \in Workers : worker[w].pc = "ended"

(* The training stage has seen the end of the queue.                        *)
Over == \/ train.pc \in {"train", "trained"} /\ train.sentinel
        \/ train.pc \in {"wrap", "wrapped", "finish", "ended"}

Ahead == \/ pack.pc \in {"prepare", "handoff"} /\ pack.sentinel
         \/ None \in ToSet(packed)
         \/ \E i \in PackedItems : i.sentinel

(* The Nones of the queue come last.                                        *)
EndsLast(q) == \A i, j \in DOMAIN q : i < j /\ q[i] = None => q[j] = None

(* The source ran dry, the workers ended for a reason, and only the end of  *)
(* the training stage requests the stop of a pipeline that is complete.     *)
Ran ==
    /\ exhausted => offset = ScenarioCount
    /\ ~done /\ ~failed => \A w \in Workers : worker[w].pc = "ended" => exhausted
    /\ cause \in {"steps", "end"} => train.pc = "ended"

(* A scenario of a worker that raised is dropped before anyone notices.     *)
Raising == \E w \in Workers : worker[w].pc = "raised"
NoneDropped == Raising \/ \A s \in Scenarios : fate[s] # "dropped"

(* In a pipeline that nothing has stopped, the end of the queue comes after *)
(* every group, and the stages see it in their order.                       *)
InOrder ==
    /\ NoneDropped
    /\ rollouts # "running" \/ finished \/ None \in ToSet(queue) => Dry
    /\ EndsLast(queue)
    /\ Over \/ Ahead => Dry /\ QueueGroups = {}
    /\ Over => /\ packed = <<>>
               /\ \/ pack.pc = "ended"
                  \/ pack.pc = "handoff" /\ pack.sentinel
    /\ pack.pc = "handoff" => /\ None \notin ToSet(packed)
                              /\ \A i \in PackedItems : i.sentinel = pack.sentinel
                              /\ packed = <<>> /\ pack.sentinel => Over
    /\ mode = "packed" /\ pack.pc = "ended" => packed = <<None>> \/ Over
    /\ ~accept => train.pc \in {"finish", "ended"}
    /\ train.pc = "ended" <=> cause = "end"

Ends == Ran /\ (Clean => InOrder)
IInv == TypeOK /\ OnePlace /\ Shape /\ Steps /\ Fresh /\ Handoff /\ Ends

-----------------------------------------------------------------------------
(* Facts of types and operators.                                           *)

Causes == {"signal", "collapse", "steps", "end", "failure"}
Entries == Seq(Groups \cup {None})

(* What the assumptions on the constants say.                               *)
LEMMA Constants ==
    /\ ScenarioCount \in Nat /\ MaxOffs \in [Modes -> SUBSET Nat]
    /\ {MinBatch, MaxBatch, CollapseLimit, MaxSteps} \subseteq Nat \ {0}
    /\ QueueSize \in Nat /\ MinBatch <= MaxBatch
    /\ Workers # {} /\ None \notin Int /\ None \notin Causes /\ None \notin Fates
    /\ None \notin Groups /\ None \notin Prepared /\ None \notin Scenarios
BY PipelineAssumption, NoneAssumption DEF Causes, Scenarios

(* What a request to stop does.                                            *)
LEMMA Requests ==
    ASSUME TypeOK, ends > 0 => done,
           NEW q \in Entries, Len(q) <= QueueSize,
           NEW why \in Causes, RequestStop(why, q)
    PROVE  /\ cause' \in Causes /\ cause' # None
           /\ done => cause' = cause /\ queue' = q /\ ends' = ends
           /\ ~done => cause' = why
           /\ queue' \in Entries /\ Len(queue') <= QueueSize
           /\ queue' \in {q, Append(q, None)}
           /\ mode # "local" => queue' = q
           /\ ends' \in 0..1
<1>1. /\ ends \in 0..1 /\ ends' = IF done \/ queue' # q THEN ends ELSE ends + 1
  <2>1. None \in Groups \cup {None}
    OBVIOUS
  <2>2. Append(q, None) # q
    BY <2>1, AppendProperties, LenProperties DEF Entries
  <2> QED
    BY <2>2 DEF RequestStop, TypeOK
<1>2. None \in Groups \cup {None} /\ Len(q) \in Nat /\ QueueSize \in Nat
  BY LenProperties, Constants DEF Entries
<1>3. Append(q, None) \in Entries /\ Len(Append(q, None)) = Len(q) + 1
  BY <1>2, AppendProperties DEF Entries
<1>4. cause \in Causes \cup {None}
  BY DEF TypeOK, Causes
<1> QED
  BY <1>1, <1>2, <1>3, <1>4, Constants DEF RequestStop, done

(* The discarding of what is prepared.                                     *)
LEMMA Discards ==
    ASSUME TypeOK, DiscardPrepared
    PROVE  /\ packed' = <<>>
           /\ handoff' \in BOOLEAN
           /\ fate' = [s \in Scenarios |-> IF s \in InPacked THEN "dropped" ELSE fate[s]]
           /\ PackedItems = {} => handoff' = handoff
           /\ handoff' => handoff \/ PackedItems # {}
<1>1. {i \in ToSet(packed) : i # None} = PackedItems
  BY DEF PackedItems
<1>2. handoff' = (handoff \/ PackedItems # {}) /\ handoff \in BOOLEAN
  BY <1>1 DEF DiscardPrepared, TypeOK
<1>3. fate' = [s \in Scenarios |-> IF s \in InPacked THEN "dropped" ELSE fate[s]]
  BY <1>1 DEF DiscardPrepared, Settle, InPacked, Of
<1> QED
  BY <1>2, <1>3 DEF DiscardPrepared

(* The packed queue holds at most one item.                                *)
LEMMA PackedCases ==
    ASSUME packed \in Seq(Prepared \cup {None}), Len(packed) <= 1
    PROVE  /\ packed = <<>> => PackedItems = {} /\ ToSet(packed) = {}
           /\ packed # <<>> => /\ Head(packed) \in Prepared \cup {None}
                               /\ ToSet(packed) = {Head(packed)}
                               /\ PackedItems = {Head(packed)} \ {None}
                               /\ packed = <<Head(packed)>>
<1>1. CASE packed = <<>>
  BY <1>1 DEF PackedItems, ToSet
<1>2. CASE packed # <<>>
  <2>1. Len(packed) = 1 /\ DOMAIN packed = 1..1
    BY <1>2, EmptySeq, LenProperties
  <2>2. Head(packed) = packed[1] /\ Head(packed) \in Prepared \cup {None}
    BY <1>2, <2>1, HeadTailProperties
  <2>3. ToSet(packed) = {Head(packed)}
    BY <2>1, <2>2 DEF ToSet
  <2>4. packed = <<Head(packed)>>
    BY <2>1, <2>2
  <2> QED
    BY <1>2, <2>2, <2>3, <2>4 DEF PackedItems
<1> QED
  BY <1>1, <1>2

-----------------------------------------------------------------------------
(* What a round of _collect_batch takes from the queue.                    *)

LeftGroups(batch) == ToSet(Left(batch)) \ {None}

(* A round of _collect_batch takes the head of the queue, at most GetCount. *)
LEMMA Gets ==
    ASSUME TypeOK, NEW b, IsFiniteSet(b), Cardinality(b) < MaxBatch
    PROVE  /\ Cardinality(b) \in Nat /\ GetCount(b) \in Nat \ {0}
           /\ GetCount(b) <= MaxBatch - Cardinality(b)
           /\ Len(Got(b)) \in 0..Len(queue) /\ Len(Got(b)) <= GetCount(b)
           /\ Len(Got(b)) = Len(queue) \/ Len(Got(b)) = GetCount(b)
           /\ Got(b) \in Entries /\ DOMAIN Got(b) = 1..Len(Got(b))
           /\ \A i \in 1..Len(Got(b)) : Got(b)[i] = queue[i]
           /\ Left(b) \in Entries /\ DOMAIN Left(b) = 1..Len(Left(b))
           /\ Len(Left(b)) = Len(queue) - Len(Got(b))
           /\ \A i \in 1..Len(Left(b)) : Left(b)[i] = queue[Len(Got(b)) + i]
<1>1. Cardinality(b) \in Nat /\ MinBatch \in Nat \ {0} /\ MaxBatch \in Nat \ {0} /\ MinBatch <= MaxBatch
  BY FS_CardinalityType, Constants
<1>2. GetCount(b) \in Nat \ {0} /\ GetCount(b) <= MaxBatch - Cardinality(b)
  BY <1>1 DEF GetCount, MustWait
<1>3. queue \in Entries /\ Len(queue) \in Nat /\ DOMAIN queue = 1..Len(queue)
      /\ \A i \in 1..Len(queue) : queue[i] \in Groups \cup {None}
  BY LenProperties, ElementOfSeq DEF TypeOK, Entries
<1> DEFINE L == Len(queue)
           n == Smaller(GetCount(b), L)
<1>4. n \in 0..L /\ n <= GetCount(b) /\ (n = L \/ n = GetCount(b))
  BY <1>2, <1>3 DEF Smaller
<1>5. Got(b) = SubSeq(queue, 1, n)
  BY DEF Got
<1>3a. L \in Nat /\ L = Len(queue) /\ \A i \in 1..L : queue[i] \in Groups \cup {None}
  BY <1>3
<1> HIDE DEF n, L
<1>6. /\ Got(b) \in Entries /\ Len(Got(b)) = n
      /\ \A i \in 1..n : Got(b)[i] = queue[i]
  <2>1. \A i \in 1..n : queue[i] \in Groups \cup {None}
    BY <1>3a, <1>4
  <2>2. /\ SubSeq(queue, 1, n) \in Seq(Groups \cup {None})
        /\ Len(SubSeq(queue, 1, n)) = IF 1 <= n THEN n - 1 + 1 ELSE 0
        /\ \A i \in 1 .. n - 1 + 1 : SubSeq(queue, 1, n)[i] = queue[1 + i - 1]
    BY <1>4, <2>1, SubSeqProperties
  <2> QED
    BY <1>4, <1>5, <2>2 DEF Entries
<1>7. Left(b) = SubSeq(queue, n + 1, L)
  BY <1>3a, <1>6 DEF Left
<1>8. /\ Left(b) \in Entries /\ Len(Left(b)) = L - n
      /\ \A i \in 1..L - n : Left(b)[i] = queue[n + i]
  <2>1. \A i \in n + 1..L : queue[i] \in Groups \cup {None}
    BY <1>3a, <1>4
  <2>2. /\ SubSeq(queue, n + 1, L) \in Seq(Groups \cup {None})
        /\ Len(SubSeq(queue, n + 1, L))
              = IF n + 1 <= L THEN L - (n + 1) + 1 ELSE 0
        /\ \A i \in 1 .. L - (n + 1) + 1 :
              SubSeq(queue, n + 1, L)[i] = queue[n + 1 + i - 1]
    BY <1>3a, <1>4, <2>1, SubSeqProperties
  <2>3. n \in Nat /\ L \in Nat /\ n <= L
    BY <1>3a, <1>4
  <2>4. Len(Left(b)) = L - n
    BY <1>7, <2>2, <2>3
  <2>5. \A i \in 1..L - n : Left(b)[i] = queue[n + i]
    <3> SUFFICES ASSUME NEW i \in 1..L - n PROVE Left(b)[i] = queue[n + i]
      OBVIOUS
    <3>1. i \in 1..L - (n + 1) + 1 /\ n + 1 + i - 1 = n + i
      BY <2>3
    <3> QED
      BY <1>7, <2>2, <3>1
  <2> QED
    BY <1>7, <2>2, <2>4, <2>5 DEF Entries
<1>9. DOMAIN Got(b) = 1..Len(Got(b)) /\ DOMAIN Left(b) = 1..Len(Left(b))
  BY <1>6, <1>8, LenProperties DEF Entries
<1> QED
  BY <1>1, <1>2, <1>3a, <1>4, <1>6, <1>8, <1>9

(* The groups taken and those left are different ones.                     *)
LEMMA Parts ==
    ASSUME TypeOK, OnePlace, NEW b, IsFiniteSet(b), Cardinality(b) < MaxBatch
    PROVE  /\ QueueGroups = Items(b) \cup LeftGroups(b)
           /\ Items(b) \subseteq Groups /\ LeftGroups(b) \subseteq Groups
           /\ None \in ToSet(Left(b)) => None \in ToSet(queue)
           /\ \A g \in Items(b), h \in Items(b) : g.scenario = h.scenario => g = h
           /\ \A g \in Items(b), h \in LeftGroups(b) : g.scenario # h.scenario
           /\ Distinct(Left(b))
<1> DEFINE n == Len(Got(b))
           L == Len(queue)
<1>1. /\ n \in 0..L /\ DOMAIN Got(b) = 1..n
      /\ \A i \in 1..n : Got(b)[i] = queue[i]
      /\ DOMAIN Left(b) = 1..Len(Left(b)) /\ Len(Left(b)) = L - n
      /\ \A i \in 1..Len(Left(b)) : Left(b)[i] = queue[n + i]
      /\ Got(b) \in Entries /\ Left(b) \in Entries
  BY Gets
<1>2. L \in Nat /\ DOMAIN queue = 1..L
      /\ \A i \in 1..L : queue[i] \in Groups \cup {None}
  BY LenProperties, ElementOfSeq DEF TypeOK
<1>3. \A i, j \in 1..L :
         /\ queue[i] # None /\ queue[j] # None
         /\ queue[i].scenario = queue[j].scenario
         => i = j
  BY <1>2 DEF OnePlace, Distinct
<1> HIDE DEF n, L
<1>4. \A x : x \in ToSet(Got(b)) <=> \E i \in 1..n : x = queue[i]
  BY <1>1 DEF ToSet
<1>5. \A x : x \in ToSet(Left(b)) <=> \E i \in n + 1..L : x = queue[i]
  <2>1. ASSUME NEW i \in n + 1..L PROVE queue[i] \in ToSet(Left(b))
    <3>1. i - n \in 1..Len(Left(b)) /\ n + (i - n) = i
      BY <1>1, <1>2
    <3> QED
      BY <1>1, <3>1 DEF ToSet
  <2>2. ASSUME NEW i \in 1..Len(Left(b)) PROVE n + i \in n + 1..L /\ Left(b)[i] = queue[n + i]
    BY <1>1, <1>2
  <2> QED
    BY <1>1, <2>1, <2>2 DEF ToSet
<1>6. \A x : x \in ToSet(queue) <=> \E i \in 1..L : x = queue[i]
  BY <1>2 DEF ToSet
<1>7. \A i \in 1..L : i \in 1..n \/ i \in n + 1..L
  BY <1>1, <1>2
<1>8. 1..n \subseteq 1..L /\ n + 1..L \subseteq 1..L /\ (1..n) \cap (n + 1..L) = {}
  BY <1>1, <1>2
<1>9. QueueGroups = Items(b) \cup LeftGroups(b)
  BY <1>4, <1>5, <1>6, <1>7, <1>8 DEF QueueGroups, Items, LeftGroups
<1>10. Items(b) \subseteq Groups /\ LeftGroups(b) \subseteq Groups
  BY <1>2, <1>4, <1>5, <1>8 DEF Items, LeftGroups
<1>11. \A g \in Items(b), h \in Items(b) : g.scenario = h.scenario => g = h
  BY <1>3, <1>4, <1>8 DEF Items
<1>12. \A g \in Items(b), h \in LeftGroups(b) : g.scenario # h.scenario
  BY <1>3, <1>4, <1>5, <1>8 DEF Items, LeftGroups
<1>13. Distinct(Left(b))
  <2> SUFFICES ASSUME NEW i \in DOMAIN Left(b), NEW j \in DOMAIN Left(b),
                      Left(b)[i] # None, Left(b)[j] # None,
                      Left(b)[i].scenario = Left(b)[j].scenario
               PROVE  i = j
    BY DEF Distinct
  <2>1. n + i \in 1..L /\ n + j \in 1..L /\ Left(b)[i] = queue[n + i] /\ Left(b)[j] = queue[n + j]
    BY <1>1, <1>2
  <2>2. n + i = n + j
    BY <1>3, <2>1
  <2> QED
    BY <1>1, <1>2, <2>2
<1>14. None \in ToSet(Left(b)) => None \in ToSet(queue)
  BY <1>5, <1>6, <1>8
<1> QED
  BY <1>9, <1>10, <1>11, <1>12, <1>13, <1>14

(* What becomes of the groups taken.                                       *)
LEMMA Rounds ==
    ASSUME TypeOK, OnePlace, NEW c, c.batch \in SUBSET Groups, IsFiniteSet(c.batch),
           Cardinality(c.batch) < MaxBatch, NEW flat \in FlatChoices(c)
    PROVE  /\ Kept(c, flat) \in SUBSET Groups /\ IsFiniteSet(Kept(c, flat))
           /\ Cardinality(Kept(c, flat)) \in 0..MaxBatch
           /\ IsFiniteSet(flat) /\ Cardinality(flat) \in Nat
           /\ flat \subseteq Items(c.batch) \ StaleItems(c)
           /\ StaleItems(c) \subseteq Items(c.batch)
           /\ (\A g \in c.batch : ~Stale(g, c.step)) =>
                 \A g \in Kept(c, flat) : ~Stale(g, c.step)
           /\ \A g \in Items(c.batch) : g \in StaleItems(c) \/ g \in flat \/ g \in Kept(c, flat)
           /\ \A g \in Kept(c, flat) :
                 \/ g \in c.batch
                 \/ g \in Items(c.batch) /\ g \notin StaleItems(c) /\ g \notin flat
<1> DEFINE b == c.batch
           n == Len(Got(b))
           I == Items(b)
<1>1. /\ n \in Nat /\ n <= MaxBatch - Cardinality(b) /\ Cardinality(b) \in Nat
      /\ Got(b) \in Entries /\ DOMAIN Got(b) = 1..n
  <2>1. Len(queue) \in Nat
    BY LenProperties DEF TypeOK
  <2> QED
    BY <2>1, Gets, Constants
<1>2. IsFiniteSet(I) /\ Cardinality(I) <= n
  <2>1. ExistsSurjection(1..n, ToSet(Got(b)))
    <3> DEFINE f == [i \in 1..n |-> Got(b)[i]]
    <3>1. f \in Surjection(1..n, ToSet(Got(b)))
      BY <1>1 DEF ToSet, Surjection
    <3> QED
      BY <3>1 DEF ExistsSurjection
  <2>2. IsFiniteSet(ToSet(Got(b))) /\ Cardinality(ToSet(Got(b))) <= n
    BY <1>1, <2>1, FS_NatSurjection, FS_SurjCardinalityBound
  <2>3. I \in SUBSET ToSet(Got(b))
    BY DEF Items
  <2>4. IsFiniteSet(I) /\ Cardinality(I) <= Cardinality(ToSet(Got(b)))
    BY <2>2, <2>3, FS_Subset
  <2>5. Cardinality(I) \in Nat /\ Cardinality(ToSet(Got(b))) \in Nat
    BY <2>2, <2>4, FS_CardinalityType
  <2> QED
    BY <1>1, <2>2, <2>4, <2>5
<1>3. I \subseteq Groups
  BY Parts
<1>4. flat \subseteq I \ StaleItems(c) /\ StaleItems(c) \subseteq I
  BY DEF FlatChoices, StaleItems
<1>5. IsFiniteSet(flat) /\ Cardinality(flat) \in Nat
  BY <1>2, <1>4, FS_Subset, FS_CardinalityType
<1>6. Kept(c, flat) \in SUBSET (b \cup I)
  BY DEF Kept
<1>7. IsFiniteSet(b \cup I) /\ Cardinality(b \cup I) <= MaxBatch
  <2>1. IsFiniteSet(b \cup I)
        /\ Cardinality(b \cup I) = Cardinality(b) + Cardinality(I) - Cardinality(b \cap I)
    BY <1>2, FS_Union
  <2>2. IsFiniteSet(b \cap I)
    BY FS_Intersection
  <2>3. Cardinality(b \cap I) \in Nat /\ Cardinality(I) \in Nat /\ Cardinality(b) \in Nat
    BY <1>2, <2>2, FS_CardinalityType
  <2> QED
    BY <1>1, <1>2, <2>1, <2>3, Constants
<1>8. IsFiniteSet(Kept(c, flat)) /\ Cardinality(Kept(c, flat)) \in 0..MaxBatch
  <2>1. IsFiniteSet(Kept(c, flat)) /\ Cardinality(Kept(c, flat)) <= Cardinality(b \cup I)
    BY <1>6, <1>7, FS_Subset
  <2>2. Cardinality(Kept(c, flat)) \in Nat /\ Cardinality(b \cup I) \in Nat
    BY <1>7, <2>1, FS_CardinalityType
  <2> QED
    BY <1>7, <2>1, <2>2, Constants
<1>9. Kept(c, flat) \in SUBSET Groups
  BY <1>3, <1>6
<1>10. (\A g \in c.batch : ~Stale(g, c.step)) => \A g \in Kept(c, flat) : ~Stale(g, c.step)
  BY DEF Kept, StaleItems
<1>11. \A g \in I : g \in StaleItems(c) \/ g \in flat \/ g \in Kept(c, flat)
  BY DEF Kept
<1>12. \A g \in Kept(c, flat) : g \in b \/ (g \in I /\ g \notin StaleItems(c) /\ g \notin flat)
  BY DEF Kept
<1> QED
  BY <1>4, <1>5, <1>8, <1>9, <1>10, <1>11, <1>12

-----------------------------------------------------------------------------
(* Types.                                                                  *)

WorkerRecords == [pc : {"idle", "gate", "waiting", "rollout", "putting", "raised", "ended"},
                  scenario : Scenarios \cup {None}, born : 0..version]

(* The records of the workers, and what a worker may become.                *)
LEMMA WorkerStates ==
    ASSUME TypeOK, NEW w \in Workers
    PROVE  /\ worker \in [Workers -> WorkerRecords] /\ worker[w] \in WorkerRecords
           /\ version \in Nat /\ version <= ScenarioCount
           /\ offset \in 0..ScenarioCount
           /\ {Idle, Gone, Raised} \subseteq WorkerRecords
           /\ \A x \in WorkerRecords :
                 Become(w, x) => worker' \in [Workers -> WorkerRecords]
<1>1. worker \in [Workers -> WorkerRecords] /\ version \in 0..ScenarioCount
      /\ offset \in 0..ScenarioCount
  BY DEF TypeOK, WorkerRecords
<1>2. version \in Nat /\ version <= ScenarioCount
  BY <1>1, Constants
<1>3. {Idle, Gone, Raised} \subseteq WorkerRecords
  BY <1>2 DEF WorkerRecords, Idle, Gone, Raised
<1> QED
  BY <1>1, <1>2, <1>3 DEF Become

(* A settled scenario keeps the type of fate.                               *)
LEMMA Settles ==
    ASSUME TypeOK, NEW groups, NEW outcome \in Fates, Settle(groups, outcome)
    PROVE  fate' \in [Scenarios -> Fates \cup {None}]
BY DEF Settle, TypeOK

WorkerVars == <<worker, offset, exhausted, failed, queue, fate>>

(* What no step of a worker changes.                                        *)
LEMMA WorkerFrame ==
    ASSUME NEW w \in Workers, WorkerStep(w) \/ FatalRollout(w)
    PROVE  UNCHANGED <<mode, maxOff, version, next, cause, rollouts, ends, finished, packVars,
                       accept, train, post, zeros, run>>
BY DEF WorkerStep, GetNextScenario, WaitForPolicy, FinishRollout, PutOutputGroup,
       CancelWorker, NoticeRaised, FatalRollout, UnchangedByWorkers

(* The steps of the workers keep the types and the other workers.           *)
LEMMA WorkerTypes ==
    ASSUME TypeOK, Shape, NEW w \in Workers, WorkerStep(w) \/ FatalRollout(w)
    PROVE  /\ TypeOK' /\ worker' \in [Workers -> WorkerRecords]
           /\ \A v \in Workers : v # w => worker'[v] = worker[v]
<1>1. /\ worker \in [Workers -> WorkerRecords] /\ worker[w] \in WorkerRecords
      /\ version \in Nat /\ version <= ScenarioCount /\ offset \in 0..ScenarioCount
      /\ Idle \in WorkerRecords /\ Gone \in WorkerRecords /\ Raised \in WorkerRecords
      /\ \A x \in WorkerRecords :
            Become(w, x) => worker' \in [Workers -> WorkerRecords]
      /\ fate \in [Scenarios -> Fates \cup {None}]
      /\ queue \in Entries /\ Len(queue) <= QueueSize
      /\ exhausted \in BOOLEAN /\ failed \in BOOLEAN
  BY WorkerStates DEF TypeOK, Entries
<1>2. ScenarioCount \in Nat
  BY Constants
<1> DEFINE New == /\ worker' \in [Workers -> WorkerRecords]
                  /\ \A v \in Workers : v # w => worker'[v] = worker[v]
                  /\ fate' \in [Scenarios -> Fates \cup {None}]
                  /\ queue' \in Entries /\ Len(queue') <= QueueSize
                  /\ offset' \in 0..ScenarioCount
                  /\ exhausted' \in BOOLEAN /\ failed' \in BOOLEAN
<1>2a. UNCHANGED <<mode, maxOff, version, next, cause, rollouts, ends, finished, pack, packed, handoff,
                   accept, train, post, zeros, run>>
  BY WorkerFrame DEF packVars
<1> SUFFICES New
  BY <1>2a DEF TypeOK, WorkerRecords, Entries
<1>3. ASSUME NEW x \in WorkerRecords, Abandon(w, x)
      PROVE  /\ worker' \in [Workers -> WorkerRecords]
             /\ \A v \in Workers : v # w => worker'[v] = worker[v]
             /\ fate' \in [Scenarios -> Fates \cup {None}]
  <2>1. Become(w, x)
    BY <1>3 DEF Abandon
  <2>2. fate' \in [Scenarios -> Fates \cup {None}]
    <3>1. CASE worker[w].scenario = None
      BY <1>1, <1>3, <3>1 DEF Abandon
    <3>2. CASE worker[w].scenario # None
      <4>1. Settle({worker[w]}, "dropped") /\ "dropped" \in Fates
        BY <1>3, <3>2 DEF Abandon, Fates
      <4> QED
        BY <4>1, Settles
    <3> QED
      BY <3>1, <3>2
  <2> QED
    BY <1>1, <2>1, <2>2 DEF Become
<1>4. ASSUME NEW x \in WorkerRecords, Become(w, x)
      PROVE  /\ worker' \in [Workers -> WorkerRecords]
             /\ \A v \in Workers : v # w => worker'[v] = worker[v]
  BY <1>1, <1>4 DEF Become
<1>5. CASE GetNextScenario(w)
  <2>1. CASE done \/ exhausted \/ offset = ScenarioCount
    BY <1>1, <1>4, <1>5, <2>1 DEF GetNextScenario
  <2>2. CASE ~(done \/ exhausted \/ offset = ScenarioCount)
    <3>1. offset + 1 \in Scenarios /\ offset' = offset + 1 /\ offset + 1 \in 0..ScenarioCount
      BY <1>1, <1>2, <1>5, <2>2 DEF GetNextScenario, Scenarios
    <3>2. [pc |-> "gate", scenario |-> offset + 1, born |-> 0] \in WorkerRecords
      BY <1>1, <3>1 DEF WorkerRecords
    <3> QED
      BY <1>1, <1>4, <1>5, <2>2, <3>1, <3>2 DEF GetNextScenario
  <2> QED
    BY <2>1, <2>2
<1>6. CASE WaitForPolicy(w)
  <2>1. CASE done
    BY <1>1, <1>3, <1>6, <2>1 DEF WaitForPolicy
  <2>2. CASE ~done
    <3> DEFINE x == IF PolicyTooOld THEN [worker[w] EXCEPT !.pc = "waiting"]
                    ELSE [worker[w] EXCEPT !.pc = "rollout", !.born = version]
    <3>1. x \in WorkerRecords
      <4>1. [worker[w] EXCEPT !.pc = "waiting"] \in WorkerRecords
        BY <1>1 DEF WorkerRecords
      <4>2. [worker[w] EXCEPT !.pc = "rollout", !.born = version] \in WorkerRecords
        <5>1. version \in 0..version
          BY <1>1
        <5>2. [worker[w] EXCEPT !.pc = "rollout"] \in WorkerRecords
          BY <1>1 DEF WorkerRecords
        <5> DEFINE y == [worker[w] EXCEPT !.pc = "rollout"]
        <5>3. [worker[w] EXCEPT !.pc = "rollout", !.born = version] = [y EXCEPT !.born = version]
          OBVIOUS
        <5> HIDE DEF y
        <5>4. [y EXCEPT !.born = version] \in WorkerRecords
          BY <5>1, <5>2 DEF y, WorkerRecords
        <5> QED
          BY <5>3, <5>4
      <4> QED
        BY <4>1, <4>2
    <3>2. Become(w, x)
      BY <1>6, <2>2 DEF WaitForPolicy
    <3> HIDE DEF x
    <3> QED
      BY <1>1, <1>4, <1>6, <2>2, <3>1, <3>2 DEF WaitForPolicy
  <2> QED
    BY <2>1, <2>2
<1>7. CASE FinishRollout(w)
  <2>1. [worker[w] EXCEPT !.pc = "putting"] \in WorkerRecords
    BY <1>1 DEF WorkerRecords
  <2>2. CASE Become(w, Idle) /\ Settle({worker[w]}, "errored")
    <3>1. "errored" \in Fates
      BY DEF Fates
    <3>2. fate' \in [Scenarios -> Fates \cup {None}]
      BY <2>2, <3>1, Settles
    <3> QED
      BY <1>1, <1>4, <1>7, <2>2, <3>2 DEF FinishRollout
  <2>3. CASE Abandon(w, Gone)
    BY <1>1, <1>3, <1>7, <2>3 DEF FinishRollout
  <2>4. CASE Become(w, [worker[w] EXCEPT !.pc = "putting"]) /\ UNCHANGED fate
    BY <1>1, <1>4, <1>7, <2>1, <2>4 DEF FinishRollout
  <2> QED
    BY <1>7, <2>2, <2>3, <2>4 DEF FinishRollout
<1>8. CASE PutOutputGroup(w)
  <2>1. CASE Abandon(w, Idle) /\ UNCHANGED queue
    BY <1>1, <1>3, <1>8, <2>1 DEF PutOutputGroup
  <2>2. CASE /\ Len(queue) < QueueSize
             /\ queue' = Append(queue, [scenario |-> worker[w].scenario, born |-> worker[w].born])
             /\ Become(w, Idle) /\ UNCHANGED fate
    <3> DEFINE g == [scenario |-> worker[w].scenario, born |-> worker[w].born]
    <3>1. g \in Groups
      <4>1. worker[w].scenario # None
        BY <1>8 DEF Shape, PutOutputGroup
      <4> QED
        BY <1>1, <4>1 DEF WorkerRecords, Groups
    <3>2. g \in Groups \cup {None}
      BY <3>1
    <3> HIDE DEF g
    <3>3. Append(queue, g) \in Entries /\ Len(Append(queue, g)) = Len(queue) + 1
      BY <1>1, <3>2, AppendProperties DEF Entries
    <3>4. Len(queue) \in Nat /\ QueueSize \in Nat
      BY <1>1, LenProperties, Constants DEF Entries
    <3>5. queue' = Append(queue, g)
      BY <2>2 DEF g
    <3>6. Len(queue') <= QueueSize /\ queue' \in Entries
      BY <2>2, <3>3, <3>4, <3>5
    <3> QED
      BY <1>1, <1>4, <1>8, <2>2, <3>6 DEF PutOutputGroup
  <2> QED
    BY <1>8, <2>1, <2>2 DEF PutOutputGroup
<1>9. CASE CancelWorker(w)
  BY <1>1, <1>3, <1>9 DEF CancelWorker
<1>10. CASE FatalRollout(w)
  BY <1>1, <1>3, <1>10 DEF FatalRollout
<1>11. CASE NoticeRaised(w)
  BY <1>1, <1>4, <1>11 DEF NoticeRaised
<1> QED
  BY <1>5, <1>6, <1>7, <1>8, <1>9, <1>10, <1>11 DEF WorkerStep

(* The end of the rollout stage, a signal and a delivered end keep the      *)
(* types.                                                                   *)
LEMMA StopTypes ==
    ASSUME TypeOK, ends > 0 => done, RolloutStage \/ SignalStop \/ DeliverEnd
    PROVE  TypeOK'
<1>1. /\ queue \in Entries /\ Len(queue) \in Nat /\ Len(queue) <= QueueSize /\ QueueSize \in Nat
      /\ ends \in 0..1
  BY LenProperties, Constants DEF TypeOK, Entries
<1>2. None \in Groups \cup {None}
  OBVIOUS
<1>3. Append(queue, None) \in Entries /\ Len(Append(queue, None)) = Len(queue) + 1
  BY <1>1, <1>2, AppendProperties DEF Entries
<1>4. CASE RolloutStage
  <2>1. /\ queue' \in Entries /\ Len(queue') <= QueueSize
        /\ rollouts' \in {"running", "sentinel", "ended"} /\ finished' \in BOOLEAN
    <3>1. finished \in BOOLEAN
      BY DEF TypeOK
    <3>2. CASE queue' = queue /\ finished' = finished
      BY <1>1, <1>4, <3>1, <3>2 DEF RolloutStage
    <3>3. CASE queue' = queue /\ finished' = TRUE
      BY <1>1, <1>4, <3>3 DEF RolloutStage
    <3>4. CASE queue' = Append(queue, None) /\ finished' = finished /\ Len(queue) < QueueSize
      BY <1>1, <1>3, <1>4, <3>1, <3>4 DEF RolloutStage
    <3> QED
      BY <1>4, <3>2, <3>3, <3>4 DEF RolloutStage
  <2> QED
    BY <1>4, <2>1 DEF RolloutStage, TypeOK, packVars, Entries
<1>5. CASE SignalStop
  <2>1. "signal" \in Causes /\ RequestStop("signal", queue)
    BY <1>5 DEF SignalStop, Causes
  <2>2. /\ cause' \in Causes /\ queue' \in Entries /\ Len(queue') <= QueueSize /\ ends' \in 0..1
    BY <1>1, <2>1, Requests
  <2> QED
    BY <1>5, <2>2 DEF SignalStop, TypeOK, packVars, Entries, Causes
<1>6. CASE DeliverEnd
  <2>1. /\ queue' \in Entries /\ Len(queue') <= QueueSize /\ ends' \in 0..1
        /\ finished' \in BOOLEAN
    <3>1. finished \in BOOLEAN
      BY DEF TypeOK
    <3>2. CASE mode = "local"
      <4>1. queue' = Append(queue, None) /\ Len(queue) < QueueSize /\ finished' = finished
            /\ ends > 0 /\ ends' = ends - 1
        BY <1>6, <3>2 DEF DeliverEnd
      <4>2. ends' \in 0..1
        BY <1>1, <4>1
      <4>3. Len(queue') <= QueueSize
        BY <1>1, <1>3, <4>1
      <4> QED
        BY <1>3, <3>1, <4>1, <4>2, <4>3
    <3>3. CASE mode # "local"
      BY <1>1, <1>6, <3>1, <3>3 DEF DeliverEnd
    <3> QED
      BY <3>2, <3>3
  <2> QED
    BY <1>6, <2>1 DEF DeliverEnd, TypeOK, packVars, Entries
<1> QED
  BY <1>4, <1>5, <1>6

(* What a round of _collect_batch leaves behind.                           *)
LEMMA RoundTypes ==
    ASSUME TypeOK, OnePlace, ends > 0 => done,
           NEW c, c.batch \in SUBSET Groups, IsFiniteSet(c.batch),
           Cardinality(c.batch) < MaxBatch, NEW flat \in FlatChoices(c),
           NEW dropped, CollectRound(c, flat, dropped)
    PROVE  /\ queue' \in Entries /\ Len(queue') <= QueueSize
           /\ cause' \in Causes \cup {None} /\ ends' \in 0..1
           /\ zeros' \in 0..CollapseLimit
           /\ fate' \in [Scenarios -> Fates \cup {None}]
           /\ ~Collapses(flat) => queue' = Left(c.batch) /\ UNCHANGED <<cause, ends>>
           /\ Collapses(flat) =>
                 /\ cause' # None /\ (done => cause' = cause) /\ (~done => cause' = "collapse")
                 /\ queue' \in {Left(c.batch), Append(Left(c.batch), None)}
                 /\ mode # "local" => queue' = Left(c.batch)
<1>1. /\ Left(c.batch) \in Entries /\ Len(Left(c.batch)) = Len(queue) - Len(Got(c.batch))
      /\ Len(Got(c.batch)) \in 0..Len(queue) /\ Len(queue) \in Nat
      /\ Len(queue) <= QueueSize /\ QueueSize \in Nat
  BY Gets, LenProperties, Constants DEF TypeOK, Entries
<1>2. Len(Left(c.batch)) <= QueueSize
  BY <1>1
<1>3. cause \in Causes \cup {None} /\ ends \in 0..1 /\ zeros \in 0..CollapseLimit
  BY DEF TypeOK, Causes
<1>4. zeros' \in 0..CollapseLimit
  <2>1. Cardinality(flat) \in Nat /\ CollapseLimit \in Nat \ {0}
    BY Rounds, Constants
  <2> QED
    BY <1>3, <2>1 DEF CollectRound, Smaller
<1>5. fate' \in [Scenarios -> Fates \cup {None}]
  <2>1. fate \in [Scenarios -> Fates \cup {None}] /\ {"stale", "flat", "dropped"} \subseteq Fates
    BY DEF TypeOK, Fates
  <2> QED
    BY <2>1 DEF CollectRound
<1>6. CASE ~Collapses(flat)
  BY <1>1, <1>2, <1>3, <1>4, <1>5, <1>6 DEF CollectRound
<1>7. CASE Collapses(flat)
  <2>1. RequestStop("collapse", Left(c.batch)) /\ "collapse" \in Causes
    BY <1>7 DEF CollectRound, Causes
  <2>2. /\ cause' \in Causes /\ cause' # None
        /\ done => cause' = cause
        /\ ~done => cause' = "collapse"
        /\ queue' \in Entries /\ Len(queue') <= QueueSize
        /\ queue' \in {Left(c.batch), Append(Left(c.batch), None)}
        /\ mode # "local" => queue' = Left(c.batch)
        /\ ends' \in 0..1
    BY <1>1, <1>2, <2>1, Requests
  <2> QED
    BY <1>4, <1>5, <1>7, <2>2
<1> QED
  BY <1>6, <1>7

(* The records of the packing stage.                                        *)
LEMMA PackRecords ==
    ASSUME TypeOK
    PROVE  /\ pack \in Stage({"start", "collect", "prepare", "handoff", "ended"})
           /\ pack.batch \in SUBSET Groups /\ pack.step \in 0..ScenarioCount
           /\ \A pc \in {"start", "collect", "ended"}, n \in 0..ScenarioCount :
                 At(pc, n) \in Stage({"start", "collect", "prepare", "handoff", "ended"})
           /\ 0 \in 0..ScenarioCount /\ next \in 0..ScenarioCount
           /\ \A pc, n : At(pc, n).batch = {} /\ At(pc, n).pc = pc /\ At(pc, n).step = n
                         /\ At(pc, n).sentinel = FALSE
           /\ IsFiniteSet({}) /\ Cardinality({}) <= MaxBatch
<1>1. \A pc, n : At(pc, n).batch = {} /\ At(pc, n).pc = pc /\ At(pc, n).step = n
                  /\ At(pc, n).sentinel = FALSE
  BY DEF At
<1>2. IsFiniteSet({}) /\ Cardinality({}) = 0 /\ MaxBatch \in Nat
  BY Constants, FS_EmptySet
<1>3. 0 \in 0..ScenarioCount
  BY Constants
<1>4. {} \in SUBSET Groups
  OBVIOUS
<1>5. \A pc \in {"start", "collect", "ended"}, n \in 0..ScenarioCount :
         At(pc, n) \in Stage({"start", "collect", "prepare", "handoff", "ended"})
  BY <1>4 DEF At, Stage
<1>6. /\ pack \in Stage({"start", "collect", "prepare", "handoff", "ended"})
      /\ next \in 0..ScenarioCount
  BY DEF TypeOK
<1>7. pack.batch \in SUBSET Groups /\ pack.step \in 0..ScenarioCount
  BY <1>6 DEF Stage
<1> QED
  BY <1>1, <1>2, <1>3, <1>5, <1>6, <1>7

(* A round leaves a collector with a batch that fits.                      *)
LEMMA CollectedTypes ==
    ASSUME TypeOK, OnePlace, NEW c,
           c.batch \in SUBSET Groups, IsFiniteSet(c.batch),
           Cardinality(c.batch) < MaxBatch, NEW flat \in FlatChoices(c)
    PROVE  LET b == IF Collapses(flat) THEN {} ELSE Kept(c, flat)
           IN  /\ b \in SUBSET Groups /\ IsFiniteSet(b) /\ Cardinality(b) <= MaxBatch
               /\ Cardinality(b) \in Nat
<1>1. /\ Kept(c, flat) \in SUBSET Groups /\ IsFiniteSet(Kept(c, flat))
      /\ Cardinality(Kept(c, flat)) \in 0..MaxBatch
  BY Rounds
<1>2. MaxBatch \in Nat /\ IsFiniteSet({}) /\ Cardinality({}) = 0
  BY Constants, FS_EmptySet
<1> QED
  BY <1>1, <1>2

SawEnd(batch) == IF mode = "local" THEN Got(batch) = <<None>>
                 ELSE finished /\ Left(batch) = <<>>
BatchLeft(c, flat) == IF Collapses(flat) THEN {} ELSE Kept(c, flat)
GoesOn(c, flat) == /\ Items(c.batch) # {} /\ ~SawEnd(c.batch) /\ ~Collapses(flat)
                   /\ Cardinality(Kept(c, flat)) < MaxBatch

PackStates == Stage({"start", "collect", "prepare", "handoff", "ended"})
TrainStates == [pc : {"top", "get", "collect", "train", "trained", "raising",
                      "wrap", "wrapped", "finish", "ended"},
                step : 0..ScenarioCount, batch : SUBSET Groups,
                sentinel : BOOLEAN, taken : 0..ScenarioCount]

(* The packing stage after a round, with its record spelled out.            *)
LEMMA CollectedPack ==
    ASSUME TypeOK, NEW flat
    PROVE  /\ Collected(pack, flat).pc = IF GoesOn(pack, flat) THEN "collect" ELSE "collected"
           /\ Collected(pack, flat).batch = BatchLeft(pack, flat)
           /\ Collected(pack, flat).sentinel = SawEnd(pack.batch)
           /\ Collected(pack, flat).step = pack.step
           /\ Collected(pack, flat)
                 = [pc |-> IF GoesOn(pack, flat) THEN "collect" ELSE "collected",
                    step |-> pack.step, batch |-> BatchLeft(pack, flat),
                    sentinel |-> SawEnd(pack.batch)]
<1> DEFINE on == GoesOn(pack, flat)
           batch == BatchLeft(pack, flat)
           end == SawEnd(pack.batch)
<1>1. Collected(pack, flat) = [pack EXCEPT !.batch = batch, !.sentinel = end,
                                          !.pc = IF on THEN "collect" ELSE "collected"]
  BY DEF Collected, GoesOn, BatchLeft, SawEnd
<1>2. pack \in PackStates
  BY DEF TypeOK, PackStates
<1> HIDE DEF on, batch, end
<1>3. /\ Collected(pack, flat).pc = IF on THEN "collect" ELSE "collected"
      /\ Collected(pack, flat).batch = batch
      /\ Collected(pack, flat).sentinel = end
      /\ Collected(pack, flat).step = pack.step
      /\ Collected(pack, flat) = [pc |-> IF on THEN "collect" ELSE "collected",
                               step |-> pack.step, batch |-> batch, sentinel |-> end]
  BY <1>1, <1>2 DEF PackStates, Stage
<1> QED
  BY <1>3 DEF on, batch, end

(* The training stage after a round, with its record spelled out.           *)
LEMMA CollectedTrain ==
    ASSUME TypeOK, NEW flat
    PROVE  /\ Collected(train, flat).pc = IF GoesOn(train, flat) THEN "collect" ELSE "collected"
           /\ Collected(train, flat).batch = BatchLeft(train, flat)
           /\ Collected(train, flat).sentinel = SawEnd(train.batch)
           /\ Collected(train, flat).step = train.step
           /\ Collected(train, flat).taken = train.taken
           /\ Collected(train, flat)
                 = [pc |-> IF GoesOn(train, flat) THEN "collect" ELSE "collected",
                    step |-> train.step, batch |-> BatchLeft(train, flat),
                    sentinel |-> SawEnd(train.batch), taken |-> train.taken]
<1> DEFINE on == GoesOn(train, flat)
           batch == BatchLeft(train, flat)
           end == SawEnd(train.batch)
<1>1. Collected(train, flat) = [train EXCEPT !.batch = batch, !.sentinel = end,
                                            !.pc = IF on THEN "collect" ELSE "collected"]
  BY DEF Collected, GoesOn, BatchLeft, SawEnd
<1>2. train \in TrainStates
  BY DEF TypeOK, TrainStates
<1> HIDE DEF on, batch, end
<1>3. /\ Collected(train, flat).pc = IF on THEN "collect" ELSE "collected"
      /\ Collected(train, flat).batch = batch
      /\ Collected(train, flat).sentinel = end
      /\ Collected(train, flat).step = train.step
      /\ Collected(train, flat).taken = train.taken
      /\ Collected(train, flat) = [pc |-> IF on THEN "collect" ELSE "collected",
                               step |-> train.step, batch |-> batch, sentinel |-> end, taken |-> train.taken]
  BY <1>1, <1>2 DEF TrainStates
<1> QED
  BY <1>3 DEF on, batch, end

PackNow(pc, flat) == [pc |-> pc, step |-> pack.step, batch |-> BatchLeft(pack, flat),
                      sentinel |-> SawEnd(pack.batch)]
TrainNow(pc, flat) == [pc |-> pc, step |-> train.step, batch |-> BatchLeft(train, flat),
                       sentinel |-> SawEnd(train.batch), taken |-> train.taken]

(* The outcomes of a round of the packing stage.                           *)
PackOutcome(flat) ==
    \/ /\ GoesOn(pack, flat) /\ CollectRound(pack, flat, {})
       /\ pack' = PackNow("collect", flat) /\ packed' = packed
    \/ /\ ~GoesOn(pack, flat) /\ ~accept
       /\ CollectRound(pack, flat, BatchLeft(pack, flat))
       /\ pack' = At("ended", 0) /\ packed' = packed
    \/ /\ ~GoesOn(pack, flat) /\ accept /\ CollectRound(pack, flat, {})
       /\ BatchLeft(pack, flat) = {} /\ packed = <<>>
       /\ pack' = At("ended", 0) /\ packed' = <<None>>
    \/ /\ ~GoesOn(pack, flat) /\ accept /\ CollectRound(pack, flat, {})
       /\ BatchLeft(pack, flat) # {}
       /\ pack' = PackNow("prepare", flat) /\ packed' = packed

(* A round of the packing stage has one of the named outcomes.              *)
LEMMA PackCollects ==
    ASSUME TypeOK, NEW flat,
           LET c == Collected(pack, flat) IN
           /\ CollectRound(pack, flat,
                           IF c.pc = "collected" /\ ~accept THEN c.batch ELSE {})
           /\ IF c.pc = "collect" THEN pack' = c /\ UNCHANGED packed
              ELSE IF ~accept THEN pack' = At("ended", 0) /\ UNCHANGED packed
              ELSE IF c.batch = {}
              THEN /\ packed = <<>> /\ packed' = <<None>>
                   /\ pack' = At("ended", 0)
              ELSE pack' = [c EXCEPT !.pc = "prepare"] /\ UNCHANGED packed
    PROVE  PackOutcome(flat)
<1> DEFINE c == Collected(pack, flat)
           d == IF c.pc = "collected" /\ ~accept THEN c.batch ELSE {}
<1>1. /\ c.pc = IF GoesOn(pack, flat) THEN "collect" ELSE "collected"
      /\ c.batch = BatchLeft(pack, flat)
      /\ c.sentinel = SawEnd(pack.batch) /\ c.step = pack.step
  BY CollectedPack
<1>2. c = [pc |-> c.pc, step |-> c.step, batch |-> c.batch, sentinel |-> c.sentinel]
  BY CollectedPack
<1>3. /\ CollectRound(pack, flat, d)
      /\ IF c.pc = "collect" THEN pack' = c /\ UNCHANGED packed
         ELSE IF ~accept THEN pack' = At("ended", 0) /\ UNCHANGED packed
         ELSE IF c.batch = {}
         THEN /\ packed = <<>> /\ packed' = <<None>>
              /\ pack' = At("ended", 0)
         ELSE pack' = [c EXCEPT !.pc = "prepare"] /\ UNCHANGED packed
  OBVIOUS
<1> HIDE DEF c, d
<1>4. [c EXCEPT !.pc = "prepare"] = PackNow("prepare", flat)
  BY <1>1, <1>2 DEF PackNow
<1>5. CASE GoesOn(pack, flat)
  <2>1. d = {} /\ c = PackNow("collect", flat)
    BY <1>1, <1>2, <1>5 DEF d, PackNow
  <2> QED
    BY <1>1, <1>3, <1>5, <2>1 DEF PackOutcome
<1>6. CASE ~GoesOn(pack, flat) /\ ~accept
  <2>1. d = BatchLeft(pack, flat)
    BY <1>1, <1>6 DEF d
  <2> QED
    BY <1>1, <1>3, <1>6, <2>1 DEF PackOutcome
<1>7. CASE ~GoesOn(pack, flat) /\ accept
  <2>1. d = {}
    BY <1>1, <1>7 DEF d
  <2> QED
    BY <1>1, <1>3, <1>4, <1>7, <2>1 DEF PackOutcome
<1> QED
  BY <1>5, <1>6, <1>7

(* The outcomes of a round of the training stage.                          *)
TrainOutcome(flat) ==
    /\ CollectRound(train, flat, {})
    /\ \/ /\ GoesOn(train, flat)
          /\ train' = TrainNow("collect", flat) /\ next' = next
       \/ /\ ~GoesOn(train, flat) /\ BatchLeft(train, flat) = {}
          /\ train' = TrainNow("wrap", flat) /\ next' = next
       \/ /\ ~GoesOn(train, flat) /\ BatchLeft(train, flat) # {}
          /\ StartTraining(BatchLeft(train, flat), SawEnd(train.batch), train.step)

(* A round of the training stage has one of the named outcomes.             *)
LEMMA TrainCollects ==
    ASSUME TypeOK, NEW flat,
           LET c == Collected(train, flat) IN
           /\ CollectRound(train, flat, {})
           /\ IF c.pc = "collect" THEN train' = c /\ UNCHANGED next
              ELSE IF c.batch = {}
              THEN train' = [c EXCEPT !.pc = "wrap"] /\ UNCHANGED next
              ELSE StartTraining(c.batch, c.sentinel, c.step)
    PROVE  TrainOutcome(flat)
<1> DEFINE c == Collected(train, flat)
<1>1. /\ c.pc = IF GoesOn(train, flat) THEN "collect" ELSE "collected"
      /\ c.batch = BatchLeft(train, flat)
      /\ c.sentinel = SawEnd(train.batch) /\ c.step = train.step
      /\ c.taken = train.taken
  BY CollectedTrain
<1>2. c = [pc |-> c.pc, step |-> c.step, batch |-> c.batch, sentinel |-> c.sentinel,
           taken |-> c.taken]
  BY CollectedTrain
<1>3. /\ CollectRound(train, flat, {})
      /\ IF c.pc = "collect" THEN train' = c /\ UNCHANGED next
         ELSE IF c.batch = {}
         THEN train' = [c EXCEPT !.pc = "wrap"] /\ UNCHANGED next
         ELSE StartTraining(c.batch, c.sentinel, c.step)
  OBVIOUS
<1> HIDE DEF c
<1>4. [c EXCEPT !.pc = "wrap"] = TrainNow("wrap", flat)
  BY <1>1, <1>2 DEF TrainNow
<1>5. CASE GoesOn(train, flat)
  <2>1. c = TrainNow("collect", flat)
    BY <1>1, <1>2, <1>5 DEF TrainNow
  <2> QED
    BY <1>1, <1>3, <1>5, <2>1 DEF TrainOutcome
<1>6. CASE ~GoesOn(train, flat)
  BY <1>1, <1>3, <1>4, <1>6 DEF TrainOutcome
<1> QED
  BY <1>5, <1>6

PackFrame == <<mode, maxOff, version, next, offset, exhausted, worker, rollouts, finished, accept,
               train, post, run>>
TrainFrame == <<mode, maxOff, offset, exhausted, worker, rollouts, pack, run>>

(* The packing stage keeps the types.                                       *)
LEMMA PackTypes ==
    ASSUME TypeOK, OnePlace, Shape, PackStep \/ PackFails
    PROVE  TypeOK'
<1>1. /\ pack \in PackStates /\ pack.batch \in SUBSET Groups /\ pack.step \in 0..ScenarioCount
      /\ \A pc \in {"start", "collect", "ended"}, n \in 0..ScenarioCount : At(pc, n) \in PackStates
      /\ 0 \in 0..ScenarioCount /\ next \in 0..ScenarioCount
      /\ \A pc, n : At(pc, n).batch = {} /\ At(pc, n).pc = pc
      /\ IsFiniteSet({}) /\ Cardinality({}) <= MaxBatch
  BY PackRecords DEF PackStates
<1>2. UNCHANGED PackFrame
  BY DEF PackStep, PackFails, PackStart, PackCollect, PackPrepared, PackUnusable,
         PackHandedOff, CancelPacking, UnchangedByPacking, PackFrame
<1>3. /\ Cardinality(pack.batch) <= MaxBatch /\ packed \in Seq(Prepared \cup {None})
      /\ Len(packed) <= 1 /\ fate \in [Scenarios -> Fates \cup {None}]
      /\ handoff \in BOOLEAN /\ failed \in BOOLEAN /\ accept \in BOOLEAN
      /\ queue \in Entries /\ Len(queue) <= QueueSize
      /\ cause \in Causes \cup {None} /\ ends \in 0..1 /\ zeros \in 0..CollapseLimit
  BY DEF TypeOK, Causes, Entries
<1>4. {"dropped", "unusable"} \subseteq Fates
  BY DEF Fates
<1>5. SUFFICES /\ pack' \in PackStates /\ Cardinality(pack.batch') <= MaxBatch
               /\ packed' \in Seq(Prepared \cup {None}) /\ Len(packed') <= 1
               /\ fate' \in [Scenarios -> Fates \cup {None}]
               /\ handoff' \in BOOLEAN /\ failed' \in BOOLEAN
               /\ queue' \in Entries /\ Len(queue') <= QueueSize
               /\ cause' \in Causes \cup {None} /\ ends' \in 0..1
               /\ zeros' \in 0..CollapseLimit
  BY <1>2 DEF TypeOK, PackFrame, PackStates, Causes, Entries
<1>6. /\ <<None>> \in Seq(Prepared \cup {None}) /\ Len(<<None>>) <= 1
  <2>1. None \in Prepared \cup {None}
    OBVIOUS
  <2> QED
    BY <2>1
<1>7. CASE PackStart
  BY <1>1, <1>3, <1>7 DEF PackStart, stopVars
<1>8. CASE PackCollect
  <2>1. PICK flat \in FlatChoices(pack) :
           LET c == Collected(pack, flat) IN
           /\ CollectRound(pack, flat,
                           IF c.pc = "collected" /\ ~accept THEN c.batch ELSE {})
           /\ IF c.pc = "collect" THEN pack' = c /\ UNCHANGED packed
              ELSE IF ~accept THEN pack' = At("ended", 0) /\ UNCHANGED packed
              ELSE IF c.batch = {}
              THEN /\ packed = <<>> /\ packed' = <<None>>
                   /\ pack' = At("ended", 0)
              ELSE pack' = [c EXCEPT !.pc = "prepare"] /\ UNCHANGED packed
    BY <1>8 DEF PackCollect
  <2>2. UNCHANGED <<failed, handoff>>
    BY <1>8 DEF PackCollect
  <2>3. PackOutcome(flat)
    BY <2>1, PackCollects
  <2>4. PICK dropped : CollectRound(pack, flat, dropped)
    BY <2>1
  <2>5. pack.pc = "collect" /\ IsFiniteSet(pack.batch) /\ Cardinality(pack.batch) < MaxBatch
    BY <2>4 DEF CollectRound, Shape
  <2>6. ends > 0 => done
    BY DEF Shape
  <2>7. /\ queue' \in Entries /\ Len(queue') <= QueueSize
        /\ cause' \in Causes \cup {None} /\ ends' \in 0..1
        /\ zeros' \in 0..CollapseLimit
        /\ fate' \in [Scenarios -> Fates \cup {None}]
    BY <1>1, <2>4, <2>5, <2>6, RoundTypes
  <2>8. BatchLeft(pack, flat) \in SUBSET Groups /\ Cardinality(BatchLeft(pack, flat)) <= MaxBatch
    BY <1>1, <2>5, CollectedTypes DEF BatchLeft
  <2>9. SawEnd(pack.batch) \in BOOLEAN
    BY DEF SawEnd, TypeOK
  <2>10. \A pc \in {"collect", "prepare"} : /\ PackNow(pc, flat) \in PackStates
                                           /\ PackNow(pc, flat).batch = BatchLeft(pack, flat)
    BY <1>1, <2>8, <2>9 DEF PackNow, PackStates, Stage
  <2>11. packed' \in Seq(Prepared \cup {None}) /\ Len(packed') <= 1
    BY <1>1, <1>3, <1>6, <2>3 DEF PackOutcome
  <2>12. pack' \in PackStates /\ Cardinality(pack.batch') <= MaxBatch
    BY <1>1, <2>3, <2>8, <2>10 DEF PackOutcome
  <2> QED
    BY <1>3, <2>2, <2>7, <2>11, <2>12
<1>9. CASE PackPrepared
  <2>1. CASE accept
    <3> DEFINE i == [batch |-> pack.batch, step |-> pack.step, sentinel |-> pack.sentinel]
    <3>1. i \in Prepared \cup {None} /\ [pack EXCEPT !.pc = "handoff", !.batch = {}] \in PackStates
          /\ [pack EXCEPT !.pc = "handoff", !.batch = {}].batch = {}
      BY <1>1 DEF PackStates, Stage, Prepared
    <3> HIDE DEF i
    <3>2. <<i>> \in Seq(Prepared \cup {None}) /\ Len(<<i>>) <= 1
      BY <3>1
    <3>3. packed' = <<i>> /\ handoff' = FALSE /\ UNCHANGED <<fate, failed, zeros, cause, queue, ends>>
          /\ pack' = [pack EXCEPT !.pc = "handoff", !.batch = {}]
      BY <1>9, <2>1 DEF PackPrepared, i, stopVars
    <3>4. pack' \in PackStates /\ Cardinality(pack.batch') <= MaxBatch
      BY <1>1, <3>1, <3>3
    <3>5. packed' \in Seq(Prepared \cup {None}) /\ Len(packed') <= 1 /\ handoff' \in BOOLEAN
      BY <3>2, <3>3
    <3> QED
      BY <1>3, <3>3, <3>4, <3>5
  <2>2. CASE ~accept
    <3>1. fate' \in [Scenarios -> Fates \cup {None}]
      BY <1>4, <1>9, <2>2, Settles DEF PackPrepared
    <3>2. pack' = At("ended", 0) /\ UNCHANGED <<packed, handoff, cause, queue, ends, failed, zeros>>
      BY <1>9, <2>2 DEF PackPrepared, stopVars
    <3>3. pack' \in PackStates /\ Cardinality(pack.batch') <= MaxBatch
      BY <1>1, <3>2
    <3> QED
      BY <1>3, <3>1, <3>2, <3>3
  <2> QED
    BY <2>1, <2>2
<1>10. CASE PackUnusable
  <2>1. fate' \in [Scenarios -> Fates \cup {None}]
    BY <1>4, <1>10, Settles DEF PackUnusable
  <2>2. /\ pack' \in {At("ended", 0), At("start", 0)} /\ packed' \in {packed, <<None>>}
        /\ UNCHANGED <<cause, queue, ends, failed, handoff, zeros>>
    BY <1>10 DEF PackUnusable, stopVars
  <2>3. pack' \in PackStates /\ Cardinality(pack.batch') <= MaxBatch
    BY <1>1, <2>2
  <2>4. packed' \in Seq(Prepared \cup {None}) /\ Len(packed') <= 1
    BY <1>3, <1>6, <2>2
  <2> QED
    BY <1>3, <2>1, <2>2, <2>3, <2>4
<1>11. CASE PackFails \/ CancelPacking
  <2>1. fate' \in [Scenarios -> Fates \cup {None}]
    BY <1>4, <1>11, Settles DEF PackFails, CancelPacking
  <2>2. /\ pack' = At("ended", 0) /\ UNCHANGED <<packed, handoff, cause, queue, ends, zeros>>
        /\ failed' \in {failed, TRUE}
    BY <1>11 DEF PackFails, CancelPacking, stopVars
  <2>3. pack' \in PackStates /\ Cardinality(pack.batch') <= MaxBatch
    BY <1>1, <2>2
  <2> QED
    BY <1>3, <2>1, <2>2, <2>3
<1>12. CASE PackHandedOff
  BY <1>1, <1>3, <1>12 DEF PackHandedOff, stopVars
<1> QED
  BY <1>7, <1>8, <1>9, <1>10, <1>11, <1>12 DEF PackStep

(* Each step trained has used up a scenario.                               *)
LEMMA StepsLeft ==
    ASSUME TypeOK, Steps, NEW s \in Scenarios, fate[s] = None
    PROVE  train.step + 1 <= ScenarioCount
<1>1. IsFiniteSet(Scenarios) /\ Cardinality(Scenarios) = ScenarioCount /\ ScenarioCount \in Nat
  <2>1. ScenarioCount \in Nat /\ 1 \in Int /\ ScenarioCount \in Int
    BY Constants
  <2>2. /\ IsFiniteSet(1..ScenarioCount)
        /\ Cardinality(1..ScenarioCount) = IF 1 > ScenarioCount THEN 0 ELSE ScenarioCount - 1 + 1
    BY <2>1, FS_Interval
  <2> QED
    BY <2>1, <2>2 DEF Scenarios
<1>2. Trained \in SUBSET Scenarios /\ s \notin Trained
  BY Constants DEF Trained, Fates
<1>3. IsFiniteSet(Trained) /\ Cardinality(Trained) \in Nat
  BY <1>1, <1>2, FS_Subset, FS_CardinalityType
<1>4. Cardinality(Trained \cup {s}) = Cardinality(Trained) + 1
  BY <1>2, <1>3, FS_AddElement
<1>5. Trained \cup {s} \in SUBSET Scenarios
  BY <1>2
<1>6. Cardinality(Trained \cup {s}) <= ScenarioCount
  BY <1>1, <1>5, FS_Subset
<1>7. train.step <= Cardinality(Trained) /\ train.step \in Nat
  BY Constants DEF Steps, TypeOK
<1> QED
  BY <1>1, <1>3, <1>4, <1>6, <1>7

(* A scenario in a place has no fate yet.                                  *)
LEMMA Places ==
    ASSUME TypeOK, OnePlace
    PROVE  /\ Open \subseteq Scenarios /\ \A s \in Open : fate[s] = None
           /\ InWorkers \subseteq Open /\ InQueue \subseteq Open
           /\ InPack \subseteq Open /\ InPacked \subseteq Open /\ InTrain \subseteq Open
           /\ \A s : s \in InPack <=> \E g \in pack.batch : g.scenario = s
           /\ \A s : s \in InTrain <=> \E g \in train.batch : g.scenario = s
           /\ \A s : s \in InQueue <=> \E g \in QueueGroups : g.scenario = s
           /\ \A s : s \in InPacked <=> \E i \in PackedItems : \E g \in i.batch : g.scenario = s
<1>1. offset \in 0..ScenarioCount /\ ScenarioCount \in Nat
  BY Constants DEF TypeOK
<1>2. Open \subseteq Scenarios
  BY <1>1 DEF Open, Scenarios
<1> QED
  BY <1>2 DEF OnePlace, Open, InPack, InTrain, InQueue, InPacked, Of

TrainActions == TrainStep \/ TrainDispatched \/ TrainRaises

(* What no step of the training stage changes.                              *)
LEMMA TrainFrames ==
    ASSUME TrainActions
    PROVE  UNCHANGED TrainFrame
BY DEF TrainActions, TrainStep, TrainDispatched, TrainRaises, TrainTop, TrainCollect, TrainGet,
       TrainReturns, TrainRaised, Publish, TrainWrap, TrainRefuses, TrainFinishes,
       CancelTraining, UnchangedByTraining, TrainFrame

PostStates == [pc : {"none", "waiting", "working", "done"},
               dispatched : BOOLEAN, handoff : BOOLEAN]

(* The records of the post-train task.                                      *)
LEMMA Posts ==
    ASSUME TypeOK
    PROVE  /\ post \in PostStates /\ Dispatch(post) \in PostStates
           /\ [post EXCEPT !.handoff = TRUE] \in PostStates
           /\ [post EXCEPT !.pc = "done"] \in PostStates
           /\ [post EXCEPT !.pc = "working"] \in PostStates
           /\ Dispatch(post).pc = post.pc /\ Dispatch(post).handoff = post.handoff
<1>1. post \in PostStates
  BY DEF TypeOK, PostStates
<1> QED
  BY <1>1 DEF PostStates, Dispatch

(* The records of the training stage.                                       *)
LEMMA Trains ==
    ASSUME TypeOK
    PROVE  /\ train \in TrainStates /\ train.step \in 0..ScenarioCount
           /\ train.batch \in SUBSET Groups
           /\ IsFiniteSet({}) /\ Cardinality({}) <= MaxBatch /\ {} \in SUBSET Groups
           /\ \A pc \in {"trained", "wrap", "wrapped", "finish", "ended"} :
                 /\ [train EXCEPT !.pc = pc] \in TrainStates
                 /\ [train EXCEPT !.pc = pc].batch = train.batch
           /\ \A pc \in {"raising", "ended"} :
                 /\ [train EXCEPT !.pc = pc, !.batch = {}] \in TrainStates
                 /\ [train EXCEPT !.pc = pc, !.batch = {}].batch = {}
           /\ \A pc \in {"wrap", "get", "collect"} :
                 /\ [train EXCEPT !.batch = {}, !.sentinel = FALSE, !.pc = pc] \in TrainStates
                 /\ [train EXCEPT !.batch = {}, !.sentinel = FALSE, !.pc = pc].batch = {}
<1>1. train \in TrainStates
  BY DEF TypeOK, TrainStates
<1>2. IsFiniteSet({}) /\ Cardinality({}) <= MaxBatch
  BY Constants, FS_EmptySet
<1> QED
  BY <1>1, <1>2 DEF TrainStates

(* The training stage keeps the types.                                      *)
LEMMA TrainTypes ==
    ASSUME TypeOK, OnePlace, Shape, Steps, TrainActions
    PROVE  TypeOK'
<1>1. /\ train \in TrainStates /\ train.step \in 0..ScenarioCount
      /\ train.batch \in SUBSET Groups
      /\ IsFiniteSet({}) /\ Cardinality({}) <= MaxBatch /\ {} \in SUBSET Groups
      /\ \A pc \in {"trained", "wrap", "wrapped", "finish", "ended"} :
            /\ [train EXCEPT !.pc = pc] \in TrainStates
            /\ [train EXCEPT !.pc = pc].batch = train.batch
      /\ \A pc \in {"raising", "ended"} :
            /\ [train EXCEPT !.pc = pc, !.batch = {}] \in TrainStates
            /\ [train EXCEPT !.pc = pc, !.batch = {}].batch = {}
      /\ \A pc \in {"wrap", "get", "collect"} :
            /\ [train EXCEPT !.batch = {}, !.sentinel = FALSE, !.pc = pc] \in TrainStates
            /\ [train EXCEPT !.batch = {}, !.sentinel = FALSE, !.pc = pc].batch = {}
  BY Trains
<1>2. UNCHANGED TrainFrame
  BY TrainFrames
<1>3. /\ Cardinality(train.batch) <= MaxBatch /\ packed \in Seq(Prepared \cup {None})
      /\ Len(packed) <= 1 /\ fate \in [Scenarios -> Fates \cup {None}]
      /\ handoff \in BOOLEAN /\ failed \in BOOLEAN /\ accept \in BOOLEAN /\ finished \in BOOLEAN
      /\ queue \in Entries /\ Len(queue) <= QueueSize
      /\ cause \in Causes \cup {None} /\ ends \in 0..1 /\ zeros \in 0..CollapseLimit
      /\ version \in 0..ScenarioCount /\ next \in 0..ScenarioCount
  BY DEF TypeOK, Causes, Entries
<1>4. /\ post \in PostStates /\ Dispatch(post) \in PostStates
      /\ [post EXCEPT !.handoff = TRUE] \in PostStates
      /\ [post EXCEPT !.pc = "done"] \in PostStates
  BY Posts
<1>5. {"dropped", "trained"} \subseteq Fates /\ <<>> \in Seq(Prepared \cup {None}) /\ Len(<<>>) <= 1
  BY DEF Fates
<1> DEFINE New == /\ train' \in TrainStates /\ Cardinality(train.batch') <= MaxBatch
                  /\ version' \in 0..ScenarioCount /\ version <= version'
                  /\ next' \in 0..ScenarioCount
                  /\ packed' \in Seq(Prepared \cup {None}) /\ Len(packed') <= 1
                  /\ fate' \in [Scenarios -> Fates \cup {None}]
                  /\ handoff' \in BOOLEAN /\ failed' \in BOOLEAN /\ accept' \in BOOLEAN
                  /\ finished' \in BOOLEAN /\ post' \in PostStates
                  /\ queue' \in Entries /\ Len(queue') <= QueueSize
                  /\ cause' \in Causes \cup {None} /\ ends' \in 0..1
                  /\ zeros' \in 0..CollapseLimit
<1>6. SUFFICES New
  <2>1. ASSUME New
        PROVE  worker' \in [Workers -> [pc : {"idle", "gate", "waiting", "rollout", "putting",
                                              "raised", "ended"},
                                        scenario : Scenarios \cup {None}, born : 0..version']]
    <3>1. worker' \in [Workers -> WorkerRecords]
      BY <1>2 DEF TypeOK, TrainFrame, WorkerRecords
    <3>2. 0..version \subseteq 0..version'
      BY <1>3, <2>1, Constants
    <3> QED
      BY <3>1, <3>2 DEF WorkerRecords
  <2> QED
    BY <1>2, <2>1 DEF TypeOK, TrainFrame, TrainStates, PostStates, Causes, Entries
<1>7. version <= version
  BY <1>3, Constants
<1>8. CASE TrainTop
  BY <1>1, <1>3, <1>4, <1>7, <1>8 DEF TrainTop, stopVars
<1>9. ASSUME NEW b \in SUBSET Groups, Cardinality(b) <= MaxBatch, b # {},
             \A g \in b : fate[g.scenario] = None, NEW sentinel \in BOOLEAN,
             NEW taken \in 0..ScenarioCount, StartTraining(b, sentinel, taken)
      PROVE  train' \in TrainStates /\ train.batch' = b /\ next' \in 0..ScenarioCount
  <2>1. PICK g \in b : g.scenario \in Scenarios /\ fate[g.scenario] = None
    BY <1>9 DEF Groups
  <2>2. train.step + 1 <= ScenarioCount
    BY <2>1, StepsLeft
  <2>3. next' = train.step + 1 /\ next' \in 0..ScenarioCount
    BY <1>1, <1>9, <2>2, Constants DEF StartTraining
  <2>4. train' = [pc |-> "train", step |-> train.step, batch |-> b,
                  sentinel |-> sentinel, taken |-> taken]
    BY <1>9 DEF StartTraining
  <2> QED
    BY <1>1, <2>3, <2>4 DEF TrainStates
<1>10. CASE TrainCollect
  <2>1. PICK flat \in FlatChoices(train) :
           LET c == Collected(train, flat) IN
           /\ CollectRound(train, flat, {})
           /\ IF c.pc = "collect" THEN train' = c /\ UNCHANGED next
              ELSE IF c.batch = {}
              THEN train' = [c EXCEPT !.pc = "wrap"] /\ UNCHANGED next
              ELSE StartTraining(c.batch, c.sentinel, c.step)
    BY <1>10 DEF TrainCollect
  <2>2. UNCHANGED <<version, finished, failed, packed, handoff, accept, post>>
    BY <1>10 DEF TrainCollect
  <2>3. TrainOutcome(flat)
    BY <2>1, TrainCollects
  <2>4. CollectRound(train, flat, {})
    BY <2>1
  <2>5. train.pc = "collect" /\ IsFiniteSet(train.batch) /\ Cardinality(train.batch) < MaxBatch
    BY <2>4 DEF CollectRound, Shape
  <2>6. ends > 0 => done
    BY DEF Shape
  <2>7. /\ queue' \in Entries /\ Len(queue') <= QueueSize
        /\ cause' \in Causes \cup {None} /\ ends' \in 0..1
        /\ zeros' \in 0..CollapseLimit
        /\ fate' \in [Scenarios -> Fates \cup {None}]
    BY <1>1, <2>4, <2>5, <2>6, RoundTypes
  <2>8. BatchLeft(train, flat) \in SUBSET Groups /\ Cardinality(BatchLeft(train, flat)) <= MaxBatch
    BY <1>1, <2>5, CollectedTypes DEF BatchLeft
  <2>9. SawEnd(train.batch) \in BOOLEAN
    BY DEF SawEnd, TypeOK
  <2>10. \A g \in BatchLeft(train, flat) : fate[g.scenario] = None
    <3>1. \A g \in Kept(train, flat) : g \in train.batch \/ g \in Items(train.batch)
      BY <1>1, <2>5, Rounds
    <3>2. Items(train.batch) \subseteq QueueGroups
      BY <2>5, Parts
    <3>3. \A g \in train.batch \cup QueueGroups : fate[g.scenario] = None
      BY Places
    <3> QED
      BY <3>1, <3>2, <3>3 DEF BatchLeft
  <2>11. \A pc \in {"collect", "wrap"} : /\ TrainNow(pc, flat) \in TrainStates
                                        /\ TrainNow(pc, flat).batch = BatchLeft(train, flat)
    BY <1>1, <2>8, <2>9 DEF TrainNow, TrainStates
  <2>12. CASE GoesOn(train, flat) \/ BatchLeft(train, flat) = {}
    <3>1. train' \in TrainStates /\ train.batch' = BatchLeft(train, flat) /\ next' = next
      BY <2>3, <2>11, <2>12 DEF TrainOutcome
    <3> QED
      BY <1>3, <1>4, <1>7, <2>2, <2>7, <2>8, <3>1
  <2>13. CASE ~GoesOn(train, flat) /\ BatchLeft(train, flat) # {}
    <3>1. StartTraining(BatchLeft(train, flat), SawEnd(train.batch), train.step)
      BY <2>3, <2>13 DEF TrainOutcome
    <3>2. train' \in TrainStates /\ train.batch' = BatchLeft(train, flat)
          /\ next' \in 0..ScenarioCount
      BY <1>1, <1>9, <2>8, <2>9, <2>10, <2>13, <3>1
    <3> QED
      BY <1>3, <1>4, <1>7, <2>2, <2>7, <2>8, <3>2
  <2> QED
    BY <2>12, <2>13
<1>11. CASE TrainGet
  <2>1. packed # <<>> /\ Head(packed) \in Prepared \cup {None}
        /\ PackedItems = {Head(packed)} \ {None}
    BY <1>3, <1>11, PackedCases DEF TrainGet
  <2>2. CASE Head(packed) = None
    BY <1>1, <1>3, <1>4, <1>5, <1>7, <1>11, <2>2 DEF TrainGet, stopVars
  <2>3. CASE Head(packed) # None
    <3> DEFINE i == Head(packed)
    <3>1. i \in Prepared /\ i \in PackedItems
      BY <2>1, <2>3
    <3>2. StartTraining(i.batch, i.sentinel, i.step) /\ packed' = <<>>
          /\ handoff' = PostDone /\ post' \in {post, [post EXCEPT !.handoff = TRUE]}
          /\ UNCHANGED <<version, stopVars, finished, failed, accept, zeros, fate>>
      BY <1>11, <2>3 DEF TrainGet
    <3>3. i.batch # {} /\ Cardinality(i.batch) <= MaxBatch
      BY <3>1 DEF Shape
    <3>4. \A g \in i.batch : fate[g.scenario] = None
      BY <3>1, Places
    <3>5. i.batch \in SUBSET Groups /\ i.sentinel \in BOOLEAN /\ i.step \in 0..ScenarioCount
      BY <3>1 DEF Prepared
    <3> HIDE DEF i
    <3>6. train' \in TrainStates /\ train.batch' = i.batch /\ next' \in 0..ScenarioCount
      BY <1>9, <3>2, <3>3, <3>4, <3>5
    <3>7. handoff' \in BOOLEAN
      BY <3>2 DEF PostDone
    <3>8. UNCHANGED <<version, cause, queue, ends, finished, failed, accept, zeros, fate>>
      BY <3>2 DEF stopVars
    <3> QED
      BY <1>3, <1>4, <1>5, <1>7, <3>2, <3>3, <3>6, <3>7, <3>8
  <2> QED
    BY <2>2, <2>3
<1>12. CASE TrainDispatched \/ TrainReturns \/ TrainRaised \/ TrainWrap \/ TrainRefuses
  BY <1>1, <1>3, <1>4, <1>7, <1>12 DEF TrainDispatched, TrainReturns, TrainRaised, TrainWrap,
     TrainRefuses, stopVars
<1>13. CASE TrainRaises
  <2>1. fate' \in [Scenarios -> Fates \cup {None}]
    BY <1>5, <1>13, Settles DEF TrainRaises
  <2> QED
    BY <1>1, <1>3, <1>4, <1>7, <1>13, <2>1 DEF TrainRaises, stopVars
<1>14. CASE Publish
  <2>1. fate' \in [Scenarios -> Fates \cup {None}]
    BY <1>5, <1>14, Settles DEF Publish
  <2>2. next = train.step + 1 /\ version = train.step
    BY <1>14 DEF Publish, Steps
  <2>3. version' = next /\ next' = next /\ version <= next
    BY <1>1, <1>14, <2>2 DEF Publish
  <2>4. train' \in TrainStates /\ train.batch' = {}
    <3> DEFINE pc == IF train.sentinel THEN "wrap" ELSE "top"
    <3>1. pc \in {"wrap", "top"}
      OBVIOUS
    <3>2. train' = [train EXCEPT !.pc = pc, !.step = next, !.batch = {}]
      BY <1>14, <2>2 DEF Publish
    <3> DEFINE a == [train EXCEPT !.pc = pc]
               b == [a EXCEPT !.step = next]
    <3>3. train' = [b EXCEPT !.batch = {}]
      BY <3>2
    <3> HIDE DEF pc, a, b
    <3>4. a \in TrainStates
      BY <1>1, <3>1 DEF a, TrainStates
    <3>5. b \in TrainStates
      BY <1>3, <3>4 DEF b, TrainStates
    <3> QED
      BY <1>1, <3>3, <3>5 DEF TrainStates
  <2>5. [pc |-> "waiting", dispatched |-> FALSE, handoff |-> FALSE] \in PostStates
    BY DEF PostStates
  <2>6. post' \in PostStates /\ UNCHANGED <<cause, queue, ends, finished, failed, packed, handoff,
                                            accept, zeros>>
    BY <1>14, <2>5 DEF Publish, stopVars
  <2> QED
    BY <1>1, <1>3, <2>1, <2>3, <2>4, <2>6
<1>15. CASE TrainFinishes
  <2>1. packed' = <<>> /\ handoff' \in BOOLEAN /\ fate' \in [Scenarios -> Fates \cup {None}]
    <3>1. DiscardPrepared
      BY <1>15 DEF TrainFinishes
    <3>2. /\ packed' = <<>> /\ handoff' \in BOOLEAN
          /\ fate' = [s \in Scenarios |-> IF s \in InPacked THEN "dropped" ELSE fate[s]]
      BY <3>1, Discards
    <3> QED
      BY <1>3, <1>5, <3>2
  <2>2. queue' \in Entries /\ Len(queue') <= QueueSize /\ cause' \in Causes /\ ends' \in 0..1
    <3> DEFINE why == IF train.step >= MaxSteps THEN "steps" ELSE "end"
    <3>1. why \in Causes
      BY DEF Causes
    <3>2. RequestStop(why, queue) /\ (ends > 0 => done)
      BY <1>15 DEF TrainFinishes, Shape
    <3> HIDE DEF why
    <3> QED
      BY <1>3, <3>1, <3>2, Requests
  <2>3. finished' \in BOOLEAN
    BY <1>15 DEF TrainFinishes
  <2>4. /\ train' = [train EXCEPT !.pc = "ended"]
        /\ UNCHANGED <<version, next, failed, accept, post, zeros>>
    BY <1>15 DEF TrainFinishes
  <2>5. train' \in TrainStates /\ train.batch' = train.batch
    BY <1>1, <2>4
  <2>6. /\ Cardinality(train.batch') <= MaxBatch
        /\ packed' \in Seq(Prepared \cup {None}) /\ Len(packed') <= 1
    BY <1>3, <1>5, <2>1, <2>5
  <2> QED
    BY <1>3, <1>4, <1>7, <2>1, <2>2, <2>3, <2>4, <2>5, <2>6
<1>16. CASE CancelTraining
  <2>1. fate' \in [Scenarios -> Fates \cup {None}]
    BY <1>5, <1>16, Settles DEF CancelTraining
  <2>2. post' \in PostStates /\ handoff' \in BOOLEAN
    BY <1>3, <1>4, <1>16 DEF CancelTraining
  <2> QED
    BY <1>1, <1>3, <1>7, <1>16, <2>1, <2>2 DEF CancelTraining, stopVars
<1> QED
  BY <1>8, <1>10, <1>11, <1>12, <1>13, <1>14, <1>15, <1>16 DEF TrainActions, TrainStep

(* The post-train task, the cleanup and the return of run keep the types.   *)
LEMMA RunTypes ==
    ASSUME TypeOK, Shape, PostNotify \/ PostFinish \/ Cleanup \/ Return
    PROVE  TypeOK'
<1>1. [post EXCEPT !.pc = "done"] \in PostStates /\ [post EXCEPT !.pc = "working"] \in PostStates
  BY Posts
<1>2. CASE PostNotify
  <2>1. worker' \in [Workers -> WorkerRecords]
    <3>1. ASSUME NEW w \in Workers
          PROVE  [worker[w] EXCEPT !.pc = "gate"] \in WorkerRecords /\ worker[w] \in WorkerRecords
      <4>1. worker[w] \in WorkerRecords
        BY WorkerStates
      <4> QED
        BY <4>1 DEF WorkerRecords
    <3>2. worker' = [w \in Workers |->
                        IF worker[w].pc = "waiting" THEN [worker[w] EXCEPT !.pc = "gate"]
                        ELSE worker[w]]
      BY <1>2 DEF PostNotify
    <3> QED
      BY <3>1, <3>2
  <2>2. UNCHANGED <<mode, maxOff, version, next, offset, exhausted, cause, failed, rollouts, queueVars,
                    packVars, accept, train, zeros, run, fate>> /\ post' \in PostStates
    BY <1>1, <1>2 DEF PostNotify
  <2> QED
    BY <2>1, <2>2 DEF TypeOK, WorkerRecords, PostStates, queueVars, packVars
<1>3. CASE PostFinish
  <2>1. handoff' \in BOOLEAN /\ zeros' \in 0..CollapseLimit /\ post' \in PostStates
    <3>1. 0 \in 0..CollapseLimit
      BY Constants
    <3> QED
      BY <1>1, <1>3, <3>1 DEF PostFinish, TypeOK
  <2> QED
    BY <1>3, <2>1 DEF PostFinish, TypeOK, PostStates, queueVars
<1>4. CASE Cleanup
  <2>1. packed' = <<>> /\ handoff' \in BOOLEAN /\ fate' \in [Scenarios -> Fates \cup {None}]
    <3>1. /\ packed' = <<>> /\ handoff' \in BOOLEAN
          /\ fate' = [s \in Scenarios |-> IF s \in InPacked THEN "dropped" ELSE fate[s]]
      BY <1>4, Discards DEF Cleanup
    <3> QED
      BY <3>1 DEF TypeOK, Fates
  <2>2. /\ queue' \in Entries /\ Len(queue') <= QueueSize /\ cause' \in Causes \cup {None}
        /\ ends' \in 0..1
    <3>1. queue \in Entries /\ Len(queue) <= QueueSize /\ cause \in Causes \cup {None}
          /\ ends \in 0..1 /\ "failure" \in Causes /\ (ends > 0 => done)
      BY DEF TypeOK, Entries, Causes, Shape
    <3>2. CASE failed
      <4>1. RequestStop("failure", queue)
        BY <1>4, <3>2 DEF Cleanup
      <4> QED
        BY <3>1, <4>1, Requests
    <3>3. CASE ~failed
      BY <1>4, <3>1, <3>3 DEF Cleanup, stopVars
    <3> QED
      BY <3>2, <3>3
  <2>3. <<>> \in Seq(Prepared \cup {None}) /\ Len(<<>>) <= 1
    OBVIOUS
  <2>4. run' \in {"stages", "gather", "ended"} /\ accept' \in BOOLEAN
    BY <1>4 DEF Cleanup
  <2>5. UNCHANGED <<mode, maxOff, version, next, offset, exhausted, failed, worker, rollouts, finished,
                    pack, train, post, zeros>>
    BY <1>4 DEF Cleanup
  <2> QED
    BY <2>1, <2>2, <2>3, <2>4, <2>5 DEF TypeOK, Causes, Entries
<1>5. CASE Return
  BY <1>5 DEF Return, TypeOK, queueVars, packVars
<1> QED
  BY <1>2, <1>3, <1>4, <1>5

WorkerActions == \E w \in Workers : WorkerStep(w) \/ FatalRollout(w)
StopActions == RolloutStage \/ SignalStop \/ DeliverEnd
PackActions == PackStep \/ PackFails
RunActions == PostNotify \/ PostFinish \/ Cleanup \/ Return
FailActions == PackCollectFails \/ TrainCollectFails \/ TrainUnsignalled
FailFrame == <<mode, maxOff, version, next, offset, exhausted, cause, worker, rollouts, ends,
               finished, packed, handoff, accept, zeros, run>>

(* The actions of Next, by the task that takes them; the failures of a      *)
(* stage that lose what it is collecting or training are apart.             *)
LEMMA Actions == Next => \/ WorkerActions \/ StopActions \/ PackActions
                         \/ TrainActions \/ RunActions \/ FailActions
BY DEF Next, WorkerActions, StopActions, PackActions, TrainActions, RunActions, FailActions

(* What such a failure loses, and what it leaves alone.                     *)
LEMMA Fails ==
    ASSUME TypeOK, OnePlace, Shape, FailActions
    PROVE  /\ failed' = TRUE /\ UNCHANGED FailFrame
           /\ post' \in {post, Dispatch(post)}
           /\ queue' \in Entries /\ Len(queue') <= QueueSize
           /\ \/ /\ pack.pc = "collect" /\ pack' = At("ended", 0) /\ UNCHANGED <<train, post>>
                 /\ queue' = Left(pack.batch)
                 /\ Settle(pack.batch \cup Items(pack.batch), "dropped")
              \/ /\ train.pc = "collect" /\ UNCHANGED <<pack, post>>
                 /\ train' = [train EXCEPT !.pc = "ended", !.batch = {}]
                 /\ queue' = Left(train.batch)
                 /\ Settle(train.batch \cup Items(train.batch), "dropped")
              \/ /\ train.pc = "train" /\ UNCHANGED <<pack, queue>>
                 /\ train' = [train EXCEPT !.pc = "ended", !.batch = {}]
                 /\ Settle(train.batch, "dropped")
<1>1. queue \in Entries /\ Len(queue) \in Nat /\ Len(queue) <= QueueSize /\ QueueSize \in Nat
  BY LenProperties, Constants DEF TypeOK, Entries
<1>2. ASSUME NEW b, IsFiniteSet(b), Cardinality(b) < MaxBatch
      PROVE  Left(b) \in Entries /\ Len(Left(b)) <= QueueSize
  <2>1. /\ Left(b) \in Entries /\ Len(Left(b)) = Len(queue) - Len(Got(b))
        /\ Len(Got(b)) \in 0..Len(queue)
    BY <1>2, Gets
  <2> QED
    BY <1>1, <2>1
<1>3. CASE PackCollectFails
  <2>1. /\ pack.pc = "collect" /\ failed' = TRUE /\ queue' = Left(pack.batch)
        /\ Settle(pack.batch \cup Items(pack.batch), "dropped")
        /\ pack' = At("ended", 0)
        /\ UNCHANGED FailFrame /\ UNCHANGED <<train, post>>
    BY <1>3 DEF PackCollectFails, CollectFails, UnchangedByPacking, FailFrame
  <2>2. IsFiniteSet(pack.batch) /\ Cardinality(pack.batch) < MaxBatch
    BY <2>1 DEF Shape
  <2> QED
    BY <1>2, <2>1, <2>2
<1>4. CASE TrainCollectFails
  <2>1. /\ train.pc = "collect" /\ failed' = TRUE /\ queue' = Left(train.batch)
        /\ Settle(train.batch \cup Items(train.batch), "dropped")
        /\ train' = [train EXCEPT !.pc = "ended", !.batch = {}]
        /\ UNCHANGED FailFrame /\ UNCHANGED <<pack, post>>
    BY <1>4 DEF TrainCollectFails, CollectFails, UnchangedByTraining, FailFrame
  <2>2. IsFiniteSet(train.batch) /\ Cardinality(train.batch) < MaxBatch
    BY <2>1 DEF Shape
  <2> QED
    BY <1>2, <2>1, <2>2
<1>5. CASE TrainUnsignalled
  BY <1>1, <1>5 DEF TrainUnsignalled, UnchangedByTraining, FailFrame, stopVars
<1> QED
  BY <1>3, <1>4, <1>5 DEF FailActions

(* It keeps the types.                                                      *)
LEMMA FailTypes ==
    ASSUME TypeOK, OnePlace, Shape, FailActions
    PROVE  TypeOK'
<1>1. /\ failed' = TRUE /\ UNCHANGED FailFrame
      /\ post' \in {post, Dispatch(post)}
      /\ queue' \in Entries /\ Len(queue') <= QueueSize
      /\ pack' \in {pack, At("ended", 0)}
      /\ train' \in {train, [train EXCEPT !.pc = "ended", !.batch = {}]}
      /\ \E groups : Settle(groups, "dropped")
  BY Fails
<1>2. fate' \in [Scenarios -> Fates \cup {None}]
  <2>1. "dropped" \in Fates
    BY DEF Fates
  <2> QED
    BY <1>1, <2>1, Settles
<1>3. pack' \in PackStates /\ Cardinality(pack'.batch) <= MaxBatch
  <2>1. pack \in PackStates /\ At("ended", 0) \in PackStates /\ At("ended", 0).batch = {}
        /\ Cardinality({}) <= MaxBatch
    BY PackRecords DEF PackStates
  <2>2. Cardinality(pack.batch) <= MaxBatch
    BY DEF TypeOK
  <2> QED
    BY <1>1, <2>1, <2>2
<1>4. train' \in TrainStates /\ Cardinality(train'.batch) <= MaxBatch
  <2>1. /\ train \in TrainStates /\ [train EXCEPT !.pc = "ended", !.batch = {}] \in TrainStates
        /\ [train EXCEPT !.pc = "ended", !.batch = {}].batch = {}
        /\ Cardinality({}) <= MaxBatch
    BY Trains
  <2>2. Cardinality(train.batch) <= MaxBatch
    BY DEF TypeOK
  <2> QED
    BY <1>1, <2>1, <2>2
<1>5. post' \in PostStates
  BY <1>1, Posts
<1> QED
  BY <1>1, <1>2, <1>3, <1>4, <1>5 DEF TypeOK, FailFrame, PackStates, TrainStates, PostStates,
     Entries

(* Every step keeps the types.                                              *)
LEMMA TypesNext ==
    ASSUME TypeOK, OnePlace, Shape, Steps, Next
    PROVE  TypeOK'
<1>1. ends > 0 => done
  BY DEF Shape
<1>2. CASE WorkerActions
  BY <1>2, WorkerTypes DEF WorkerActions
<1>3. CASE StopActions
  BY <1>1, <1>3, StopTypes DEF StopActions
<1>4. CASE PackActions
  BY <1>4, PackTypes DEF PackActions
<1>5. CASE TrainActions
  BY <1>5, TrainTypes
<1>6. CASE RunActions
  BY <1>6, RunTypes DEF RunActions
<1>7. CASE FailActions
  BY <1>7, FailTypes
<1> QED
  BY <1>2, <1>3, <1>4, <1>5, <1>6, <1>7, Actions

-----------------------------------------------------------------------------
(* Each scenario is in one place.                                          *)

(* Appending to a queue of distinct scenarios.                              *)
LEMMA Appends ==
    ASSUME NEW q \in Entries, NEW x \in Groups \cup {None}
    PROVE  /\ ToSet(Append(q, x)) = ToSet(q) \cup {x}
           /\ Append(q, x) \in Entries
           /\ Distinct(q) /\ (x = None \/ \A g \in ToSet(q) \ {None} : g.scenario # x.scenario)
                 => Distinct(Append(q, x))
<1> DEFINE n == Len(q)
           a == Append(q, x)
<1>1. /\ a \in Entries /\ Len(a) = n + 1 /\ a[n + 1] = x
      /\ \A i \in 1..n : a[i] = q[i]
      /\ n \in Nat /\ DOMAIN q = 1..n /\ DOMAIN a = 1..Len(a)
  BY AppendProperties, LenProperties DEF Entries
<1> HIDE DEF n, a
<1>2. \A i : i \in DOMAIN a <=> i \in DOMAIN q \/ i = n + 1
  BY <1>1
<1>3. \A i \in DOMAIN q : i # n + 1 /\ a[i] = q[i]
  BY <1>1
<1>4. ToSet(a) = ToSet(q) \cup {x}
  BY <1>1, <1>2, <1>3 DEF ToSet
<1>5. Distinct(q) /\ (x = None \/ \A g \in ToSet(q) \ {None} : g.scenario # x.scenario)
         => Distinct(a)
  <2> SUFFICES ASSUME Distinct(q),
                      x = None \/ \A g \in ToSet(q) \ {None} : g.scenario # x.scenario,
                      NEW i \in DOMAIN a, NEW j \in DOMAIN a, a[i] # None, a[j] # None,
                      a[i].scenario = a[j].scenario
               PROVE  i = j
    BY DEF Distinct
  <2>1. \A k \in DOMAIN q : q[k] \in ToSet(q)
    BY DEF ToSet
  <2>2. CASE i \in DOMAIN q /\ j \in DOMAIN q
    BY <1>3, <2>2 DEF Distinct
  <2>3. ASSUME NEW k \in DOMAIN q, a[k] # None, x # None PROVE a[k].scenario # x.scenario
    <3>1. a[k] = q[k] /\ q[k] \in ToSet(q) \ {None}
      BY <1>3, <2>1, <2>3
    <3> QED
      BY <2>3, <3>1
  <2>4. a[n + 1] = x /\ \A k \in DOMAIN a : k \in DOMAIN q \/ k = n + 1
    BY <1>1, <1>2
  <2>5. CASE i = n + 1 /\ j \in DOMAIN q
    BY <2>3, <2>4, <2>5
  <2>6. CASE j = n + 1 /\ i \in DOMAIN q
    BY <2>3, <2>4, <2>6
  <2> QED
    BY <2>2, <2>4, <2>5, <2>6
<1> QED
  BY <1>1, <1>4, <1>5 DEF a

(* Scenarios get a fate.                                                   *)
LEMMA Fated ==
    ASSUME TypeOK, OnePlace, UNCHANGED offset, NEW X \in SUBSET Open,
           \A s \in Scenarios : s \notin X => fate'[s] = fate[s],
           \A s \in X : fate'[s] \in Fates
    PROVE  /\ Open' = Open \ X
           /\ \A s \in Scenarios : s > offset' => fate'[s] = None
<1>0. offset \in 0..ScenarioCount /\ ScenarioCount \in Nat
  BY Constants DEF TypeOK
<1>1. \A s \in X : fate[s] = None /\ s \in Scenarios /\ ~(s > offset)
  <2>1. Open \subseteq Scenarios /\ \A s \in Open : fate[s] = None
    BY Places
  <2>2. offset \in Int /\ \A s \in Open : s \in 1..offset
    BY <1>0 DEF Open
  <2> QED
    BY <2>1, <2>2
<1>2. \A s \in 1..offset : s \in Scenarios
  BY <1>0 DEF Scenarios
<1>3. \A s \in Scenarios : s > offset => fate[s] = None
  BY DEF OnePlace
<1>4. \A s \in X : fate'[s] # None
  BY Constants
<1>5. Open' = Open \ X
  BY <1>1, <1>2, <1>4 DEF Open
<1> QED
  BY <1>1, <1>3, <1>5

(* What a worker's step does with the scenario in its hands.                *)
LEMMA WorkerMoves ==
    ASSUME TypeOK, Shape, NEW w \in Workers, WorkerStep(w) \/ FatalRollout(w)
    PROVE  \/ /\ worker'[w].scenario = worker[w].scenario
              /\ UNCHANGED <<fate, queue, offset>>
           \/ /\ worker'[w].scenario = None /\ worker[w].scenario # None
              /\ fate' = [s \in Scenarios |-> IF s = worker[w].scenario THEN fate'[s] ELSE fate[s]]
              /\ fate'[worker[w].scenario] \in {"dropped", "errored"}
              /\ UNCHANGED <<queue, offset>>
           \/ /\ worker'[w].scenario = None /\ worker[w].scenario # None
              /\ \E g \in Groups : g.scenario = worker[w].scenario /\ queue' = Append(queue, g)
              /\ UNCHANGED <<fate, offset>>
           \/ /\ worker[w].scenario = None /\ worker'[w].scenario = offset + 1
              /\ offset + 1 \in Scenarios /\ offset' = offset + 1
              /\ UNCHANGED <<fate, queue>>
<1>1. worker \in [Workers -> WorkerRecords] /\ worker[w] \in WorkerRecords
      /\ Idle.scenario = None /\ Gone.scenario = None /\ Raised.scenario = None
  BY WorkerStates DEF Idle, Gone, Raised
<1>2. worker[w].scenario \in Scenarios \cup {None}
  BY <1>1 DEF WorkerRecords
<1>3. \A x : Become(w, x) => worker'[w] = x
  BY <1>1 DEF Become
<1>4. worker[w].scenario = None <=> worker[w].pc \in {"idle", "raised", "ended"}
  BY DEF Shape
<1> DEFINE Same == worker'[w].scenario = worker[w].scenario /\ UNCHANGED fate
           Settled == /\ worker'[w].scenario = None /\ worker[w].scenario # None
                      /\ fate' = [s \in Scenarios |-> IF s = worker[w].scenario THEN fate'[s]
                                                      ELSE fate[s]]
                      /\ fate'[worker[w].scenario] \in {"dropped", "errored"}
<1>5. ASSUME NEW x, Abandon(w, x), x.scenario = None
      PROVE  Same \/ Settled
  <2>1. CASE worker[w].scenario = None
    BY <1>3, <1>5, <2>1 DEF Abandon
  <2>2. CASE worker[w].scenario # None
    <3>1. Settle({worker[w]}, "dropped") /\ worker'[w] = x
      BY <1>3, <1>5, <2>2 DEF Abandon
    <3>2. fate' = [s \in Scenarios |-> IF s = worker[w].scenario THEN "dropped" ELSE fate[s]]
      BY <3>1 DEF Settle
    <3> QED
      BY <1>2, <1>5, <2>2, <3>1, <3>2
  <2> QED
    BY <2>1, <2>2
<1>6. CASE GetNextScenario(w)
  <2>1. CASE done \/ exhausted \/ offset = ScenarioCount
    BY <1>1, <1>3, <1>4, <1>6, <2>1 DEF GetNextScenario
  <2>2. CASE ~(done \/ exhausted \/ offset = ScenarioCount)
    <3>1. offset + 1 \in Scenarios
      <4>1. offset \in 0..ScenarioCount /\ offset # ScenarioCount
        BY <2>2, WorkerStates
      <4>2. ScenarioCount \in Nat
        BY Constants
      <4> QED
        BY <4>1, <4>2 DEF Scenarios
    <3>2. /\ Become(w, [pc |-> "gate", scenario |-> offset + 1, born |-> 0])
          /\ worker[w].pc = "idle" /\ offset' = offset + 1 /\ UNCHANGED <<queue, fate>>
      BY <1>6, <2>2 DEF GetNextScenario
    <3>3. worker'[w].scenario = offset + 1
      BY <1>3, <3>2
    <3> QED
      BY <1>4, <3>1, <3>2, <3>3
  <2> QED
    BY <2>1, <2>2
<1>7. CASE WaitForPolicy(w)
  <2>1. CASE done
    BY <1>1, <1>5, <1>7, <2>1 DEF WaitForPolicy
  <2>2. CASE ~done
    <3> DEFINE x == IF PolicyTooOld THEN [worker[w] EXCEPT !.pc = "waiting"]
                    ELSE [worker[w] EXCEPT !.pc = "rollout", !.born = version]
    <3>1. x.scenario = worker[w].scenario
      BY <1>1 DEF WorkerRecords
    <3>2. Become(w, x)
      BY <1>7, <2>2 DEF WaitForPolicy
    <3> HIDE DEF x
    <3> QED
      BY <1>3, <1>7, <2>2, <3>1, <3>2 DEF WaitForPolicy
  <2> QED
    BY <2>1, <2>2
<1>8. CASE FinishRollout(w)
  <2>1. CASE Abandon(w, Gone)
    BY <1>1, <1>5, <1>8, <2>1 DEF FinishRollout
  <2>2. CASE Become(w, [worker[w] EXCEPT !.pc = "putting"]) /\ UNCHANGED fate
    <3>1. [worker[w] EXCEPT !.pc = "putting"].scenario = worker[w].scenario
      BY <1>1 DEF WorkerRecords
    <3> QED
      BY <1>3, <1>8, <2>2, <3>1 DEF FinishRollout
  <2>3. CASE Become(w, Idle) /\ Settle({worker[w]}, "errored")
    <3>1. fate' = [s \in Scenarios |-> IF s = worker[w].scenario THEN "errored" ELSE fate[s]]
      BY <2>3 DEF Settle
    <3>2. worker[w].scenario # None
      BY <1>4, <1>8 DEF FinishRollout
    <3> QED
      BY <1>1, <1>2, <1>3, <1>8, <2>3, <3>1, <3>2 DEF FinishRollout
  <2> QED
    BY <1>8, <2>1, <2>2, <2>3 DEF FinishRollout
<1>9. CASE PutOutputGroup(w)
  <2>1. CASE Abandon(w, Idle) /\ UNCHANGED queue
    BY <1>1, <1>5, <1>9, <2>1 DEF PutOutputGroup
  <2>2. CASE /\ queue' = Append(queue, [scenario |-> worker[w].scenario, born |-> worker[w].born])
             /\ Become(w, Idle) /\ UNCHANGED fate
    <3>1. worker[w].scenario # None
      BY <1>4, <1>9 DEF PutOutputGroup
    <3>2. [scenario |-> worker[w].scenario, born |-> worker[w].born] \in Groups
      BY <1>1, <3>1, Constants DEF WorkerRecords, Groups
    <3> QED
      BY <1>1, <1>3, <1>9, <2>2, <3>1, <3>2 DEF PutOutputGroup
  <2> QED
    BY <1>9, <2>1, <2>2 DEF PutOutputGroup
<1>10. CASE CancelWorker(w) \/ FatalRollout(w)
  BY <1>1, <1>5, <1>10 DEF CancelWorker, FatalRollout
<1>11. CASE NoticeRaised(w)
  BY <1>1, <1>3, <1>4, <1>11 DEF NoticeRaised, UnchangedByWorkers
<1> QED
  BY <1>6, <1>7, <1>8, <1>9, <1>10, <1>11 DEF WorkerStep

(* The workers keep each scenario in one place.                             *)
LEMMA WorkerPlaces ==
    ASSUME TypeOK, OnePlace, Shape, NEW w \in Workers, WorkerStep(w) \/ FatalRollout(w)
    PROVE  OnePlace'
<1> DEFINE s == worker[w].scenario
           t == worker'[w].scenario
<1>1. UNCHANGED <<pack, packed, train>>
  BY WorkerFrame DEF packVars
<1>2. /\ worker' \in [Workers -> WorkerRecords]
      /\ \A v \in Workers : v # w => worker'[v] = worker[v]
  BY WorkerTypes
<1>3. UNCHANGED <<InPack, InPacked, InTrain>>
  BY <1>1 DEF InPack, InPacked, InTrain, PackedItems, Of
<1>4. /\ \A u, v \in Workers : worker[u].scenario = worker[v].scenario
                                  => worker[u].scenario = None \/ u = v
      /\ \A v \in Workers : worker[v].scenario = None \/ worker[v].scenario \in InWorkers
      /\ \A x \in InWorkers : \E v \in Workers : worker[v].scenario = x /\ x # None
  BY DEF OnePlace, InWorkers
<1>5. InWorkers' = (InWorkers \ {s}) \cup ({t} \ {None})
  <2>1. \A x : x \in InWorkers' <=> x # None /\ \E v \in Workers : worker'[v].scenario = x
    BY DEF InWorkers
  <2>2. \A x : x \in InWorkers <=> x # None /\ \E v \in Workers : worker[v].scenario = x
    BY DEF InWorkers
  <2> QED
    BY <1>2, <1>4, <2>1, <2>2
<1>6. /\ Open \subseteq Scenarios /\ \A x \in Open : fate[x] = None
      /\ InWorkers \subseteq Open /\ s \in InWorkers \cup {None}
  BY <1>4, Places
<1>7. t \in {None, s} \/ t \notin InWorkers =>
         \A u, v \in Workers : worker'[u].scenario = worker'[v].scenario
                                  => worker'[u].scenario = None \/ u = v
  BY <1>2, <1>4
<1>8. /\ Open = InWorkers \cup InQueue \cup InPack \cup InPacked \cup InTrain
      /\ \A x \in Scenarios : x > offset => fate[x] = None
      /\ InWorkers \cap (InQueue \cup InPack \cup InPacked \cup InTrain) = {}
      /\ InQueue \cap (InPack \cup InPacked \cup InTrain) = {}
      /\ InPack \cap (InPacked \cup InTrain) = {}
      /\ InPacked \cap InTrain = {}
      /\ Distinct(queue)
  BY DEF OnePlace
<1> DEFINE New == /\ Open' = InWorkers' \cup InQueue' \cup InPack \cup InPacked \cup InTrain
                  /\ InWorkers' \cap (InQueue' \cup InPack \cup InPacked \cup InTrain) = {}
                  /\ InQueue' \cap (InPack \cup InPacked \cup InTrain) = {}
                  /\ \A x \in Scenarios : x > offset' => fate'[x] = None
                  /\ t \in {None, s} \/ t \notin InWorkers
                  /\ Distinct(queue)'
<1>9. SUFFICES New
  BY <1>3, <1>7, <1>8 DEF OnePlace
<1>10. ASSUME UNCHANGED queue
       PROVE  InQueue' = InQueue /\ Distinct(queue)'
  BY <1>8, <1>10 DEF InQueue, QueueGroups, Distinct, Of
<1>11. ASSUME UNCHANGED <<offset, fate>>
       PROVE  Open' = Open /\ \A x \in Scenarios : x > offset' => fate'[x] = None
  BY <1>8, <1>11 DEF Open
<1>12. CASE t = s /\ UNCHANGED <<fate, queue, offset>>
  <2>1. InWorkers' = InWorkers
    BY <1>5, <1>6, <1>12, Constants
  <2> QED
    BY <1>8, <1>10, <1>11, <1>12, <2>1
<1>13. CASE /\ t = None /\ s # None
            /\ fate' = [x \in Scenarios |-> IF x = s THEN fate'[x] ELSE fate[x]]
            /\ fate'[s] \in {"dropped", "errored"}
            /\ UNCHANGED <<queue, offset>>
  <2>1. {s} \in SUBSET Open /\ "dropped" \in Fates /\ "errored" \in Fates
    BY <1>6, <1>13 DEF Fates
  <2>2. \A x \in Scenarios : x \notin {s} => fate'[x] = fate[x]
    <3>1. ASSUME NEW x \in Scenarios, x # s
          PROVE  fate'[x] = fate[x]
      <4>1. fate'[x] = [y \in Scenarios |-> IF y = s THEN fate'[y] ELSE fate[y]][x]
        BY <1>13
      <4> QED
        BY <3>1, <4>1
    <3> QED
      BY <3>1
  <2>3. \A x \in {s} : fate'[x] \in Fates
    BY <1>13, <2>1
  <2>4. /\ Open' = Open \ {s}
        /\ \A x \in Scenarios : x > offset' => fate'[x] = None
    BY <1>13, <2>1, <2>2, <2>3, Fated
  <2>5. InWorkers' = InWorkers \ {s} /\ s \in InWorkers
    BY <1>5, <1>6, <1>13
  <2> QED
    BY <1>8, <1>10, <1>13, <2>4, <2>5
<1>14. CASE /\ t = None /\ s # None
            /\ \E g \in Groups : g.scenario = s /\ queue' = Append(queue, g)
            /\ UNCHANGED <<fate, offset>>
  <2>1. PICK g \in Groups : g.scenario = s /\ queue' = Append(queue, g)
    BY <1>14
  <2>2. InWorkers' = InWorkers \ {s} /\ s \in InWorkers
    BY <1>5, <1>6, <1>14
  <2>3. \A h \in ToSet(queue) \ {None} : h.scenario # s
    BY <1>8, <2>2 DEF InQueue, QueueGroups, Of
  <2>4. queue \in Entries /\ g \in Groups \cup {None} /\ g # None
    BY Constants DEF TypeOK, Entries
  <2>5. ToSet(queue') = ToSet(queue) \cup {g} /\ Distinct(queue')
    BY <1>8, <2>1, <2>3, <2>4, Appends
  <2>6. InQueue' = InQueue \cup {s} /\ Distinct(queue)'
    <3>1. QueueGroups' = QueueGroups \cup {g}
      BY <2>4, <2>5 DEF QueueGroups
    <3> QED
      BY <2>1, <2>5, <3>1 DEF InQueue, Of, Distinct
  <2> QED
    BY <1>8, <1>11, <1>14, <2>2, <2>6
<1>15. CASE /\ s = None /\ t = offset + 1
            /\ offset + 1 \in Scenarios /\ offset' = offset + 1
            /\ UNCHANGED <<fate, queue>>
  <2>1. offset \in Nat /\ \A x \in Scenarios : x \in Int
    BY Constants DEF TypeOK, Scenarios
  <2>2. Open' = Open \cup {offset + 1} /\ offset + 1 \notin Open
    <3>1. 1..offset' = 1..offset \cup {offset + 1} /\ offset + 1 \notin 1..offset
      BY <1>15, <2>1
    <3>2. fate[offset + 1] = None
      <4>1. offset + 1 > offset
        BY <2>1
      <4> QED
        BY <1>8, <1>15, <4>1
    <3> QED
      BY <1>15, <3>1, <3>2 DEF Open
  <2>3. \A x \in Scenarios : x > offset' => fate'[x] = None
    BY <1>8, <1>15, <2>1
  <2>4. InWorkers' = InWorkers \cup {offset + 1}
    BY <1>5, <1>6, <1>15, Constants
  <2> QED
    BY <1>8, <1>10, <1>15, <2>2, <2>3, <2>4
<1> HIDE DEF New
<1> QED
  BY <1>12, <1>13, <1>14, <1>15, WorkerMoves

InStages == InQueue \cup InPack \cup InPacked \cup InTrain

(* What moves between the stages keeps each scenario in one place.         *)
LEMMA StageMoves ==
    ASSUME TypeOK, OnePlace, UNCHANGED <<offset, worker>>,
           NEW X \in SUBSET InStages,
           \A s \in Scenarios : s \notin X => fate'[s] = fate[s],
           \A s \in X : fate'[s] \in Fates,
           InQueue' \cup InPack' \cup InPacked' \cup InTrain' = InStages \ X,
           InQueue' \cap (InPack' \cup InPacked' \cup InTrain') = {},
           InPack' \cap (InPacked' \cup InTrain') = {},
           InPacked' \cap InTrain' = {},
           Distinct(queue)'
    PROVE  OnePlace'
<1>1. InWorkers' = InWorkers
  BY DEF InWorkers
<1>2. /\ Open = InWorkers \cup InStages /\ InWorkers \cap InStages = {}
      /\ \A v, w \in Workers :
            worker[v].scenario = worker[w].scenario => worker[v].scenario = None \/ v = w
  BY DEF OnePlace, InStages
<1>3. X \in SUBSET Open
  BY <1>2
<1>4. Open' = Open \ X /\ \A s \in Scenarios : s > offset' => fate'[s] = None
  BY <1>3, Fated
<1>5. /\ Open' = InWorkers' \cup InQueue' \cup InPack' \cup InPacked' \cup InTrain'
      /\ InWorkers' \cap (InQueue' \cup InPack' \cup InPacked' \cup InTrain') = {}
  BY <1>1, <1>2, <1>4
<1>6. \A v, w \in Workers :
         worker'[v].scenario = worker'[w].scenario => worker'[v].scenario = None \/ v = w
  BY <1>2
<1> QED
  BY <1>4, <1>5, <1>6 DEF OnePlace

(* The places between the workers and training are disjoint.                *)
LEMMA Staged ==
    ASSUME OnePlace
    PROVE  /\ InQueue \cap (InPack \cup InPacked \cup InTrain) = {}
           /\ InPack \cap (InPacked \cup InTrain) = {}
           /\ InPacked \cap InTrain = {}
           /\ Distinct(queue)
           /\ InQueue \subseteq InStages /\ InPack \subseteq InStages
           /\ InPacked \subseteq InStages /\ InTrain \subseteq InStages
BY DEF OnePlace, InStages

(* The end of the queue is no group.                                       *)
LEMMA QueueEnds ==
    ASSUME TypeOK, OnePlace, queue' \in {queue, Append(queue, None)}
    PROVE  InQueue' = InQueue /\ QueueGroups' = QueueGroups /\ Distinct(queue)'
<1>1. Distinct(queue) /\ queue \in Entries /\ None \in Groups \cup {None}
  BY DEF OnePlace, TypeOK, Entries
<1>2. CASE queue' = queue
  BY <1>1, <1>2 DEF InQueue, QueueGroups, Of, Distinct
<1>3. CASE queue' = Append(queue, None)
  <2>1. ToSet(queue') = ToSet(queue) \cup {None} /\ Distinct(queue')
    BY <1>1, <1>3, Appends
  <2>2. QueueGroups' = QueueGroups
    BY <2>1 DEF QueueGroups
  <2> QED
    BY <2>1, <2>2 DEF InQueue, Of, Distinct
<1> QED
  BY <1>2, <1>3

(* A place whose variable does not change does not change, and what is empty*)
(* holds nothing.                                                           *)
LEMMA PlacesSame ==
    /\ UNCHANGED pack => UNCHANGED InPack
    /\ UNCHANGED packed => UNCHANGED <<InPacked, PackedItems>>
    /\ UNCHANGED train => UNCHANGED InTrain
    /\ pack.batch' = pack.batch => UNCHANGED InPack
    /\ train.batch' = train.batch => UNCHANGED InTrain
    /\ pack.batch' = {} => InPack' = {}
    /\ pack.batch = {} => InPack = {}
    /\ train.batch' = {} => InTrain' = {}
    /\ train.batch = {} => InTrain = {}
    /\ packed = <<>> => InPacked = {} /\ PackedItems = {}
    /\ packed' = <<>> => InPacked' = {} /\ PackedItems' = {}
    /\ packed' = <<None>> => InPacked' = {} /\ PackedItems' = {}
<1>1. ToSet(<<>>) = {} /\ ToSet(<<None>>) = {None}
  BY DEF ToSet
<1> QED
  BY <1>1 DEF InPack, InPacked, InTrain, PackedItems, Of

(* Nothing moves but what ends the queue.                                  *)
LEMMA StopPlaces ==
    ASSUME TypeOK, OnePlace, UNCHANGED <<offset, worker, fate, pack, packed, train>>,
           queue' \in {queue, Append(queue, None)}
    PROVE  OnePlace'
<1>1. UNCHANGED <<InQueue, InPack, InPacked, InTrain>> /\ Distinct(queue)'
  BY QueueEnds, PlacesSame
<1> QED
  BY <1>1, StageMoves, Staged DEF InStages

(* The groups of one place get their fate.                                 *)
LEMMA Settlements ==
    ASSUME TypeOK, OnePlace, NEW groups, NEW outcome \in Fates, Settle(groups, outcome),
           NEW X \in SUBSET InStages, X = Of(groups)
    PROVE  /\ \A s \in Scenarios : s \notin X => fate'[s] = fate[s]
           /\ \A s \in X : fate'[s] \in Fates /\ fate'[s] = outcome
<1>1. X \subseteq Scenarios
  BY Places DEF OnePlace, InStages
<1>2. fate' = [s \in Scenarios |-> IF s \in X THEN outcome ELSE fate[s]]
  BY DEF Settle, Of
<1> QED
  BY <1>1, <1>2

Lost(c, flat, dropped) == IF Collapses(flat) THEN Kept(c, flat) ELSE dropped
Remains(c, flat, dropped) == IF dropped = {} THEN BatchLeft(c, flat) ELSE {}
Spent(c, flat, dropped) ==
    Of(StaleItems(c)) \cup Of(flat) \cup Of(Lost(c, flat, dropped))

(* A round moves groups from the queue to the batch or gives them a fate.  *)
LEMMA RoundPlaces ==
    ASSUME TypeOK, OnePlace, ends > 0 => done,
           NEW c, c.batch \in SUBSET Groups, IsFiniteSet(c.batch),
           Cardinality(c.batch) < MaxBatch, InQueue \cap Of(c.batch) = {},
           NEW flat \in FlatChoices(c),
           NEW dropped \in {{}, BatchLeft(c, flat)}, CollectRound(c, flat, dropped)
    PROVE  /\ \A s \in Scenarios : s \notin Spent(c, flat, dropped) => fate'[s] = fate[s]
           /\ \A s \in Scenarios \cap Spent(c, flat, dropped) :
                 /\ fate'[s] \in {"stale", "flat", "dropped"}
                 /\ fate'[s] = "dropped" => Lost(c, flat, dropped) # {}
           /\ Spent(c, flat, dropped) \subseteq InQueue \cup Of(c.batch)
           /\ InQueue' \cup Of(Remains(c, flat, dropped)) = (InQueue \cup Of(c.batch)) \ Spent(c, flat, dropped)
           /\ InQueue' \cap Of(Remains(c, flat, dropped)) = {} /\ InQueue' \subseteq InQueue
           /\ Of(Remains(c, flat, dropped)) \subseteq InQueue \cup Of(c.batch)
           /\ QueueGroups' = LeftGroups(c.batch)
           /\ Distinct(queue)'
<1> DEFINE b == c.batch
           I == Items(b)
           S == StaleItems(c)
           K == Kept(c, flat)
           L == LeftGroups(b)
           lost == Lost(c, flat, dropped)
           left == Remains(c, flat, dropped)
           X == Spent(c, flat, dropped)
<1>1. /\ QueueGroups = I \cup L /\ I \subseteq Groups /\ L \subseteq Groups
      /\ \A g \in I, h \in I : g.scenario = h.scenario => g = h
      /\ \A g \in I, h \in L : g.scenario # h.scenario
      /\ Distinct(Left(b))
  BY Parts
<1>2. /\ flat \subseteq I \ S /\ S \subseteq I
      /\ \A g \in I : g \in S \/ g \in flat \/ g \in K
      /\ \A g \in K : g \in b \/ (g \in I /\ g \notin S /\ g \notin flat)
      /\ b \subseteq K
  BY Rounds DEF Kept
<1>3. /\ (lost = K /\ left = {}) \/ (lost = {} /\ left = K)
  <2>1. CASE Collapses(flat)
    BY <2>1 DEF Lost, Remains, BatchLeft
  <2>2. CASE ~Collapses(flat)
    BY <2>2 DEF Lost, Remains, BatchLeft
  <2> QED
    BY <2>1, <2>2
<1>4. queue' \in {Left(b), Append(Left(b), None)} /\ Left(b) \in Entries
  <2>1. Left(b) \in Entries
    BY Gets
  <2>2. /\ ~Collapses(flat) => queue' = Left(c.batch) /\ UNCHANGED <<cause, ends>>
        /\ Collapses(flat) =>
              /\ cause' # None /\ (done => cause' = cause) /\ (~done => cause' = "collapse")
              /\ queue' \in {Left(c.batch), Append(Left(c.batch), None)}
              /\ mode # "local" => queue' = Left(c.batch)
    BY RoundTypes
  <2> QED
    BY <2>1, <2>2
<1>5. QueueGroups' = L /\ Distinct(queue)'
  <2>1. CASE queue' = Left(b)
    BY <1>1, <2>1 DEF QueueGroups, LeftGroups, Distinct
  <2>2. CASE queue' = Append(Left(b), None)
    <3>1. None \in Groups \cup {None}
      OBVIOUS
    <3>2. ToSet(queue') = ToSet(Left(b)) \cup {None} /\ Distinct(queue')
      BY <1>1, <1>4, <2>2, <3>1, Appends
    <3> QED
      BY <3>2 DEF QueueGroups, LeftGroups, Distinct
  <2> QED
    BY <1>4, <2>1, <2>2
<1>6. InQueue' = Of(L)
  BY <1>5 DEF InQueue, Of
<1>7. InQueue = Of(I) \cup Of(L)
  BY <1>1 DEF InQueue, Of
<1>8. \A s : s \in X <=> s \in Of(S) \/ s \in Of(flat) \/ s \in Of(lost)
  BY DEF Spent
<1>9. \A A, s : s \in Of(A) <=> \E g \in A : g.scenario = s
  BY DEF Of
<1>10. /\ \A s \in Scenarios : s \notin X => fate'[s] = fate[s]
       /\ \A s \in Scenarios \cap X :
                 /\ fate'[s] \in {"stale", "flat", "dropped"}
                 /\ fate'[s] = "dropped" => lost # {}
  <2>1. fate' = [s \in Scenarios |->
                   CASE s \in Of(S) -> "stale"
                     [] s \in Of(flat) -> "flat"
                     [] s \in Of(lost) -> "dropped"
                     [] OTHER -> fate[s]]
    BY DEF CollectRound, Of, Lost
  <2>2. \A s \in Scenarios :
           fate'[s] = CASE s \in Of(S) -> "stale"
                        [] s \in Of(flat) -> "flat"
                        [] s \in Of(lost) -> "dropped"
                        [] OTHER -> fate[s]
    BY <2>1
  <2> HIDE DEF S, lost, X
  <2>3. ASSUME NEW s \in Scenarios
        PROVE  \/ s \in Of(S) /\ fate'[s] \in {"stale", "flat", "dropped"}
               \/ s \in Of(flat) /\ fate'[s] \in {"stale", "flat"}
               \/ s \in Of(lost) /\ fate'[s] \in {"stale", "flat", "dropped"}
               \/ s \notin X /\ fate'[s] = fate[s]
    BY <1>8, <2>2
  <2>4. ASSUME NEW s \in Scenarios, s \notin X
        PROVE  fate'[s] = fate[s]
    BY <1>8, <2>3, <2>4
  <2>5. ASSUME NEW s \in Scenarios, s \in X
        PROVE  fate'[s] \in {"stale", "flat", "dropped"}
    BY <2>3, <2>5
  <2>6. ASSUME NEW s \in Scenarios, s \in X, fate'[s] = "dropped"
        PROVE  lost # {}
    <3>1. fate'[s] = CASE s \in Of(S) -> "stale"
                       [] s \in Of(flat) -> "flat"
                       [] s \in Of(lost) -> "dropped"
                       [] OTHER -> fate[s]
      BY <2>2
    <3>2. s \in Of(lost)
      <4> SUFFICES ASSUME s \notin Of(lost) PROVE FALSE
        OBVIOUS
      <4>1. s \in Of(S) \/ s \in Of(flat)
        BY <1>8, <2>6
      <4>2. fate'[s] \in {"stale", "flat"}
        BY <3>1, <4>1
      <4> QED
        BY <2>6, <4>2
    <3> QED
      BY <1>9, <3>2
  <2> QED
    BY <2>4, <2>5, <2>6
<1>11. Of(b) \cap Of(I) = {} /\ Of(b) \cap Of(L) = {} /\ Of(I) \cap Of(L) = {}
  BY <1>1, <1>7, <1>9
<1> HIDE DEF b, I, S, K, L, lost, left, X
<1>12. Of(K) \subseteq Of(b) \cup Of(I) /\ Of(b) \subseteq Of(K)
  BY <1>2, <1>9
<1>13. Of(S) \subseteq Of(I) /\ Of(flat) \subseteq Of(I)
  BY <1>2, <1>9
<1>14. Of(K) \cap (Of(S) \cup Of(flat)) = {}
  <2> SUFFICES ASSUME NEW s, s \in Of(K), s \in Of(S) \cup Of(flat) PROVE FALSE
    OBVIOUS
  <2>1. PICK g \in S \cup flat : g.scenario = s
    BY <1>9
  <2>2. PICK h \in K : h.scenario = s
    BY <1>9
  <2>3. g \in I /\ s \in Of(I)
    BY <1>2, <1>9, <2>1
  <2>4. h \notin b
    BY <1>9, <1>11, <2>2, <2>3
  <2>5. h \in I /\ h \notin S /\ h \notin flat
    BY <1>2, <2>2, <2>4
  <2>6. g = h
    BY <1>1, <2>1, <2>2, <2>3, <2>5
  <2> QED
    BY <2>1, <2>5, <2>6
<1>15. Of(I) \subseteq Of(K) \cup Of(S) \cup Of(flat)
  BY <1>2, <1>9
<1>16. (Of(lost) = Of(K) /\ Of(left) = {}) \/ (Of(lost) = {} /\ Of(left) = Of(K))
  BY <1>3, <1>9
<1>17. X \subseteq InQueue \cup Of(b)
  BY <1>7, <1>8, <1>12, <1>13, <1>16
<1>18. /\ Of(L) \cup Of(left) = (InQueue \cup Of(b)) \ X
       /\ Of(L) \cap Of(left) = {} /\ Of(L) \subseteq InQueue
       /\ Of(left) \subseteq InQueue \cup Of(b)
  BY <1>7, <1>8, <1>11, <1>12, <1>13, <1>14, <1>15, <1>16
<1> QED
  BY <1>5, <1>6, <1>10, <1>17, <1>18 DEF b, S, L, lost, left, X

(* What no step of the packing stage changes.                               *)
LEMMA PackFrames ==
    ASSUME PackActions
    PROVE  UNCHANGED PackFrame
BY DEF PackActions, PackStep, PackFails, PackStart, PackCollect, PackPrepared, PackUnusable,
       PackHandedOff, CancelPacking, UnchangedByPacking, PackFrame

(* A round of the packing stage, and what it does with the batch.          *)
LEMMA PackRound ==
    ASSUME TypeOK, PackCollect
    PROVE  /\ pack.pc = "collect" /\ UNCHANGED <<failed, handoff>>
           /\ \E flat, dropped :
                 /\ flat \in FlatChoices(pack) /\ PackOutcome(flat)
                 /\ dropped \in {{}, BatchLeft(pack, flat)} /\ CollectRound(pack, flat, dropped)
                 /\ pack.batch' = Remains(pack, flat, dropped)
                 /\ packed' = packed \/ (packed = <<>> /\ packed' = <<None>>)
<1>1. PICK flat \in FlatChoices(pack) :
         LET c == Collected(pack, flat) IN
         /\ CollectRound(pack, flat,
                         IF c.pc = "collected" /\ ~accept THEN c.batch ELSE {})
         /\ IF c.pc = "collect" THEN pack' = c /\ UNCHANGED packed
            ELSE IF ~accept THEN pack' = At("ended", 0) /\ UNCHANGED packed
            ELSE IF c.batch = {}
            THEN /\ packed = <<>> /\ packed' = <<None>>
                 /\ pack' = At("ended", 0)
            ELSE pack' = [c EXCEPT !.pc = "prepare"] /\ UNCHANGED packed
  BY DEF PackCollect
<1>2. UNCHANGED <<failed, handoff>>
  BY DEF PackCollect
<1>3. PackOutcome(flat)
  BY <1>1, PackCollects
<1>4. pack.pc = "collect"
  BY <1>3 DEF PackOutcome, CollectRound
<1>5. \A pc : At(pc, 0).batch = {} /\ PackNow(pc, flat).batch = BatchLeft(pack, flat)
  BY DEF At, PackNow
<1>6. CASE pack.batch' = BatchLeft(pack, flat)
  BY <1>2, <1>3, <1>4, <1>5, <1>6 DEF PackOutcome, Remains
<1>7. CASE pack.batch' # BatchLeft(pack, flat)
  <2>1. /\ CollectRound(pack, flat, BatchLeft(pack, flat)) /\ packed' = packed
        /\ pack.batch' = {} /\ BatchLeft(pack, flat) # {}
    BY <1>3, <1>5, <1>7 DEF PackOutcome
  <2> QED
    BY <1>2, <1>3, <1>4, <2>1 DEF Remains
<1> QED
  BY <1>6, <1>7

(* The packing stage keeps each scenario in one place.                      *)
LEMMA PackPlaces ==
    ASSUME TypeOK, OnePlace, Shape, PackActions
    PROVE  OnePlace'
<1>1. UNCHANGED <<offset, worker>> /\ UNCHANGED InTrain
  BY PackFrames, PlacesSame DEF PackFrame
<1>2. /\ InQueue \cap (InPack \cup InPacked \cup InTrain) = {}
      /\ InPack \cap (InPacked \cup InTrain) = {}
      /\ InPacked \cap InTrain = {}
      /\ Distinct(queue)
      /\ InQueue \subseteq InStages /\ InPack \subseteq InStages
      /\ InPacked \subseteq InStages /\ InTrain \subseteq InStages
  BY Staged
<1>3. pack.batch \in SUBSET Groups /\ IsFiniteSet(pack.batch)
      /\ (pack.pc = "collect" => Cardinality(pack.batch) < MaxBatch) /\ (ends > 0 => done)
  BY PackRecords DEF Shape
<1>4. \A pc, n : At(pc, n).batch = {}
  BY DEF At
<1>5. UNCHANGED queue => InQueue' = InQueue /\ Distinct(queue)'
  BY QueueEnds
<1>6. CASE PackStart \/ PackHandedOff
  <2>1. UNCHANGED <<queue, packed, fate>> /\ pack.batch' = {} /\ pack.batch = {}
    BY <1>4, <1>6 DEF PackStart, PackHandedOff, stopVars, Shape
  <2>2. UNCHANGED <<InQueue, InPack, InPacked, InTrain>> /\ Distinct(queue)'
    BY <1>1, <1>5, <2>1, PlacesSame
  <2> QED
    BY <1>1, <1>2, <2>1, <2>2, StageMoves DEF InStages
<1>7. CASE PackPrepared /\ accept
  <2> DEFINE i == [batch |-> pack.batch, step |-> pack.step, sentinel |-> pack.sentinel]
  <2>1. UNCHANGED <<queue, fate>> /\ packed = <<>> /\ packed' = <<i>>
        /\ pack' = [pack EXCEPT !.pc = "handoff", !.batch = {}]
    BY <1>7 DEF PackPrepared, stopVars
  <2>2. pack.batch' = {}
    BY <2>1, PackRecords DEF Stage
  <2>3. PackedItems' = {i}
    <3>1. i \in Prepared
      BY PackRecords DEF Prepared, Stage
    <3>2. ToSet(<<i>>) = {i} /\ i # None
      BY <3>1, Constants DEF ToSet
    <3> HIDE DEF i
    <3> QED
      BY <2>1, <3>2 DEF PackedItems
  <2>4. InPacked' = InPack
    <3>1. UNION {j.batch : j \in PackedItems'} = pack.batch
      BY <2>3
    <3> QED
      BY <3>1 DEF InPacked, InPack, Of
  <2>5. InPack' = {} /\ InPacked = {} /\ InQueue' = InQueue /\ Distinct(queue)'
    BY <1>5, <2>1, <2>2, PlacesSame
  <2> HIDE DEF i
  <2> QED
    BY <1>1, <1>2, <2>1, <2>4, <2>5, StageMoves DEF InStages
<1>8. CASE \/ PackPrepared /\ ~accept
           \/ PackUnusable
           \/ PackFails \/ CancelPacking
  <2>1. PICK outcome \in {"dropped", "unusable"} : Settle(pack.batch, outcome)
    BY <1>8 DEF PackPrepared, PackUnusable, PackFails, CancelPacking
  <2>2. UNCHANGED queue /\ pack.batch' = {}
        /\ (packed' = packed \/ (packed = <<>> /\ packed' = <<None>>))
    BY <1>4, <1>8 DEF PackPrepared, PackUnusable, PackFails, CancelPacking, stopVars
  <2>3. InPack' = {} /\ InPacked' = InPacked /\ InQueue' = InQueue /\ Distinct(queue)'
    BY <1>5, <2>2, PlacesSame
  <2>4. outcome \in Fates /\ InPack = Of(pack.batch) /\ InPack \in SUBSET InStages
    BY <1>2, <2>1 DEF Fates, InPack
  <2>5. /\ \A s \in Scenarios : s \notin InPack => fate'[s] = fate[s]
        /\ \A s \in InPack : fate'[s] \in Fates
    BY <2>1, <2>4, Settlements
  <2> QED
    BY <1>1, <1>2, <2>3, <2>4, <2>5, StageMoves DEF InStages
<1>9. CASE PackCollect
  <2>1. PICK flat, dropped :
           /\ flat \in FlatChoices(pack)
           /\ dropped \in {{}, BatchLeft(pack, flat)} /\ CollectRound(pack, flat, dropped)
           /\ pack.batch' = Remains(pack, flat, dropped)
           /\ packed' = packed \/ (packed = <<>> /\ packed' = <<None>>)
    BY <1>9, PackRound
  <2>2. pack.pc = "collect"
    BY <1>9, PackRound
  <2> DEFINE X == Spent(pack, flat, dropped)
             left == Remains(pack, flat, dropped)
  <2>3. InQueue \cap Of(pack.batch) = {}
    BY <1>2 DEF InPack
  <2>4. /\ \A s \in Scenarios : s \notin X => fate'[s] = fate[s]
        /\ \A s \in Scenarios \cap X :
              /\ fate'[s] \in {"stale", "flat", "dropped"}
              /\ fate'[s] = "dropped" => Lost(pack, flat, dropped) # {}
        /\ X \subseteq InQueue \cup Of(pack.batch)
        /\ InQueue' \cup Of(left) = (InQueue \cup Of(pack.batch)) \ X
        /\ InQueue' \cap Of(left) = {} /\ InQueue' \subseteq InQueue
        /\ Of(left) \subseteq InQueue \cup Of(pack.batch)
        /\ QueueGroups' = LeftGroups(pack.batch)
        /\ Distinct(queue)'
    BY <1>3, <2>1, <2>2, <2>3, RoundPlaces
  <2>5. InPack' = Of(left) /\ InPack = Of(pack.batch) /\ InPacked' = InPacked
    BY <2>1, PlacesSame DEF InPack
  <2> HIDE DEF X, left
  <2>6. X \in SUBSET InStages
    BY <1>2, <2>4, <2>5
  <2>7. \A s \in X : fate'[s] \in Fates
    <3>1. X \subseteq Scenarios
      BY <2>6, Places DEF OnePlace, InStages
    <3> QED
      BY <2>4, <3>1 DEF Fates
  <2>8. /\ InQueue' \cup InPack' \cup InPacked' \cup InTrain' = InStages \ X
        /\ InQueue' \cap (InPack' \cup InPacked' \cup InTrain') = {}
        /\ InPack' \cap (InPacked' \cup InTrain') = {}
        /\ InPacked' \cap InTrain' = {}
    BY <1>1, <1>2, <2>4, <2>5 DEF InStages
  <2> QED
    BY <1>1, <2>4, <2>6, <2>7, <2>8, StageMoves
<1> QED
  BY <1>6, <1>7, <1>8, <1>9 DEF PackActions, PackStep

(* A round of the training stage.                                          *)
LEMMA TrainRound ==
    ASSUME TypeOK, TrainCollect
    PROVE  /\ train.pc = "collect"
           /\ UNCHANGED <<version, finished, failed, packed, handoff, accept, post>>
           /\ \E flat \in FlatChoices(train) :
                 /\ TrainOutcome(flat) /\ CollectRound(train, flat, {})
                 /\ train.batch' = Remains(train, flat, {})
<1>1. PICK flat \in FlatChoices(train) :
         LET c == Collected(train, flat) IN
         /\ CollectRound(train, flat, {})
         /\ IF c.pc = "collect" THEN train' = c /\ UNCHANGED next
            ELSE IF c.batch = {}
            THEN train' = [c EXCEPT !.pc = "wrap"] /\ UNCHANGED next
            ELSE StartTraining(c.batch, c.sentinel, c.step)
  BY DEF TrainCollect
<1>2. UNCHANGED <<version, finished, failed, packed, handoff, accept, post>>
  BY DEF TrainCollect
<1>3. TrainOutcome(flat)
  BY <1>1, TrainCollects
<1>4. CollectRound(train, flat, {}) /\ train.pc = "collect"
  BY <1>3 DEF TrainOutcome, CollectRound
<1>5. \A pc : TrainNow(pc, flat).batch = BatchLeft(train, flat)
  BY DEF TrainNow
<1>6. \A b, sentinel, taken : StartTraining(b, sentinel, taken) => train.batch' = b
  BY DEF StartTraining
<1>7. train.batch' = BatchLeft(train, flat)
  BY <1>3, <1>5, <1>6 DEF TrainOutcome
<1> QED
  BY <1>2, <1>3, <1>4, <1>7 DEF Remains

(* What is prepared is discarded.                                          *)
LEMMA DiscardPlaces ==
    ASSUME TypeOK, OnePlace, DiscardPrepared, UNCHANGED <<offset, worker>>,
           pack.batch' = pack.batch, train.batch' = train.batch,
           queue' \in {queue, Append(queue, None)}
    PROVE  OnePlace'
<1>1. /\ packed' = <<>>
      /\ fate' = [s \in Scenarios |-> IF s \in InPacked THEN "dropped" ELSE fate[s]]
  BY Discards
<1>2. InPack' = InPack /\ InTrain' = InTrain /\ InPacked' = {} /\ InQueue' = InQueue
      /\ Distinct(queue)'
  BY <1>1, PlacesSame, QueueEnds
<1>3. /\ InQueue \cap (InPack \cup InPacked \cup InTrain) = {}
      /\ InPack \cap (InPacked \cup InTrain) = {}
      /\ InPacked \cap InTrain = {}
      /\ InPacked \subseteq InStages
  BY Staged
<1>4. InPacked \subseteq Scenarios
  BY Places
<1>5. /\ \A s \in Scenarios : s \notin InPacked => fate'[s] = fate[s]
      /\ \A s \in InPacked : fate'[s] \in Fates
  BY <1>1, <1>4 DEF Fates
<1> QED
  BY <1>2, <1>3, <1>5, StageMoves DEF InStages

(* The training stage keeps each scenario in one place.                     *)
LEMMA TrainPlaces ==
    ASSUME TypeOK, OnePlace, Shape, TrainActions
    PROVE  OnePlace'
<1>1. UNCHANGED <<offset, worker>> /\ UNCHANGED InPack
  BY TrainFrames, PlacesSame DEF TrainFrame
<1>2. /\ InQueue \cap (InPack \cup InPacked \cup InTrain) = {}
      /\ InPack \cap (InPacked \cup InTrain) = {}
      /\ InPacked \cap InTrain = {}
      /\ Distinct(queue)
      /\ InQueue \subseteq InStages /\ InPack \subseteq InStages
      /\ InPacked \subseteq InStages /\ InTrain \subseteq InStages
  BY Staged
<1>3. train.batch \in SUBSET Groups /\ IsFiniteSet(train.batch)
      /\ (train.pc = "collect" => Cardinality(train.batch) < MaxBatch) /\ (ends > 0 => done)
      /\ (train.pc \notin {"collect", "train", "trained"} => train.batch = {})
  BY Trains DEF Shape
<1>4. /\ \A pc \in {"trained", "wrap", "wrapped", "finish", "ended"} :
            [train EXCEPT !.pc = pc].batch = train.batch
      /\ \A pc \in {"raising", "ended"} : [train EXCEPT !.pc = pc, !.batch = {}].batch = {}
      /\ \A pc \in {"wrap", "get", "collect"} :
            [train EXCEPT !.batch = {}, !.sentinel = FALSE, !.pc = pc].batch = {}
  BY Trains
<1>5. UNCHANGED queue => InQueue' = InQueue /\ Distinct(queue)'
  BY QueueEnds
<1>6. ASSUME UNCHANGED <<queue, packed, fate>>, train.batch' = train.batch
      PROVE  OnePlace'
  <2>1. UNCHANGED <<InQueue, InPack, InPacked, InTrain>> /\ Distinct(queue)'
    BY <1>1, <1>5, <1>6, PlacesSame
  <2> QED
    BY <1>1, <1>2, <1>6, <2>1, StageMoves DEF InStages
<1>7. CASE \/ TrainTop \/ TrainDispatched \/ TrainReturns \/ TrainRaised
           \/ TrainWrap \/ TrainRefuses
  <2>1. UNCHANGED <<queue, packed, fate>>
    BY <1>7 DEF TrainTop, TrainDispatched, TrainReturns, TrainRaised, TrainWrap, TrainRefuses,
                stopVars
  <2>2. train.batch' = train.batch
    BY <1>3, <1>4, <1>7 DEF TrainTop, TrainDispatched, TrainReturns, TrainRaised, TrainWrap,
                            TrainRefuses
  <2> QED
    BY <1>6, <2>1, <2>2
<1>8. CASE TrainGet
  <2>1. /\ packed # <<>> /\ packed' = <<>> /\ UNCHANGED <<queue, fate>> /\ train.batch = {}
    BY <1>3, <1>8 DEF TrainGet, stopVars
  <2>2. /\ Head(packed) \in Prepared \cup {None} /\ PackedItems = {Head(packed)} \ {None}
    BY <2>1, PackedCases DEF TypeOK
  <2>3. InTrain = {} /\ InPacked' = {} /\ InQueue' = InQueue /\ Distinct(queue)'
    BY <1>5, <2>1, PlacesSame
  <2>4. InTrain' = InPacked
    <3>1. CASE Head(packed) = None
      <4>1. train.batch' = {}
        BY <1>4, <1>8, <2>1, <3>1 DEF TrainGet
      <4>2. InPacked = {}
        BY <2>2, <3>1 DEF InPacked, Of
      <4> QED
        BY <4>1, <4>2, PlacesSame
    <3>2. CASE Head(packed) # None
      <4>1. train.batch' = Head(packed).batch
        BY <1>8, <3>2 DEF TrainGet, StartTraining
      <4>2. UNION {i.batch : i \in PackedItems} = Head(packed).batch
        BY <2>2, <3>2
      <4> QED
        BY <4>1, <4>2 DEF InPacked, InTrain, Of
    <3> QED
      BY <3>1, <3>2
  <2> QED
    BY <1>1, <1>2, <2>1, <2>3, <2>4, StageMoves DEF InStages
<1>9. CASE TrainRaises \/ CancelTraining \/ Publish
  <2>1. PICK outcome \in {"dropped", "trained"} : Settle(train.batch, outcome)
    BY <1>9 DEF TrainRaises, CancelTraining, Publish
  <2>2. UNCHANGED <<queue, packed>>
    BY <1>9 DEF TrainRaises, CancelTraining, Publish, stopVars
  <2>3. train.batch' = {}
    <3>1. CASE Publish
      <4> DEFINE pc == IF train.sentinel THEN "wrap" ELSE "top"
                 n == train.step + 1
      <4>1. train' = [train EXCEPT !.pc = pc, !.step = n, !.batch = {}]
        BY <3>1 DEF Publish
      <4>2. train \in TrainStates
        BY Trains
      <4> HIDE DEF pc, n
      <4> QED
        BY <4>1, <4>2 DEF TrainStates
    <3>2. CASE TrainRaises \/ CancelTraining
      BY <1>4, <3>2 DEF TrainRaises, CancelTraining
    <3> QED
      BY <1>9, <3>1, <3>2
  <2>4. InTrain' = {} /\ InPacked' = InPacked /\ InQueue' = InQueue /\ Distinct(queue)'
    BY <1>5, <2>2, <2>3, PlacesSame
  <2>5. outcome \in Fates /\ InTrain = Of(train.batch) /\ InTrain \in SUBSET InStages
    BY <1>2, <2>1 DEF Fates, InTrain
  <2>6. /\ \A s \in Scenarios : s \notin InTrain => fate'[s] = fate[s]
        /\ \A s \in InTrain : fate'[s] \in Fates
    BY <2>1, <2>5, Settlements
  <2> QED
    BY <1>1, <1>2, <2>4, <2>5, <2>6, StageMoves DEF InStages
<1>10. CASE TrainFinishes
  <2>1. DiscardPrepared /\ train.batch' = train.batch
    BY <1>4, <1>10 DEF TrainFinishes
  <2>2. queue' \in {queue, Append(queue, None)}
    BY <1>10 DEF TrainFinishes, RequestStop
  <2>3. pack.batch' = pack.batch
    BY TrainFrames DEF TrainFrame
  <2> QED
    BY <1>1, <2>1, <2>2, <2>3, DiscardPlaces
<1>11. CASE TrainCollect
  <2>1. PICK flat \in FlatChoices(train) :
           CollectRound(train, flat, {}) /\ train.batch' = Remains(train, flat, {})
    BY <1>11, TrainRound
  <2>2. train.pc = "collect" /\ UNCHANGED packed /\ {} \in {{}, BatchLeft(train, flat)}
    BY <1>11, TrainRound
  <2> DEFINE X == Spent(train, flat, {})
             left == Remains(train, flat, {})
  <2>3. InQueue \cap Of(train.batch) = {}
    BY <1>2 DEF InTrain
  <2>4. /\ \A s \in Scenarios : s \notin X => fate'[s] = fate[s]
        /\ \A s \in Scenarios \cap X :
              /\ fate'[s] \in {"stale", "flat", "dropped"}
              /\ fate'[s] = "dropped" => Lost(train, flat, {}) # {}
        /\ X \subseteq InQueue \cup Of(train.batch)
        /\ InQueue' \cup Of(left) = (InQueue \cup Of(train.batch)) \ X
        /\ InQueue' \cap Of(left) = {} /\ InQueue' \subseteq InQueue
        /\ Of(left) \subseteq InQueue \cup Of(train.batch)
        /\ QueueGroups' = LeftGroups(train.batch)
        /\ Distinct(queue)'
    BY <1>3, <2>1, <2>2, <2>3, RoundPlaces
  <2>5. InTrain' = Of(left) /\ InTrain = Of(train.batch) /\ InPacked' = InPacked
    BY <2>1, <2>2, PlacesSame DEF InTrain
  <2> HIDE DEF X, left
  <2>6. X \in SUBSET InStages
    BY <1>2, <2>4, <2>5
  <2>7. \A s \in X : fate'[s] \in Fates
    <3>1. X \subseteq Scenarios
      BY <2>6, Places DEF OnePlace, InStages
    <3> QED
      BY <2>4, <3>1 DEF Fates
  <2>8. /\ InQueue' \cup InPack' \cup InPacked' \cup InTrain' = InStages \ X
        /\ InQueue' \cap (InPack' \cup InPacked' \cup InTrain') = {}
        /\ InPack' \cap (InPacked' \cup InTrain') = {}
        /\ InPacked' \cap InTrain' = {}
    BY <1>1, <1>2, <2>4, <2>5 DEF InStages
  <2> QED
    BY <1>1, <2>4, <2>6, <2>7, <2>8, StageMoves
<1> QED
  BY <1>7, <1>8, <1>9, <1>10, <1>11 DEF TrainActions, TrainStep

(* Workers that wait for the policy go on with the scenarios they have.    *)
LEMMA NotifyPlaces ==
    ASSUME TypeOK, OnePlace, PostNotify
    PROVE  /\ OnePlace'
           /\ \A w \in Workers : worker'[w].scenario = worker[w].scenario
<1>1. UNCHANGED <<offset, fate, queue, pack, packed, train>>
  BY DEF PostNotify, queueVars, packVars
<1>2. \A w \in Workers : worker'[w].scenario = worker[w].scenario
  <2>1. ASSUME NEW w \in Workers
        PROVE  [worker[w] EXCEPT !.pc = "gate"].scenario = worker[w].scenario
    BY WorkerStates DEF WorkerRecords
  <2>2. worker' = [w \in Workers |->
                      IF worker[w].pc = "waiting" THEN [worker[w] EXCEPT !.pc = "gate"]
                      ELSE worker[w]]
    BY DEF PostNotify
  <2> QED
    BY <2>1, <2>2
<1>3. InWorkers' = InWorkers
  BY <1>2 DEF InWorkers
<1>4. UNCHANGED <<Open, InPack, InPacked, InTrain, InQueue>> /\ Distinct(queue)'
  BY <1>1, PlacesSame, QueueEnds DEF Open
<1>5. \A v, w \in Workers :
         worker'[v].scenario = worker'[w].scenario => worker'[v].scenario = None \/ v = w
  BY <1>2 DEF OnePlace
<1> QED
  BY <1>1, <1>2, <1>3, <1>4, <1>5 DEF OnePlace

(* What the stop actions change.                                            *)
LEMMA StopSteps ==
    ASSUME StopActions
    PROVE  /\ UNCHANGED <<mode, maxOff, version, next, offset, exhausted, failed, worker, packVars,
                          accept, train, post, zeros, run, fate>>
           /\ queue' \in {queue, Append(queue, None)}
BY DEF StopActions, RolloutStage, SignalStop, DeliverEnd, RequestStop

(* The post-train task, the cleanup and the return keep each scenario in one*)
(* place.                                                                   *)
LEMMA RunPlaces ==
    ASSUME TypeOK, OnePlace, RunActions
    PROVE  OnePlace'
<1>1. CASE PostNotify
  BY <1>1, NotifyPlaces
<1>2. CASE PostFinish \/ Return
  <2>1. UNCHANGED <<offset, worker, fate, pack, packed, train>>
        /\ queue' \in {queue, Append(queue, None)}
    BY <1>2 DEF PostFinish, Return, queueVars, packVars
  <2> QED
    BY <2>1, StopPlaces
<1>3. CASE Cleanup
  <2>1. DiscardPrepared /\ UNCHANGED <<offset, worker>>
        /\ pack.batch' = pack.batch /\ train.batch' = train.batch
        /\ queue' \in {queue, Append(queue, None)}
    BY <1>3 DEF Cleanup, RequestStop, stopVars
  <2> QED
    BY <2>1, DiscardPlaces
<1> QED
  BY <1>1, <1>2, <1>3 DEF RunActions

(* A stage that fails settles what it had in hand.                          *)
LEMMA FailPlaces ==
    ASSUME TypeOK, OnePlace, Shape, FailActions
    PROVE  OnePlace' /\ \A s \in Scenarios : s \in Open \/ fate'[s] = fate[s]
<1>0. InStages \subseteq Open
  BY DEF OnePlace, InStages
<1>1. UNCHANGED <<offset, worker, packed>>
  BY Fails DEF FailFrame
<1>2. /\ InQueue \cap (InPack \cup InPacked \cup InTrain) = {}
      /\ InPack \cap (InPacked \cup InTrain) = {}
      /\ InPacked \cap InTrain = {}
      /\ Distinct(queue)
      /\ InQueue \subseteq InStages /\ InPack \subseteq InStages
      /\ InPacked \subseteq InStages /\ InTrain \subseteq InStages
  BY Staged
<1>3. "dropped" \in Fates
  BY DEF Fates
<1>4. \A A, s : s \in Of(A) <=> \E g \in A : g.scenario = s
  BY DEF Of
<1>5. InPacked' = InPacked
  BY <1>1, PlacesSame
<1>6. ASSUME NEW b, IsFiniteSet(b), Cardinality(b) < MaxBatch, queue' = Left(b),
             Of(b) \subseteq InStages, Of(b) \cap InQueue = {},
             Settle(b \cup Items(b), "dropped")
      PROVE  /\ \E X \in SUBSET InStages :
                   /\ X = Of(b) \cup (InQueue \ InQueue')
                   /\ \A s \in Scenarios : s \notin X => fate'[s] = fate[s]
                   /\ \A s \in X : fate'[s] \in Fates
             /\ InQueue' \subseteq InQueue /\ Distinct(queue)'
  <2>1. /\ QueueGroups = Items(b) \cup LeftGroups(b)
        /\ \A g \in Items(b), h \in LeftGroups(b) : g.scenario # h.scenario
        /\ Distinct(Left(b))
    BY <1>6, Parts
  <2>2. QueueGroups' = LeftGroups(b) /\ Distinct(queue)'
    BY <1>6, <2>1 DEF QueueGroups, LeftGroups, Distinct
  <2>3. InQueue' = Of(LeftGroups(b)) /\ InQueue = Of(Items(b)) \cup Of(LeftGroups(b))
    BY <2>1, <2>2 DEF InQueue, Of
  <2>4. Of(Items(b)) \cap Of(LeftGroups(b)) = {}
    BY <1>4, <2>1
  <2>5. Of(b \cup Items(b)) = Of(b) \cup Of(Items(b))
    BY DEF Of
  <2>6. Of(b \cup Items(b)) = Of(b) \cup (InQueue \ InQueue')
        /\ Of(b \cup Items(b)) \in SUBSET InStages
    BY <1>2, <1>6, <2>3, <2>4, <2>5
  <2>7. /\ \A s \in Scenarios : s \notin Of(b \cup Items(b)) => fate'[s] = fate[s]
        /\ \A s \in Of(b \cup Items(b)) : fate'[s] \in Fates
    BY <1>3, <1>6, <2>6, Settlements
  <2> QED
    BY <2>2, <2>3, <2>6, <2>7
<1>7. CASE /\ pack.pc = "collect" /\ pack' = At("ended", 0) /\ UNCHANGED train
           /\ queue' = Left(pack.batch)
           /\ Settle(pack.batch \cup Items(pack.batch), "dropped")
  <2>1. InPack' = {} /\ InTrain' = InTrain /\ InPack = Of(pack.batch)
    BY <1>7, PackRecords, PlacesSame DEF InPack
  <2>2. IsFiniteSet(pack.batch) /\ Cardinality(pack.batch) < MaxBatch
    BY <1>7 DEF Shape
  <2>3. /\ \E X \in SUBSET InStages :
              /\ X = InPack \cup (InQueue \ InQueue')
              /\ \A s \in Scenarios : s \notin X => fate'[s] = fate[s]
              /\ \A s \in X : fate'[s] \in Fates
        /\ InQueue' \subseteq InQueue /\ Distinct(queue)'
    BY <1>2, <1>6, <1>7, <2>1, <2>2
  <2>4. PICK X \in SUBSET InStages :
           /\ X = InPack \cup (InQueue \ InQueue')
           /\ \A s \in Scenarios : s \notin X => fate'[s] = fate[s]
           /\ \A s \in X : fate'[s] \in Fates
    BY <2>3
  <2>5. /\ InQueue' \cup InPack' \cup InPacked' \cup InTrain' = InStages \ X
        /\ InQueue' \cap (InPack' \cup InPacked' \cup InTrain') = {}
        /\ InPack' \cap (InPacked' \cup InTrain') = {}
        /\ InPacked' \cap InTrain' = {}
    BY <1>2, <1>5, <2>1, <2>3, <2>4 DEF InStages
  <2> QED
    BY <1>0, <1>1, <2>3, <2>4, <2>5, StageMoves
<1>8. CASE /\ train.pc = "collect" /\ UNCHANGED pack
           /\ train' = [train EXCEPT !.pc = "ended", !.batch = {}]
           /\ queue' = Left(train.batch)
           /\ Settle(train.batch \cup Items(train.batch), "dropped")
  <2>1. InTrain' = {} /\ InPack' = InPack /\ InTrain = Of(train.batch)
    BY <1>8, Trains, PlacesSame DEF InTrain
  <2>2. IsFiniteSet(train.batch) /\ Cardinality(train.batch) < MaxBatch
    BY <1>8 DEF Shape
  <2>3. /\ \E X \in SUBSET InStages :
              /\ X = InTrain \cup (InQueue \ InQueue')
              /\ \A s \in Scenarios : s \notin X => fate'[s] = fate[s]
              /\ \A s \in X : fate'[s] \in Fates
        /\ InQueue' \subseteq InQueue /\ Distinct(queue)'
    BY <1>2, <1>6, <1>8, <2>1, <2>2
  <2>4. PICK X \in SUBSET InStages :
           /\ X = InTrain \cup (InQueue \ InQueue')
           /\ \A s \in Scenarios : s \notin X => fate'[s] = fate[s]
           /\ \A s \in X : fate'[s] \in Fates
    BY <2>3
  <2>5. /\ InQueue' \cup InPack' \cup InPacked' \cup InTrain' = InStages \ X
        /\ InQueue' \cap (InPack' \cup InPacked' \cup InTrain') = {}
        /\ InPack' \cap (InPacked' \cup InTrain') = {}
        /\ InPacked' \cap InTrain' = {}
    BY <1>2, <1>5, <2>1, <2>3, <2>4 DEF InStages
  <2> QED
    BY <1>0, <1>1, <2>3, <2>4, <2>5, StageMoves
<1>9. CASE /\ train.pc = "train" /\ UNCHANGED <<pack, queue>>
           /\ train' = [train EXCEPT !.pc = "ended", !.batch = {}]
           /\ Settle(train.batch, "dropped")
  <2>1. InTrain' = {} /\ InPack' = InPack /\ InTrain = Of(train.batch)
    BY <1>9, Trains, PlacesSame DEF InTrain
  <2>2. InQueue' = InQueue /\ Distinct(queue)'
    BY <1>9, QueueEnds
  <2>3. /\ InTrain \in SUBSET InStages
        /\ \A s \in Scenarios : s \notin InTrain => fate'[s] = fate[s]
        /\ \A s \in InTrain : fate'[s] \in Fates
    BY <1>2, <1>3, <1>9, <2>1, Settlements
  <2>4. /\ InQueue' \cup InPack' \cup InPacked' \cup InTrain' = InStages \ InTrain
        /\ InQueue' \cap (InPack' \cup InPacked' \cup InTrain') = {}
        /\ InPack' \cap (InPacked' \cup InTrain') = {}
        /\ InPacked' \cap InTrain' = {}
    BY <1>2, <1>5, <2>1, <2>2 DEF InStages
  <2> QED
    BY <1>0, <1>1, <2>2, <2>3, <2>4, StageMoves
<1> QED
  BY <1>7, <1>8, <1>9, Fails

(* Every step keeps each scenario in one place, or settles its fate.        *)
LEMMA PlacesNext ==
    ASSUME TypeOK, OnePlace, Shape, Next
    PROVE  OnePlace'
<1>1. CASE WorkerActions
  BY <1>1, WorkerPlaces DEF WorkerActions
<1>2. CASE StopActions
  BY <1>2, StopSteps, StopPlaces DEF packVars
<1>3. CASE PackActions
  BY <1>3, PackPlaces
<1>4. CASE TrainActions
  BY <1>4, TrainPlaces
<1>5. CASE RunActions
  BY <1>5, RunPlaces
<1>6. CASE FailActions
  BY <1>6, FailPlaces
<1> QED
  BY <1>1, <1>2, <1>3, <1>4, <1>5, <1>6, Actions

-----------------------------------------------------------------------------
(* What is in hand at each point.                                          *)

(* A worker ends, and gives up its scenario, for a reason; one that raised  *)
(* only goes away when the pipeline stops or fails.                         *)
LEMMA WorkerReasons ==
    ASSUME TypeOK, Shape, NEW w \in Workers, WorkerStep(w) \/ FatalRollout(w)
    PROVE  /\ worker[w].pc # "ended"
           /\ worker'[w].scenario = None <=> worker'[w].pc \in {"idle", "raised", "ended"}
           /\ worker[w].pc = "raised" => done \/ failed'
           /\ worker'[w].pc = "ended" => done \/ failed' \/ exhausted'
           /\ exhausted => exhausted' /\ offset' = offset
           /\ exhausted' => exhausted \/ (offset = ScenarioCount /\ offset' = offset)
           /\ failed => failed'
           /\ \A s \in Scenarios : fate'[s] # fate[s] =>
                 \/ fate'[s] = "errored"
                 \/ /\ fate'[s] = "dropped"
                    /\ done \/ failed' \/ finished \/ worker'[w].pc = "raised"
<1>1. worker \in [Workers -> WorkerRecords] /\ worker[w] \in WorkerRecords
      /\ fate \in [Scenarios -> Fates \cup {None}] /\ exhausted \in BOOLEAN /\ failed \in BOOLEAN
  BY WorkerStates DEF TypeOK
<1>2. \A x : Become(w, x) => worker'[w] = x
  BY <1>1 DEF Become
<1>3. worker[w].scenario = None <=> worker[w].pc \in {"idle", "raised", "ended"}
  BY DEF Shape
<1>4. /\ Idle.scenario = None /\ Gone.scenario = None /\ Raised.scenario = None
      /\ Idle.pc = "idle" /\ Gone.pc = "ended" /\ Raised.pc = "raised"
  BY DEF Idle, Gone, Raised
<1>5. ASSUME NEW x, Abandon(w, x)
      PROVE  worker'[w] = x /\ \A s \in Scenarios : fate'[s] \in {fate[s], "dropped"}
  BY <1>1, <1>2, <1>5 DEF Abandon, Settle
<1>6. None \notin Scenarios /\ offset + 1 # None
  BY Constants DEF TypeOK
<1>7. CASE GetNextScenario(w)
  <2>1. CASE done \/ exhausted \/ offset = ScenarioCount
    BY <1>1, <1>2, <1>4, <1>7, <2>1 DEF GetNextScenario, UnchangedByWorkers
  <2>2. CASE ~(done \/ exhausted \/ offset = ScenarioCount)
    <3>1. /\ worker'[w] = [pc |-> "gate", scenario |-> offset + 1, born |-> 0]
          /\ UNCHANGED <<exhausted, failed, fate>> /\ worker[w].pc = "idle"
      BY <1>2, <1>7, <2>2 DEF GetNextScenario
    <3> QED
      BY <1>1, <1>6, <2>2, <3>1
  <2> QED
    BY <2>1, <2>2
<1>8. CASE WaitForPolicy(w)
  <2>1. worker[w].pc = "gate" /\ UNCHANGED <<offset, exhausted, failed>>
    BY <1>8 DEF WaitForPolicy
  <2>2. CASE done
    BY <1>1, <1>4, <1>5, <1>8, <2>1, <2>2 DEF WaitForPolicy
  <2>3. CASE ~done
    <3>1. /\ worker'[w] \in {[worker[w] EXCEPT !.pc = "waiting"],
                             [worker[w] EXCEPT !.pc = "rollout", !.born = version]}
          /\ UNCHANGED fate
      BY <1>2, <1>8, <2>3 DEF WaitForPolicy
    <3>2. worker'[w].scenario = worker[w].scenario /\ worker'[w].pc \in {"waiting", "rollout"}
      BY <1>1, <3>1 DEF WorkerRecords
    <3> QED
      BY <1>1, <1>3, <2>1, <3>1, <3>2
  <2> QED
    BY <2>2, <2>3
<1>9. CASE FinishRollout(w)
  <2>1. worker[w].pc = "rollout" /\ UNCHANGED <<offset, exhausted, failed>>
    BY <1>9 DEF FinishRollout
  <2>2. CASE done /\ Abandon(w, Gone)
    BY <1>1, <1>4, <1>5, <2>1, <2>2
  <2>3. CASE Become(w, [worker[w] EXCEPT !.pc = "putting"]) /\ UNCHANGED fate
    <3>1. worker'[w].scenario = worker[w].scenario /\ worker'[w].pc = "putting"
      BY <1>1, <1>2, <2>3 DEF WorkerRecords
    <3> QED
      BY <1>1, <1>3, <2>1, <2>3, <3>1
  <2>4. CASE Become(w, Idle) /\ Settle({worker[w]}, "errored")
    <3>1. \A s \in Scenarios : fate'[s] \in {fate[s], "errored"}
      BY <2>4 DEF Settle
    <3> QED
      BY <1>1, <1>2, <1>4, <2>1, <2>4, <3>1
  <2> QED
    BY <1>9, <2>2, <2>3, <2>4 DEF FinishRollout
<1>10. CASE PutOutputGroup(w)
  <2>1. worker[w].pc = "putting" /\ UNCHANGED <<offset, exhausted, failed>>
    BY <1>10 DEF PutOutputGroup
  <2>2. CASE Become(w, Idle) /\ UNCHANGED fate
    BY <1>1, <1>2, <1>4, <2>1, <2>2
  <2>3. CASE Abandon(w, Idle) /\ (IF mode = "local" THEN done ELSE finished)
    BY <1>1, <1>4, <1>5, <2>1, <2>3
  <2> QED
    BY <1>10, <2>2, <2>3 DEF PutOutputGroup
<1>11. CASE CancelWorker(w)
  <2>1. /\ Abandon(w, Gone) /\ worker[w].pc # "ended" /\ UNCHANGED <<offset, exhausted>>
        /\ (done \/ failed') /\ (failed => failed')
    BY <1>1, <1>11 DEF CancelWorker
  <2> QED
    BY <1>1, <1>4, <1>5, <2>1
<1>12. CASE FatalRollout(w)
  <2>1. Abandon(w, Raised) /\ worker[w].pc = "rollout" /\ UNCHANGED <<offset, exhausted, failed>>
    BY <1>12 DEF FatalRollout
  <2> QED
    BY <1>1, <1>4, <1>5, <2>1
<1>13. CASE NoticeRaised(w)
  <2>1. /\ worker'[w] = Gone /\ worker[w].pc = "raised" /\ failed' = TRUE
        /\ UNCHANGED <<offset, exhausted, fate>>
    BY <1>2, <1>13 DEF NoticeRaised
  <2> QED
    BY <1>1, <1>4, <2>1
<1> QED
  BY <1>7, <1>8, <1>9, <1>10, <1>11, <1>12, <1>13 DEF WorkerStep

(* The workers keep the shape of the stages.                                *)
LEMMA WorkerShape ==
    ASSUME TypeOK, Shape, NEW w \in Workers, WorkerStep(w) \/ FatalRollout(w)
    PROVE  Shape'
<1>1. UNCHANGED <<mode, maxOff, cause, rollouts, ends, finished, pack, packed, train, run>>
  BY WorkerFrame DEF packVars
<1>2. /\ worker[w].pc # "ended"
      /\ worker'[w].scenario = None <=> worker'[w].pc \in {"idle", "raised", "ended"}
  BY WorkerReasons
<1>3. \A v \in Workers :
         worker'[v].scenario = None <=> worker'[v].pc \in {"idle", "raised", "ended"}
  <2>1. \A v \in Workers : v # w => worker'[v] = worker[v]
    BY WorkerTypes
  <2> QED
    BY <1>2, <2>1 DEF Shape
<1>4. mode # "local" => None \notin ToSet(queue')
  <2>1. \/ UNCHANGED queue
        \/ \E g \in Groups : queue' = Append(queue, g)
    BY WorkerMoves
  <2>2. ASSUME NEW g \in Groups, queue' = Append(queue, g)
        PROVE  ToSet(queue') = ToSet(queue) \cup {g} /\ g # None
    <3>1. queue \in Entries /\ g \in Groups \cup {None}
      BY DEF TypeOK, Entries
    <3> QED
      BY <2>2, <3>1, Appends, Constants
  <2> QED
    BY <2>1, <2>2 DEF Shape
<1>5. run = "stages"
  BY <1>2 DEF Shape, StagesEnded
<1>6. PackedItems' = PackedItems
  BY <1>1 DEF PackedItems
<1> QED
  BY <1>1, <1>3, <1>4, <1>5, <1>6 DEF Shape, done

(* The stop actions keep the shape of the stages.                           *)
LEMMA StopShape ==
    ASSUME TypeOK, Shape, StopActions
    PROVE  Shape'
<1>1. UNCHANGED <<mode, maxOff, worker, pack, packed, train, run>>
  BY StopSteps DEF packVars
<1>2. PackedItems' = PackedItems
  BY <1>1 DEF PackedItems
<1>3. /\ mode # "local" => queue' = queue
      /\ mode = "local" => finished' = finished
      /\ ends' > 0 => done'
  <2>1. ends \in 0..1 /\ (ends > 0 => done)
    BY DEF TypeOK, Shape
  <2>2. CASE RolloutStage
    BY <2>1, <2>2 DEF RolloutStage, done
  <2>3. CASE SignalStop
    <3>1. cause' = (IF done THEN cause ELSE "signal") /\ UNCHANGED finished
          /\ (mode # "local" => queue' = queue)
      BY <2>3 DEF SignalStop, RequestStop
    <3>2. "signal" # None
      BY Constants DEF Causes
    <3> QED
      BY <3>1, <3>2 DEF done
  <2>4. CASE DeliverEnd
    BY <2>1, <2>4 DEF DeliverEnd, done
  <2> QED
    BY <2>2, <2>3, <2>4 DEF StopActions
<1>4. run # "stages" => StagesEnded'
  <2>1. CASE RolloutStage
    <3>1. rollouts # "ended"
      BY <2>1 DEF RolloutStage
    <3> QED
      BY <3>1 DEF Shape, StagesEnded
  <2>2. CASE SignalStop \/ DeliverEnd
    BY <1>1, <2>2 DEF SignalStop, DeliverEnd, Shape, StagesEnded
  <2> QED
    BY <2>1, <2>2 DEF StopActions
<1> QED
  BY <1>1, <1>2, <1>3, <1>4 DEF Shape

(* What a round leaves of the queue and of the request to stop.            *)
LEMMA RoundShape ==
    ASSUME TypeOK, OnePlace, Shape,
           NEW c, c.batch \in SUBSET Groups, IsFiniteSet(c.batch),
           Cardinality(c.batch) < MaxBatch, NEW flat \in FlatChoices(c),
           NEW dropped, CollectRound(c, flat, dropped), mode' = mode
    PROVE  /\ mode # "local" => None \notin ToSet(queue')
           /\ ends' > 0 => done'
           /\ IsFiniteSet(BatchLeft(c, flat))
           /\ GoesOn(c, flat) => Cardinality(BatchLeft(c, flat)) < MaxBatch
<1>1. ends > 0 => done
  BY DEF Shape
<1>2. /\ ~Collapses(flat) => queue' = Left(c.batch) /\ UNCHANGED <<cause, ends>>
      /\ Collapses(flat) =>
            /\ cause' # None /\ (done => cause' = cause) /\ (~done => cause' = "collapse")
            /\ queue' \in {Left(c.batch), Append(Left(c.batch), None)}
            /\ mode # "local" => queue' = Left(c.batch)
  BY <1>1, RoundTypes
<1>3. None \in ToSet(Left(c.batch)) => None \in ToSet(queue)
  BY Parts
<1>4. mode # "local" => queue' = Left(c.batch)
  BY <1>2
<1>5. ends' > 0 => done'
  BY <1>1, <1>2 DEF done
<1>6. IsFiniteSet(BatchLeft(c, flat))
  BY CollectedTypes DEF BatchLeft
<1> QED
  BY <1>3, <1>4, <1>5, <1>6 DEF Shape, GoesOn, BatchLeft

(* The packing stage keeps the shape of the stages.                         *)
LEMMA PackShape ==
    ASSUME TypeOK, OnePlace, Shape, PackActions
    PROVE  Shape'
<1>1. UNCHANGED <<mode, maxOff, worker, rollouts, finished, train, run>>
  BY PackFrames DEF PackFrame
<1>2. pack.pc # "ended"
  <2>1. PackCollect => pack.pc = "collect"
    BY PackRound
  <2> QED
    BY <2>1 DEF PackActions, PackStep, PackFails, PackStart, PackPrepared, PackUnusable,
                PackHandedOff, CancelPacking
<1>3. mode = "packed" /\ run = "stages"
  BY <1>2 DEF Shape, StagesEnded
<1>4. /\ \A pc, n : At(pc, n).batch = {} /\ At(pc, n).pc = pc
      /\ IsFiniteSet({}) /\ IsFiniteSet(pack.batch)
  BY FS_EmptySet DEF At, Shape
<1>5. SUFFICES /\ None \notin ToSet(queue') /\ (ends' > 0 => done')
               /\ IsFiniteSet(pack.batch')
               /\ pack.pc' \in {"start", "handoff", "ended"} => pack.batch' = {}
               /\ pack.pc' = "prepare" => pack.batch' # {}
               /\ pack.pc' = "collect" => Cardinality(pack.batch') < MaxBatch
               /\ \A i \in PackedItems' : i.batch # {} /\ IsFiniteSet(i.batch)
                                          /\ Cardinality(i.batch) <= MaxBatch
  BY <1>1, <1>3 DEF Shape
<1>6. UNCHANGED stopVars => None \notin ToSet(queue') /\ (ends' > 0 => done')
  BY <1>3 DEF stopVars, Shape, done
<1>7. packed' = packed \/ packed' = <<None>> =>
         \A i \in PackedItems' : i.batch # {} /\ IsFiniteSet(i.batch)
                                 /\ Cardinality(i.batch) <= MaxBatch
  <2>1. CASE packed' = packed
    BY <2>1, PlacesSame DEF Shape
  <2>2. CASE packed' = <<None>>
    BY <2>2, PlacesSame
  <2> QED
    BY <2>1, <2>2
<1>8. CASE PackStart
  <2>1. Cardinality({}) < MaxBatch
    BY Constants, FS_EmptySet
  <2> QED
    BY <1>4, <1>6, <1>7, <1>8, <2>1 DEF PackStart
<1>9. CASE PackCollect
  <2>1. PICK flat, dropped :
           /\ flat \in FlatChoices(pack)
           /\ PackOutcome(flat)
           /\ dropped \in {{}, BatchLeft(pack, flat)} /\ CollectRound(pack, flat, dropped)
           /\ pack.batch' = Remains(pack, flat, dropped)
           /\ packed' = packed \/ (packed = <<>> /\ packed' = <<None>>)
    BY <1>9, PackRound
  <2>2. pack.pc = "collect" /\ pack.batch \in SUBSET Groups /\ Cardinality(pack.batch) < MaxBatch
    BY <1>9, PackRound, PackRecords DEF Shape
  <2>3. /\ mode # "local" => None \notin ToSet(queue')
        /\ ends' > 0 => done'
        /\ IsFiniteSet(BatchLeft(pack, flat))
        /\ GoesOn(pack, flat) => Cardinality(BatchLeft(pack, flat)) < MaxBatch
    BY <1>1, <1>4, <2>1, <2>2, RoundShape
  <2>4. /\ \A pc : PackNow(pc, flat).pc = pc /\ PackNow(pc, flat).batch = BatchLeft(pack, flat)
    BY DEF PackNow
  <2>5. /\ IsFiniteSet(pack.batch')
        /\ pack.pc' \in {"start", "handoff", "ended"} => pack.batch' = {}
        /\ pack.pc' = "prepare" => pack.batch' # {}
        /\ pack.pc' = "collect" => Cardinality(pack.batch') < MaxBatch
    <3>1. CASE pack' = PackNow("collect", flat) /\ GoesOn(pack, flat)
      BY <2>3, <2>4, <3>1
    <3>2. CASE pack' = PackNow("prepare", flat) /\ BatchLeft(pack, flat) # {}
      BY <2>3, <2>4, <3>2
    <3>3. CASE pack' = At("ended", 0)
      BY <1>4, <3>3
    <3> QED
      BY <2>1, <3>1, <3>2, <3>3 DEF PackOutcome
  <2> QED
    BY <1>3, <1>7, <2>1, <2>3, <2>5
<1>10. CASE PackPrepared /\ accept
  <2> DEFINE i == [batch |-> pack.batch, step |-> pack.step, sentinel |-> pack.sentinel]
  <2>1. UNCHANGED stopVars /\ packed' = <<i>> /\ pack.pc = "prepare"
        /\ pack' = [pack EXCEPT !.pc = "handoff", !.batch = {}]
    BY <1>10 DEF PackPrepared
  <2>2. pack.batch' = {} /\ pack.pc' = "handoff"
    BY <2>1, PackRecords DEF Stage
  <2>3. PackedItems' \subseteq {i}
    <3>1. ToSet(<<i>>) = {i}
      BY DEF ToSet
    <3> HIDE DEF i
    <3> QED
      BY <2>1, <3>1 DEF PackedItems
  <2>4. pack.batch # {} /\ Cardinality(pack.batch) <= MaxBatch
    BY <2>1 DEF Shape, TypeOK
  <2> QED
    BY <1>4, <1>6, <2>1, <2>2, <2>3, <2>4
<1>11. CASE \/ PackPrepared /\ ~accept
            \/ PackUnusable \/ PackFails \/ PackHandedOff \/ CancelPacking
  <2>1. /\ UNCHANGED stopVars /\ (packed' = packed \/ packed' = <<None>>)
        /\ pack.batch' = {} /\ pack.pc' \in {"start", "ended"}
    BY <1>4, <1>11 DEF PackPrepared, PackUnusable, PackFails, PackHandedOff, CancelPacking
  <2> QED
    BY <1>4, <1>6, <1>7, <2>1
<1> QED
  BY <1>8, <1>9, <1>10, <1>11 DEF PackActions, PackStep

(* The fields of the training stage's record, at each of its points.        *)
LEMMA TrainPcs ==
    ASSUME TypeOK, TrainActions
    PROVE  /\ train.pc # "ended"
           /\ \A pc \in {"trained", "wrap", "wrapped", "finish", "ended"} :
                 /\ [train EXCEPT !.pc = pc].pc = pc
                 /\ [train EXCEPT !.pc = pc].batch = train.batch
                 /\ [train EXCEPT !.pc = pc].step = train.step
                 /\ [train EXCEPT !.pc = pc].sentinel = train.sentinel
                 /\ [train EXCEPT !.pc = pc].taken = train.taken
           /\ \A pc \in {"raising", "ended"} :
                 /\ [train EXCEPT !.pc = pc, !.batch = {}].pc = pc
                 /\ [train EXCEPT !.pc = pc, !.batch = {}].batch = {}
                 /\ [train EXCEPT !.pc = pc, !.batch = {}].step = train.step
           /\ \A pc \in {"wrap", "get", "collect"} :
                 /\ [train EXCEPT !.batch = {}, !.sentinel = FALSE, !.pc = pc].pc = pc
                 /\ [train EXCEPT !.batch = {}, !.sentinel = FALSE, !.pc = pc].batch = {}
                 /\ [train EXCEPT !.batch = {}, !.sentinel = FALSE, !.pc = pc].step = train.step
<1>1. train.pc # "ended"
  <2>1. TrainCollect => train.pc = "collect"
    BY TrainRound
  <2> QED
    BY <2>1 DEF TrainActions, TrainStep, TrainDispatched, TrainRaises, TrainTop, TrainGet,
                TrainReturns, TrainRaised, Publish, TrainWrap, TrainRefuses, TrainFinishes,
                CancelTraining
<1>2. train \in TrainStates
  BY Trains
<1> QED
  BY <1>1, <1>2 DEF TrainStates

(* The step that publishes a version.                                      *)
LEMMA Publishes ==
    ASSUME TypeOK, Publish
    PROVE  /\ train.batch' = {} /\ train.step' = train.step + 1
           /\ train.pc' = IF train.sentinel THEN "wrap" ELSE "top"
<1> DEFINE pc == IF train.sentinel THEN "wrap" ELSE "top"
           n == train.step + 1
<1>1. train' = [train EXCEPT !.pc = pc, !.step = n, !.batch = {}]
  BY DEF Publish
<1>2. train \in TrainStates
  BY Trains
<1> HIDE DEF pc, n
<1>3. train.batch' = {} /\ train.step' = n /\ train.pc' = pc
  BY <1>1, <1>2 DEF TrainStates
<1> QED
  BY <1>3 DEF pc, n

(* The training stage keeps the shape of the stages.                        *)
LEMMA TrainShape ==
    ASSUME TypeOK, OnePlace, Shape, TrainActions
    PROVE  Shape'
<1>1. UNCHANGED <<mode, maxOff, worker, rollouts, pack, run>>
  BY TrainFrames DEF TrainFrame
<1>2. /\ train.pc # "ended"
      /\ \A pc \in {"trained", "wrap", "wrapped", "finish", "ended"} :
            /\ [train EXCEPT !.pc = pc].pc = pc
            /\ [train EXCEPT !.pc = pc].batch = train.batch
      /\ \A pc \in {"raising", "ended"} :
            /\ [train EXCEPT !.pc = pc, !.batch = {}].pc = pc
            /\ [train EXCEPT !.pc = pc, !.batch = {}].batch = {}
      /\ \A pc \in {"wrap", "get", "collect"} :
            /\ [train EXCEPT !.batch = {}, !.sentinel = FALSE, !.pc = pc].pc = pc
            /\ [train EXCEPT !.batch = {}, !.sentinel = FALSE, !.pc = pc].batch = {}
  BY TrainPcs
<1>3. run = "stages"
  BY <1>2 DEF Shape, StagesEnded
<1> DEFINE Given == /\ mode # "packed" => packed = <<>> /\ train.pc # "get"
                    /\ mode = "packed" => train.pc # "collect"
                    /\ train.pc \notin {"collect", "train", "trained"} => train.batch = {}
                    /\ train.pc \in {"train", "trained"} => train.batch # {}
                    /\ train.pc = "collect" => Cardinality(train.batch) < MaxBatch
                    /\ IsFiniteSet(train.batch) /\ IsFiniteSet({})
                    /\ \A i \in PackedItems : i.batch # {} /\ IsFiniteSet(i.batch)
           Later == /\ mode # "packed" => packed' = <<>> /\ train.pc' # "get"
                    /\ mode = "packed" => train.pc' # "collect"
                    /\ mode = "local" => ~finished'
                    /\ mode # "local" => None \notin ToSet(queue')
                    /\ IsFiniteSet(train.batch')
                    /\ train.pc' \notin {"collect", "train", "trained"} => train.batch' = {}
                    /\ train.pc' \in {"train", "trained"} => train.batch' # {}
                    /\ train.pc' = "collect" => Cardinality(train.batch') < MaxBatch
                    /\ PackedItems' \subseteq PackedItems
                    /\ ends' > 0 => done'
<1>4. Given
  BY FS_EmptySet DEF Shape
<1>5. SUFFICES Later
  BY <1>1, <1>3 DEF Shape
<1>6. /\ UNCHANGED stopVars =>
            (mode # "local" => None \notin ToSet(queue')) /\ (ends' > 0 => done')
      /\ UNCHANGED finished => (mode = "local" => ~finished')
      /\ packed' = packed => PackedItems' \subseteq PackedItems
  BY PlacesSame DEF stopVars, Shape, done
<1>7. CASE TrainTop
  <2>1. UNCHANGED <<stopVars, finished, packed>> /\ train.pc = "top" /\ train.batch = {}
    BY <1>4, <1>7 DEF TrainTop
  <2>2. /\ train.batch' = {} /\ train.pc' \in {"wrap", "get", "collect"}
        /\ mode = "packed" => train.pc' # "collect"
        /\ mode # "packed" => train.pc' # "get"
    <3>1. CASE train.step >= MaxSteps
      <4>1. train' = [train EXCEPT !.pc = "wrap"]
        BY <1>7, <3>1 DEF TrainTop
      <4> QED
        BY <2>1, <4>1, Trains DEF TrainStates
    <3>2. CASE ~(train.step >= MaxSteps)
      <4> DEFINE pc == IF mode = "packed" THEN "get" ELSE "collect"
      <4>1. train' = [train EXCEPT !.batch = {}, !.sentinel = FALSE, !.pc = pc]
        BY <1>7, <3>2 DEF TrainTop
      <4>2. pc \in {"get", "collect"}
        OBVIOUS
      <4> HIDE DEF pc
      <4>3. train.batch' = {} /\ train.pc' = pc
        BY <1>2, <4>1, <4>2
      <4> QED
        BY <4>2, <4>3 DEF pc
    <3> QED
      BY <3>1, <3>2
  <2>3. Cardinality({}) < MaxBatch
    BY Constants, FS_EmptySet
  <2> QED
    BY <1>4, <1>6, <2>1, <2>2, <2>3
<1>8. CASE TrainDispatched \/ TrainReturns \/ TrainRaised \/ TrainWrap \/ TrainRefuses
  <2>1. UNCHANGED <<stopVars, finished, packed>>
    BY <1>8 DEF TrainDispatched, TrainReturns, TrainRaised, TrainWrap, TrainRefuses
  <2>2. \/ train' = train
        \/ /\ train.batch' = train.batch
           /\ \/ train.pc = "train" /\ train.pc' = "trained"
              \/ /\ train.pc \in {"raising", "wrap", "wrapped"}
                 /\ train.pc' \in {"ended", "wrapped", "finish"}
    <3>1. \/ train' = train
          \/ train.pc = "train" /\ train' = [train EXCEPT !.pc = "trained"]
          \/ train.pc = "raising" /\ train' = [train EXCEPT !.pc = "ended"]
          \/ train.pc = "wrap" /\ train' = [train EXCEPT !.pc = "wrapped"]
          \/ train.pc = "wrapped" /\ train' = [train EXCEPT !.pc = "finish"]
      BY <1>8 DEF TrainDispatched, TrainReturns, TrainRaised, TrainWrap, TrainRefuses
    <3> QED
      BY <3>1, Trains DEF TrainStates
  <2> QED
    BY <1>4, <1>6, <2>1, <2>2
<1>9. CASE TrainGet
  <2>1. /\ UNCHANGED <<stopVars, finished>> /\ packed # <<>> /\ packed' = <<>>
        /\ train.pc = "get" /\ train.batch = {}
    BY <1>4, <1>9 DEF TrainGet
  <2>2. /\ Head(packed) \in Prepared \cup {None} /\ PackedItems = {Head(packed)} \ {None}
        /\ PackedItems' = {}
    BY <2>1, PackedCases, PlacesSame DEF TypeOK
  <2>3. CASE Head(packed) = None
    <3>1. train.pc' = "wrap" /\ train.batch' = {}
      <4>1. train' = [train EXCEPT !.pc = "wrap"]
        BY <1>9, <2>3 DEF TrainGet
      <4> QED
        BY <2>1, <4>1, Trains DEF TrainStates
    <3> QED
      BY <1>4, <1>6, <2>1, <2>2, <3>1
  <2>4. CASE Head(packed) # None
    <3>1. train.pc' = "train" /\ train.batch' = Head(packed).batch
      BY <1>9, <2>4 DEF TrainGet, StartTraining
    <3>2. Head(packed) \in PackedItems
      BY <2>2, <2>4
    <3>3. Head(packed).batch # {} /\ IsFiniteSet(Head(packed).batch)
      BY <1>4, <3>2
    <3> QED
      BY <1>4, <1>6, <2>1, <2>2, <3>1, <3>3
  <2> QED
    BY <2>3, <2>4
<1>10. CASE TrainRaises \/ CancelTraining
  <2>1. UNCHANGED <<stopVars, finished, packed>>
    BY <1>10 DEF TrainRaises, CancelTraining
  <2>2. train.batch' = {} /\ train.pc' \in {"raising", "ended"}
    BY <1>2, <1>10 DEF TrainRaises, CancelTraining
  <2> QED
    BY <1>4, <1>6, <2>1, <2>2
<1>11. CASE Publish
  <2>1. UNCHANGED <<stopVars, finished, packed>>
    BY <1>11 DEF Publish
  <2>2. train.batch' = {} /\ train.pc' \in {"wrap", "top"}
    BY <1>11, Publishes
  <2> QED
    BY <1>4, <1>6, <2>1, <2>2
<1>12. CASE TrainFinishes
  <2>1. /\ train.pc = "finish" /\ train.batch' = {} /\ train.pc' = "ended"
        /\ finished' = (finished \/ mode # "local")
    BY <1>2, <1>4, <1>12 DEF TrainFinishes
  <2>2. packed' = <<>> /\ PackedItems' = {}
    BY <1>12, PlacesSame DEF TrainFinishes, DiscardPrepared
  <2>3. queue' \in {queue, Append(queue, None)} /\ (mode # "local" => queue' = queue)
        /\ (ends' > 0 => done')
    <3> DEFINE why == IF train.step >= MaxSteps THEN "steps" ELSE "end"
    <3>1. why \in Causes /\ RequestStop(why, queue) /\ (ends > 0 => done)
          /\ queue \in Entries /\ Len(queue) <= QueueSize
      BY <1>12 DEF TrainFinishes, Shape, Causes, TypeOK, Entries
    <3> HIDE DEF why
    <3>2. /\ cause' \in Causes /\ cause' # None
          /\ queue' \in {queue, Append(queue, None)}
          /\ mode # "local" => queue' = queue
      BY <3>1, Requests
    <3> QED
      BY <3>2 DEF done
  <2>4. (mode # "local" => None \notin ToSet(queue')) /\ (mode = "local" => ~finished')
    BY <2>1, <2>3 DEF Shape
  <2> QED
    BY <1>4, <2>1, <2>2, <2>3, <2>4
<1>13. CASE TrainCollect
  <2>1. PICK flat \in FlatChoices(train) :
           /\ TrainOutcome(flat) /\ CollectRound(train, flat, {})
           /\ train.batch' = Remains(train, flat, {})
    BY <1>13, TrainRound
  <2>2. /\ train.pc = "collect" /\ UNCHANGED <<packed, finished>>
        /\ train.batch \in SUBSET Groups /\ IsFiniteSet(train.batch)
        /\ Cardinality(train.batch) < MaxBatch
    BY <1>4, <1>13, TrainRound, Trains
  <2>3. /\ mode # "local" => None \notin ToSet(queue')
        /\ ends' > 0 => done'
        /\ IsFiniteSet(BatchLeft(train, flat))
        /\ GoesOn(train, flat) => Cardinality(BatchLeft(train, flat)) < MaxBatch
    BY <1>1, <2>1, <2>2, RoundShape
  <2>4. train.batch' = BatchLeft(train, flat)
    BY <2>1 DEF Remains
  <2>5. \/ train.pc' = "collect" /\ GoesOn(train, flat)
        \/ train.pc' = "wrap" /\ BatchLeft(train, flat) = {}
        \/ train.pc' = "train" /\ BatchLeft(train, flat) # {}
    BY <2>1 DEF TrainOutcome, TrainNow, StartTraining
  <2> QED
    BY <1>4, <1>6, <2>2, <2>3, <2>4, <2>5
<1> QED
  BY <1>7, <1>8, <1>9, <1>10, <1>11, <1>12, <1>13 DEF TrainActions, TrainStep

(* The post-train task, the cleanup and the return keep the shape of the    *)
(* stages.                                                                  *)
LEMMA RunShape ==
    ASSUME TypeOK, OnePlace, Shape, RunActions
    PROVE  Shape'
<1>1. CASE PostNotify
  <2>1. UNCHANGED <<mode, maxOff, queue, cause, ends, finished, rollouts, pack, packed, train, run>>
    BY <1>1 DEF PostNotify, queueVars, packVars
  <2>2. PackedItems' = PackedItems
    BY <2>1, PlacesSame
  <2>3. ASSUME NEW w \in Workers
        PROVE  /\ worker'[w].scenario = None <=> worker'[w].pc \in {"idle", "raised", "ended"}
               /\ worker[w].pc = "ended" => worker'[w].pc = "ended"
    <3>1. worker'[w] = IF worker[w].pc = "waiting" THEN [worker[w] EXCEPT !.pc = "gate"]
                       ELSE worker[w]
      BY <1>1 DEF PostNotify
    <3>2. worker[w] \in WorkerRecords
      BY WorkerStates
    <3>3. CASE worker[w].pc = "waiting"
      <4>1. worker'[w].pc = "gate" /\ worker'[w].scenario = worker[w].scenario
        BY <3>1, <3>2, <3>3 DEF WorkerRecords
      <4> QED
        BY <3>3, <4>1 DEF Shape
    <3>4. CASE worker[w].pc # "waiting"
      BY <3>1, <3>4 DEF Shape
    <3> QED
      BY <3>3, <3>4
  <2> QED
    BY <2>1, <2>2, <2>3 DEF Shape, done, StagesEnded
<1>2. CASE PostFinish \/ Return
  <2>1. /\ UNCHANGED <<mode, maxOff, worker, queue, cause, ends, finished, rollouts, pack, packed, train>>
        /\ run' = run \/ run = "gather"
    BY <1>2 DEF PostFinish, Return, queueVars, packVars
  <2>2. PackedItems' = PackedItems
    BY <2>1, PlacesSame
  <2> QED
    BY <2>1, <2>2 DEF Shape, done, StagesEnded
<1>3. CASE Cleanup
  <2>1. /\ UNCHANGED <<mode, maxOff, worker, finished, rollouts, pack, train>>
        /\ packed' = <<>> /\ StagesEnded
    BY <1>3 DEF Cleanup, DiscardPrepared
  <2>2. PackedItems' = {}
    BY <2>1, PlacesSame
  <2>3. (mode # "local" => queue' = queue) /\ (ends' > 0 => done')
    <3>1. queue \in Entries /\ Len(queue) <= QueueSize /\ "failure" \in Causes /\ (ends > 0 => done)
      BY DEF TypeOK, Entries, Causes, Shape
    <3>2. CASE failed
      <4>1. RequestStop("failure", queue)
        BY <1>3, <3>2 DEF Cleanup
      <4>2. cause' # None /\ (mode # "local" => queue' = queue)
        BY <3>1, <4>1, Requests
      <4> QED
        BY <4>2 DEF done
    <3>3. CASE ~failed
      BY <1>3, <3>1, <3>3 DEF Cleanup, stopVars, done
    <3> QED
      BY <3>2, <3>3
  <2> QED
    BY <2>1, <2>2, <2>3 DEF Shape, StagesEnded
<1> QED
  BY <1>1, <1>2, <1>3 DEF RunActions

(* A stage that fails ends with nothing in hand.                            *)
LEMMA FailParts ==
    ASSUME TypeOK, OnePlace, Shape, FailActions
    PROVE  /\ failed' = TRUE /\ UNCHANGED FailFrame
           /\ post'.pc = post.pc /\ post'.handoff = post.handoff
           /\ \/ /\ pack.pc = "collect" /\ pack'.pc = "ended" /\ pack'.batch = {}
                 /\ train' = train
              \/ /\ pack' = pack /\ train.pc \in {"collect", "train"}
                 /\ train'.pc = "ended" /\ train'.batch = {} /\ train'.step = train.step
<1>1. /\ failed' = TRUE /\ UNCHANGED FailFrame /\ post' \in {post, Dispatch(post)}
      /\ \/ pack.pc = "collect" /\ pack' = At("ended", 0) /\ train' = train
         \/ /\ pack' = pack /\ train.pc \in {"collect", "train"}
            /\ train' = [train EXCEPT !.pc = "ended", !.batch = {}]
  BY Fails
<1>2. /\ [train EXCEPT !.pc = "ended", !.batch = {}].pc = "ended"
      /\ [train EXCEPT !.pc = "ended", !.batch = {}].batch = {}
      /\ [train EXCEPT !.pc = "ended", !.batch = {}].step = train.step
  <2>1. train \in TrainStates
    BY Trains
  <2> QED
    BY <2>1 DEF TrainStates
<1>3. At("ended", 0).pc = "ended" /\ At("ended", 0).batch = {}
  BY PackRecords
<1>4. post'.pc = post.pc /\ post'.handoff = post.handoff
  BY <1>1, Posts
<1> QED
  BY <1>1, <1>2, <1>3, <1>4

(* The failure of a stage keeps the shape of the stages.                    *)
LEMMA FailShape ==
    ASSUME TypeOK, OnePlace, Shape, FailActions
    PROVE  Shape'
<1>1. /\ failed' = TRUE /\ UNCHANGED FailFrame
      /\ \/ /\ pack.pc = "collect" /\ pack'.pc = "ended" /\ pack'.batch = {}
            /\ train' = train
         \/ /\ pack' = pack /\ train.pc \in {"collect", "train"}
            /\ train'.pc = "ended" /\ train'.batch = {} /\ train'.step = train.step
  BY FailParts
<1>2. UNCHANGED <<mode, cause, worker, ends, finished, packed, run>>
  BY <1>1 DEF FailFrame
<1>3. run = "stages"
  BY <1>1 DEF Shape, StagesEnded
<1>4. PackedItems' = PackedItems /\ IsFiniteSet({})
  BY <1>2, PlacesSame, FS_EmptySet
<1>5. mode # "local" => None \notin ToSet(queue')
  <2>1. queue' \in {queue, Left(pack.batch), Left(train.batch)}
        /\ (queue' = queue \/ (pack.pc = "collect" /\ queue' = Left(pack.batch))
                          \/ (train.pc = "collect" /\ queue' = Left(train.batch)))
    BY Fails
  <2>2. /\ pack.pc = "collect" => IsFiniteSet(pack.batch) /\ Cardinality(pack.batch) < MaxBatch
        /\ train.pc = "collect" => IsFiniteSet(train.batch) /\ Cardinality(train.batch) < MaxBatch
    BY DEF Shape
  <2>3. None \in ToSet(queue') => None \in ToSet(queue)
    BY <2>1, <2>2, Parts
  <2> QED
    BY <2>3 DEF Shape
<1> QED
  BY <1>1, <1>2, <1>3, <1>4, <1>5 DEF Shape, done

(* Every step keeps the shape of the stages.                                *)
LEMMA ShapeNext ==
    ASSUME TypeOK, OnePlace, Shape, Next
    PROVE  Shape'
<1>1. CASE WorkerActions
  BY <1>1, WorkerShape DEF WorkerActions
<1>2. CASE StopActions
  BY <1>2, StopShape
<1>3. CASE PackActions
  BY <1>3, PackShape
<1>4. CASE TrainActions
  BY <1>4, TrainShape
<1>5. CASE RunActions
  BY <1>5, RunShape
<1>6. CASE FailActions
  BY <1>6, FailShape
<1> QED
  BY <1>1, <1>2, <1>3, <1>4, <1>5, <1>6, Actions

-----------------------------------------------------------------------------
(* Fates are final, and a scenario is dropped for a reason.                *)

(* The packing stage settles only open scenarios, and says when it drops    *)
(* one.                                                                     *)
LEMMA PackFates ==
    ASSUME TypeOK, OnePlace, Shape, PackActions
    PROVE  \A s \in Scenarios : fate'[s] # fate[s] =>
              /\ s \in Open
              /\ fate'[s] = "dropped" =>
                    failed' \/ (pack.pc \in {"collect", "prepare"} /\ (~accept \/ cause' # None))
<1>1. InPack \subseteq Open /\ InQueue \subseteq Open /\ InPack = Of(pack.batch)
  BY Places DEF InPack
<1>2. CASE \/ PackStart \/ PackHandedOff
           \/ PackPrepared /\ accept
  BY <1>2 DEF PackStart, PackHandedOff, PackPrepared
<1>3. CASE \/ PackPrepared /\ ~accept
           \/ PackUnusable
           \/ PackFails \/ CancelPacking
  <2>1. PICK outcome \in {"dropped", "unusable"} :
           /\ Settle(pack.batch, outcome)
           /\ outcome = "dropped" =>
                 failed' \/ (pack.pc \in {"collect", "prepare"} /\ (~accept \/ cause' # None))
    BY <1>3 DEF PackPrepared, PackUnusable, PackFails, CancelPacking
  <2>2. outcome \in Fates /\ InPack \in SUBSET InStages
    BY <2>1 DEF Fates, InStages
  <2>3. /\ \A s \in Scenarios : s \notin InPack => fate'[s] = fate[s]
        /\ \A s \in InPack : fate'[s] = outcome
    BY <1>1, <2>1, <2>2, Settlements
  <2> QED
    BY <1>1, <2>1, <2>3
<1>4. CASE PackCollect
  <2>1. PICK flat, dropped :
           /\ flat \in FlatChoices(pack)
           /\ PackOutcome(flat)
           /\ dropped \in {{}, BatchLeft(pack, flat)} /\ CollectRound(pack, flat, dropped)
           /\ pack.batch' = Remains(pack, flat, dropped)
    BY <1>4, PackRound
  <2>2. /\ pack.pc = "collect" /\ pack.batch \in SUBSET Groups /\ IsFiniteSet(pack.batch)
        /\ Cardinality(pack.batch) < MaxBatch /\ (ends > 0 => done)
        /\ InQueue \cap Of(pack.batch) = {}
    BY <1>1, <1>4, PackRound, PackRecords, Staged DEF Shape
  <2>3. /\ \A s \in Scenarios : s \notin Spent(pack, flat, dropped) => fate'[s] = fate[s]
        /\ \A s \in Scenarios \cap Spent(pack, flat, dropped) :
              /\ fate'[s] \in {"stale", "flat", "dropped"}
              /\ fate'[s] = "dropped" => Lost(pack, flat, dropped) # {}
        /\ Spent(pack, flat, dropped) \subseteq InQueue \cup Of(pack.batch)
        /\ InQueue' \cup Of(Remains(pack, flat, dropped))
              = (InQueue \cup Of(pack.batch)) \ Spent(pack, flat, dropped)
        /\ InQueue' \cap Of(Remains(pack, flat, dropped)) = {} /\ InQueue' \subseteq InQueue
        /\ Of(Remains(pack, flat, dropped)) \subseteq InQueue \cup Of(pack.batch)
        /\ QueueGroups' = LeftGroups(pack.batch)
        /\ Distinct(queue)'
    BY <2>1, <2>2, RoundPlaces
  <2>4. Lost(pack, flat, dropped) # {} => ~accept \/ cause' # None
    <3>1. Collapses(flat) => cause' # None
      <4>1. /\ ~Collapses(flat) => queue' = Left(pack.batch) /\ UNCHANGED <<cause, ends>>
            /\ Collapses(flat) =>
                  /\ cause' # None /\ (done => cause' = cause) /\ (~done => cause' = "collapse")
                  /\ queue' \in {Left(pack.batch), Append(Left(pack.batch), None)}
                  /\ mode # "local" => queue' = Left(pack.batch)
        BY <2>1, <2>2, RoundTypes
      <4> QED
        BY <4>1
    <3>2. accept /\ ~Collapses(flat) => dropped = {}
      <4> SUFFICES ASSUME accept, dropped # {} PROVE Collapses(flat)
        OBVIOUS
      <4>1. pack.batch' = {} /\ dropped = BatchLeft(pack, flat)
        BY <2>1 DEF Remains
      <4>2. \A pc : PackNow(pc, flat).batch = BatchLeft(pack, flat)
        BY DEF PackNow
      <4>3. BatchLeft(pack, flat) = {}
        BY <2>1, <4>1, <4>2 DEF PackOutcome
      <4> QED
        BY <4>1, <4>3
    <3> QED
      BY <3>1, <3>2 DEF Lost
  <2> QED
    BY <1>1, <2>2, <2>3, <2>4
<1> QED
  BY <1>2, <1>3, <1>4 DEF PackActions, PackStep

(* The training stage settles only open scenarios, and says when it drops   *)
(* one.                                                                     *)
LEMMA TrainFates ==
    ASSUME TypeOK, OnePlace, Shape, TrainActions
    PROVE  /\ \A s \in Scenarios : fate'[s] # fate[s] =>
                 /\ s \in Open
                 /\ fate'[s] = "dropped" =>
                       \/ failed
                       \/ train.pc' = "raising"
                       \/ train.pc = "finish" /\ packed # <<>>
                       \/ train.pc = "collect" /\ cause' # None
           /\ Publish => \A s \in InTrain : fate'[s] = "trained"
<1>1. /\ InTrain \subseteq Open /\ InQueue \subseteq Open /\ InTrain = Of(train.batch)
      /\ InPacked \subseteq Open
  BY Places DEF InTrain
<1>2. CASE \/ TrainTop \/ TrainDispatched \/ TrainReturns \/ TrainRaised
           \/ TrainWrap \/ TrainRefuses \/ TrainGet
  <2>1. UNCHANGED fate /\ ~Publish
    BY <1>2 DEF TrainTop, TrainDispatched, TrainReturns, TrainRaised, TrainWrap, TrainRefuses,
                TrainGet, Publish
  <2> QED
    BY <2>1
<1>3. CASE TrainRaises \/ CancelTraining \/ Publish
  <2>1. PICK outcome \in {"dropped", "trained"} :
           /\ Settle(train.batch, outcome)
           /\ outcome = "dropped" => failed \/ TrainRaises
           /\ Publish => outcome = "trained"
    BY <1>3 DEF TrainRaises, CancelTraining, Publish
  <2>2. outcome \in Fates /\ InTrain \in SUBSET InStages
    BY <2>1 DEF Fates, InStages
  <2>3. /\ \A s \in Scenarios : s \notin InTrain => fate'[s] = fate[s]
        /\ \A s \in InTrain : fate'[s] = outcome
    BY <1>1, <2>1, <2>2, Settlements
  <2>4. TrainRaises => train.pc' = "raising"
    <3>1. TrainRaises => train' = [train EXCEPT !.pc = "raising", !.batch = {}]
      BY DEF TrainRaises
    <3> QED
      BY <3>1, TrainPcs
  <2> QED
    BY <1>1, <2>1, <2>3, <2>4
<1>4. CASE TrainFinishes
  <2>1. /\ train.pc = "finish" /\ ~Publish
        /\ fate' = [s \in Scenarios |-> IF s \in InPacked THEN "dropped" ELSE fate[s]]
    BY <1>4, Discards DEF TrainFinishes, Publish
  <2>2. InPacked # {} => packed # <<>>
    BY PlacesSame
  <2> QED
    BY <1>1, <2>1, <2>2
<1>5. CASE TrainCollect
  <2>1. PICK flat \in FlatChoices(train) :
           TrainOutcome(flat) /\ CollectRound(train, flat, {})
    BY <1>5, TrainRound
  <2>2. /\ train.pc = "collect" /\ train.batch \in SUBSET Groups /\ IsFiniteSet(train.batch)
        /\ Cardinality(train.batch) < MaxBatch /\ (ends > 0 => done)
        /\ InQueue \cap Of(train.batch) = {} /\ {} \in {{}, BatchLeft(train, flat)}
    BY <1>1, <1>5, TrainRound, Trains, Staged DEF Shape
  <2>3. /\ \A s \in Scenarios : s \notin Spent(train, flat, {}) => fate'[s] = fate[s]
        /\ \A s \in Scenarios \cap Spent(train, flat, {}) :
              /\ fate'[s] \in {"stale", "flat", "dropped"}
              /\ fate'[s] = "dropped" => Lost(train, flat, {}) # {}
        /\ Spent(train, flat, {}) \subseteq InQueue \cup Of(train.batch)
        /\ InQueue' \cup Of(Remains(train, flat, {}))
              = (InQueue \cup Of(train.batch)) \ Spent(train, flat, {})
        /\ InQueue' \cap Of(Remains(train, flat, {})) = {} /\ InQueue' \subseteq InQueue
        /\ Of(Remains(train, flat, {})) \subseteq InQueue \cup Of(train.batch)
        /\ QueueGroups' = LeftGroups(train.batch)
        /\ Distinct(queue)'
    BY <2>1, <2>2, RoundPlaces
  <2>4. Lost(train, flat, {}) # {} => cause' # None
    <3>1. /\ ~Collapses(flat) => queue' = Left(train.batch) /\ UNCHANGED <<cause, ends>>
          /\ Collapses(flat) =>
                /\ cause' # None /\ (done => cause' = cause) /\ (~done => cause' = "collapse")
                /\ queue' \in {Left(train.batch), Append(Left(train.batch), None)}
                /\ mode # "local" => queue' = Left(train.batch)
      BY <2>1, <2>2, RoundTypes
    <3> QED
      BY <3>1 DEF Lost
  <2>5. ~Publish
    BY <2>2 DEF Publish
  <2> QED
    BY <1>1, <2>2, <2>3, <2>4, <2>5
<1> QED
  BY <1>2, <1>3, <1>4, <1>5 DEF TrainActions, TrainStep

(* A fate once given stays.                                                *)
LEMMA FatesKept ==
    ASSUME TypeOK, OnePlace, Shape, Next
    PROVE  /\ \A s \in Scenarios : fate[s] # None => fate'[s] = fate[s]
           /\ Cardinality(Trained) \in Nat /\ IsFiniteSet(Trained)
           /\ Trained \subseteq Trained' /\ Cardinality(Trained) <= Cardinality(Trained')
<1>1. \A s \in Scenarios : s \in Open \/ fate'[s] = fate[s]
  <2>1. CASE WorkerActions
    <3>1. PICK w \in Workers : WorkerStep(w) \/ FatalRollout(w)
      BY <2>1 DEF WorkerActions
    <3>2. worker[w].scenario # None => worker[w].scenario \in Open
      BY Places DEF InWorkers
    <3>3. \/ UNCHANGED fate
          \/ /\ worker[w].scenario # None
             /\ fate' = [s \in Scenarios |-> IF s = worker[w].scenario THEN fate'[s] ELSE fate[s]]
      BY <3>1, WorkerMoves
    <3>4. CASE UNCHANGED fate
      BY <3>4
    <3>5. CASE /\ worker[w].scenario # None
               /\ fate' = [s \in Scenarios |-> IF s = worker[w].scenario THEN fate'[s] ELSE fate[s]]
      <4> SUFFICES ASSUME NEW s \in Scenarios, s # worker[w].scenario
                   PROVE  fate'[s] = fate[s]
        BY <3>2, <3>5
      <4>1. fate'[s] = [t \in Scenarios |-> IF t = worker[w].scenario THEN fate'[t]
                                            ELSE fate[t]][s]
        BY <3>5
      <4> QED
        BY <4>1
    <3> QED
      BY <3>3, <3>4, <3>5
  <2>2. CASE StopActions
    BY <2>2, StopSteps
  <2>3. CASE PackActions
    BY <2>3, PackFates
  <2>4. CASE TrainActions
    BY <2>4, TrainFates
  <2>5. CASE RunActions
    <3>1. CASE PostNotify \/ PostFinish \/ Return
      BY <3>1 DEF PostNotify, PostFinish, Return
    <3>2. CASE Cleanup
      <4>1. fate' = [s \in Scenarios |-> IF s \in InPacked THEN "dropped" ELSE fate[s]]
        BY <3>2, Discards DEF Cleanup
      <4>2. InPacked \subseteq Open
        BY Places
      <4> QED
        BY <4>1, <4>2
    <3> QED
      BY <2>5, <3>1, <3>2 DEF RunActions
  <2>6. CASE FailActions
    BY <2>6, FailPlaces
  <2> QED
    BY <2>1, <2>2, <2>3, <2>4, <2>5, <2>6, Actions
<1>2. \A s \in Scenarios : fate[s] # None => fate'[s] = fate[s]
  BY <1>1, Places
<1>3. Trained \subseteq Trained'
  <2>1. "trained" # None
    BY Constants DEF Fates
  <2> QED
    BY <1>2, <2>1 DEF Trained
<1>4. IsFiniteSet(Scenarios) /\ Trained \subseteq Scenarios /\ Trained' \subseteq Scenarios
  <2>1. ScenarioCount \in Int /\ 1 \in Int
    BY Constants
  <2> QED
    BY <2>1, FS_Interval DEF Scenarios, Trained
<1>5. IsFiniteSet(Trained) /\ IsFiniteSet(Trained')
  BY <1>4, FS_Subset
<1>6. Cardinality(Trained) \in Nat /\ Cardinality(Trained) <= Cardinality(Trained')
  BY <1>3, <1>5, FS_Subset, FS_CardinalityType
<1> QED
  BY <1>2, <1>3, <1>5, <1>6

-----------------------------------------------------------------------------
(* The steps of the stages.                                                *)

(* The other tasks do not touch the batches and their steps.                *)
LEMMA OtherFrames ==
    ASSUME WorkerActions \/ StopActions \/ RunActions
    PROVE  /\ UNCHANGED <<mode, maxOff, version, next, pack, train>>
           /\ packed' = packed \/ packed' = <<>>
           /\ PackedItems' \subseteq PackedItems
<1>1. UNCHANGED <<mode, maxOff, version, next, pack, train>> /\ (packed' = packed \/ packed' = <<>>)
  <2>1. CASE WorkerActions
    BY <2>1, WorkerFrame DEF WorkerActions, packVars
  <2>2. CASE StopActions
    BY <2>2, StopSteps DEF packVars
  <2>3. CASE RunActions
    BY <2>3 DEF RunActions, PostNotify, PostFinish, Cleanup, Return, DiscardPrepared, packVars
  <2> QED
    BY <2>1, <2>2, <2>3
<1> QED
  BY <1>1, PlacesSame

(* The training stage takes the batch that was prepared for its step.      *)
LEMMA TrainsGet ==
    ASSUME TypeOK, Shape, Steps, TrainGet
    PROVE  /\ packed # <<>> /\ packed' = <<>> /\ PackedItems' = {}
           /\ train.pc = "get" /\ train.step = next
           /\ \/ /\ ToSet(packed) = {None} /\ PackedItems = {}
                 /\ train' = [train EXCEPT !.pc = "wrap"]
                 /\ train.pc' = "wrap" /\ train.step' = train.step /\ train.batch' = {}
                 /\ UNCHANGED <<next, handoff, post>>
              \/ \E i \in PackedItems :
                    /\ ToSet(packed) = {i} /\ i \in Prepared /\ i.step = train.step
                    /\ train' = [pc |-> "train", step |-> train.step, batch |-> i.batch,
                                 sentinel |-> i.sentinel, taken |-> i.step]
                    /\ next' = train.step + 1 /\ handoff' = PostDone
                    /\ post' = IF PostDone THEN post ELSE [post EXCEPT !.handoff = TRUE]
<1>1. /\ packed # <<>> /\ packed' = <<>> /\ train.pc = "get" /\ train.step = next
      /\ train.batch = {}
  BY DEF TrainGet, Steps, Shape
<1>2. /\ Head(packed) \in Prepared \cup {None} /\ PackedItems = {Head(packed)} \ {None}
      /\ ToSet(packed) = {Head(packed)} /\ PackedItems' = {}
  BY <1>1, PackedCases, PlacesSame DEF TypeOK
<1>3. CASE Head(packed) = None
  <2>1. train' = [train EXCEPT !.pc = "wrap"] /\ UNCHANGED <<next, handoff, post>>
    BY <1>3 DEF TrainGet
  <2>2. train.pc' = "wrap" /\ train.step' = train.step /\ train.batch' = {}
    BY <1>1, <2>1, Trains DEF TrainStates
  <2> QED
    BY <1>1, <1>2, <1>3, <2>1, <2>2
<1>4. CASE Head(packed) # None
  <2> DEFINE i == Head(packed)
  <2>1. i \in PackedItems /\ i \in Prepared
    BY <1>2, <1>4
  <2>2. i.step = train.step
    BY <1>1, <2>1 DEF Steps
  <2>3. /\ StartTraining(i.batch, i.sentinel, i.step) /\ handoff' = PostDone
        /\ post' = IF PostDone THEN post ELSE [post EXCEPT !.handoff = TRUE]
    BY <1>4 DEF TrainGet
  <2> HIDE DEF i
  <2>4. /\ next' = train.step + 1
        /\ train' = [pc |-> "train", step |-> train.step, batch |-> i.batch,
                     sentinel |-> i.sentinel, taken |-> i.step]
    BY <2>3 DEF StartTraining
  <2>5. ToSet(packed) = {i}
    BY <1>2 DEF i
  <2> QED
    BY <1>1, <1>2, <2>1, <2>2, <2>3, <2>4, <2>5
<1> QED
  BY <1>3, <1>4

(* What each step of the training stage does to its state.                 *)
LEMMA TrainMoves ==
    ASSUME TypeOK, OnePlace, Shape, Steps, TrainActions
    PROVE  /\ UNCHANGED <<mode, maxOff, offset, exhausted, worker, rollouts, pack, run>>
           /\ \/ /\ train' = train /\ UNCHANGED <<next, version>>
              \/ /\ train.step' = train.step /\ UNCHANGED <<next, version>>
                 /\ train.batch' = {} /\ ~(train.pc' \in {"train", "trained"})
                 /\ train.pc' \in {"top", "get", "collect", "wrap", "wrapped", "finish"} =>
                       train.pc \in {"top", "get", "collect", "wrap", "wrapped", "finish"}
              \/ /\ train.pc = "train" /\ train' = [train EXCEPT !.pc = "trained"]
                 /\ UNCHANGED <<next, version>>
              \/ /\ train.pc = "collect"
                 /\ \E flat \in FlatChoices(train) : TrainOutcome(flat)
                 /\ UNCHANGED version
              \/ TrainGet
              \/ Publish
<1>1. UNCHANGED <<mode, maxOff, offset, exhausted, worker, rollouts, pack, run>>
  BY TrainFrames DEF TrainFrame
<1>2. train.pc \notin {"collect", "train", "trained"} => train.batch = {}
  BY DEF Shape
<1>3. CASE TrainTop
  <2>1. train.pc = "top" /\ UNCHANGED <<next, version>> /\ train.batch = {}
    BY <1>2, <1>3 DEF TrainTop
  <2>2. CASE train.step >= MaxSteps
    <3>1. train' = [train EXCEPT !.pc = "wrap"]
      BY <1>3, <2>2 DEF TrainTop
    <3>2. train.pc' = "wrap" /\ train.step' = train.step /\ train.batch' = {}
      BY <2>1, <3>1, Trains DEF TrainStates
    <3> QED
      BY <1>1, <2>1, <3>2
  <2>3. CASE ~(train.step >= MaxSteps)
    <3> DEFINE pc == IF mode = "packed" THEN "get" ELSE "collect"
    <3>1. train' = [train EXCEPT !.batch = {}, !.sentinel = FALSE, !.pc = pc]
          /\ pc \in {"get", "collect"}
      BY <1>3, <2>3 DEF TrainTop
    <3> HIDE DEF pc
    <3>2. train.pc' = pc /\ train.step' = train.step /\ train.batch' = {}
      BY <3>1, TrainPcs
    <3> QED
      BY <1>1, <2>1, <3>1, <3>2
  <2> QED
    BY <2>2, <2>3
<1>4. CASE TrainDispatched \/ TrainReturns
  BY <1>1, <1>4 DEF TrainDispatched, TrainReturns
<1>5. CASE TrainRaised \/ TrainWrap \/ TrainRefuses \/ TrainFinishes
  <2>1. \/ train.pc = "raising" /\ train' = [train EXCEPT !.pc = "ended"]
        \/ train.pc = "wrap" /\ train' = [train EXCEPT !.pc = "wrapped"]
        \/ train.pc = "wrapped" /\ train' = [train EXCEPT !.pc = "finish"]
        \/ train.pc = "finish" /\ train' = [train EXCEPT !.pc = "ended"]
    BY <1>5 DEF TrainRaised, TrainWrap, TrainRefuses, TrainFinishes
  <2>2. UNCHANGED <<next, version>> /\ train.batch = {}
    BY <1>2, <1>5, <2>1 DEF TrainRaised, TrainWrap, TrainRefuses, TrainFinishes
  <2> QED
    BY <1>1, <2>1, <2>2, Trains DEF TrainStates
<1>6. CASE TrainRaises \/ CancelTraining
  <2>1. \/ train' = [train EXCEPT !.pc = "raising", !.batch = {}]
        \/ train' = [train EXCEPT !.pc = "ended", !.batch = {}]
    BY <1>6 DEF TrainRaises, CancelTraining
  <2>2. UNCHANGED <<next, version>>
    BY <1>6 DEF TrainRaises, CancelTraining
  <2>3. train \in TrainStates
    BY Trains
  <2>4. train.batch' = {} /\ train.step' = train.step /\ train.pc' \in {"raising", "ended"}
    BY <2>1, <2>3 DEF TrainStates
  <2> QED
    BY <1>1, <2>2, <2>4
<1>7. CASE TrainCollect
  BY <1>1, <1>7, TrainRound
<1> QED
  BY <1>1, <1>3, <1>4, <1>5, <1>6, <1>7 DEF TrainActions, TrainStep

(* A step that is published has trained a scenario that was open.           *)
LEMMA PublishTrains ==
    ASSUME TypeOK, OnePlace, Shape, Publish, Next
    PROVE  Cardinality(Trained) + 1 <= Cardinality(Trained')
<1>1. /\ Cardinality(Trained) \in Nat /\ IsFiniteSet(Trained) /\ Trained \subseteq Trained'
  BY FatesKept
<1>2. PICK g \in train.batch : TRUE
  BY DEF Publish, Shape
<1>3. g.scenario \in InTrain /\ g.scenario \in Open /\ fate[g.scenario] = None
      /\ g.scenario \in Scenarios
  BY Places
<1>4. fate'[g.scenario] = "trained"
  <2>1. TrainActions
    BY DEF TrainActions, TrainStep
  <2> QED
    BY <1>3, <2>1, TrainFates
<1>5. g.scenario \in Trained' /\ g.scenario \notin Trained
  BY <1>3, <1>4, Constants DEF Trained, Fates
<1>6. Cardinality(Trained \cup {g.scenario}) = Cardinality(Trained) + 1
  BY <1>1, <1>5, FS_AddElement
<1>7. IsFiniteSet(Trained')
  <2>1. ScenarioCount \in Int /\ 1 \in Int
    BY Constants
  <2>2. IsFiniteSet(Scenarios) /\ Trained' \subseteq Scenarios
    BY <2>1, FS_Interval DEF Scenarios, Trained
  <2> QED
    BY <2>2, FS_Subset
<1>8. Cardinality(Trained \cup {g.scenario}) <= Cardinality(Trained')
  <2>1. Trained \cup {g.scenario} \subseteq Trained'
    BY <1>1, <1>5
  <2> QED
    BY <1>7, <2>1, FS_Subset
<1> QED
  BY <1>6, <1>8

(* Every step keeps the counters of the steps in agreement.                 *)
LEMMA StepsNext ==
    ASSUME TypeOK, OnePlace, Shape, Steps, Handoff, Next
    PROVE  Steps'
<1> DEFINE Before == {"top", "get", "collect", "wrap", "wrapped", "finish"}
<1>1. /\ version = train.step
      /\ train.pc \in {"train", "trained"} => next = train.step + 1
      /\ train.pc \in Before => next = train.step
      /\ train.pc \in {"raising", "ended"} => next \in {train.step, train.step + 1}
      /\ train.step <= Cardinality(Trained)
      /\ pack.pc \in {"collect", "prepare"} => pack.step = next
      /\ \A i \in PackedItems : i.step = next
      /\ train.pc \in {"train", "trained"} => train.taken = train.step
  BY DEF Steps
<1>2. /\ Cardinality(Trained) \in Nat /\ Cardinality(Trained) <= Cardinality(Trained')
  BY FatesKept
<1>3. /\ train.step \in Nat /\ next \in Nat
      /\ train.pc \in Before \cup {"train", "trained", "raising", "ended"}
  BY Trains, Constants DEF TypeOK, TrainStates
<1>4. Cardinality(Trained') \in Nat
  <2>1. ScenarioCount \in Int /\ 1 \in Int
    BY Constants
  <2>2. IsFiniteSet(Scenarios) /\ Trained' \subseteq Scenarios
    BY <2>1, FS_Interval DEF Scenarios, Trained
  <2> QED
    BY <2>2, FS_Subset, FS_CardinalityType
<1>5. train.step' = train.step => train.step' <= Cardinality(Trained')
  BY <1>1, <1>2, <1>3, <1>4
<1>6. CASE WorkerActions \/ StopActions \/ RunActions
  <2>1. /\ UNCHANGED <<version, next, pack, train>> /\ PackedItems' \subseteq PackedItems
    BY <1>6, OtherFrames
  <2> QED
    BY <1>1, <1>5, <2>1 DEF Steps
<1>7. CASE PackActions
  <2>1. UNCHANGED <<version, next, train>>
    BY <1>7, PackFrames DEF PackFrame
  <2>2. /\ pack.pc' \in {"collect", "prepare"} => pack.step' = next
        /\ \A i \in PackedItems' : i.step = next
    <3>1. \A pc, n : At(pc, n).pc = pc /\ At(pc, n).step = n
      BY DEF At
    <3>2. packed' = packed \/ packed' = <<None>> => \A i \in PackedItems' : i.step = next
      BY <1>1, PlacesSame
    <3>3. CASE PackStart
      BY <1>1, <3>1, <3>2, <3>3 DEF PackStart
    <3>4. CASE PackCollect
      <4>1. PICK flat \in FlatChoices(pack) :
               PackOutcome(flat) /\ (packed' = packed \/ (packed = <<>> /\ packed' = <<None>>))
        BY <3>4, PackRound
      <4>2. pack.pc = "collect"
        BY <3>4, PackRound
      <4>3. \A pc : PackNow(pc, flat).step = pack.step
        BY DEF PackNow
      <4>4. pack.step' = pack.step \/ pack.pc' = "ended"
        BY <3>1, <4>1, <4>3 DEF PackOutcome
      <4> QED
        BY <1>1, <3>2, <4>1, <4>2, <4>4
    <3>5. CASE PackPrepared /\ accept
      <4> DEFINE i == [batch |-> pack.batch, step |-> pack.step, sentinel |-> pack.sentinel]
      <4>1. packed' = <<i>> /\ pack.pc = "prepare"
            /\ pack' = [pack EXCEPT !.pc = "handoff", !.batch = {}]
        BY <3>5 DEF PackPrepared
      <4>2. pack.pc' = "handoff"
        BY <4>1, PackRecords DEF Stage
      <4>3. i.step = next
        BY <1>1, <4>1
      <4>4. ToSet(<<i>>) = {i}
        BY DEF ToSet
      <4> HIDE DEF i
      <4> QED
        BY <4>1, <4>2, <4>3, <4>4 DEF PackedItems
    <3>6. CASE \/ PackPrepared /\ ~accept
               \/ PackUnusable \/ PackFails \/ PackHandedOff \/ CancelPacking
      <4>1. (packed' = packed \/ packed' = <<None>>) /\ pack.pc' \in {"start", "ended"}
        BY <3>1, <3>6 DEF PackPrepared, PackUnusable, PackFails, PackHandedOff, CancelPacking
      <4> QED
        BY <3>2, <4>1
    <3> QED
      BY <1>7, <3>3, <3>4, <3>5, <3>6 DEF PackActions, PackStep
  <2> QED
    BY <1>1, <1>5, <2>1, <2>2 DEF Steps
<1>8. CASE TrainActions
  <2>1. pack' = pack
    BY <1>8, TrainMoves
  <2>2. UNCHANGED next => \A i \in PackedItems' : i.step = next'
    <3>1. packed' = packed \/ packed' = <<>>
      BY <1>8, TrainRound DEF TrainActions, TrainStep, TrainDispatched, TrainRaises, TrainTop,
         TrainGet, TrainReturns, TrainRaised, Publish, TrainWrap, TrainRefuses, TrainFinishes,
         DiscardPrepared, CancelTraining
    <3> QED
      BY <1>1, <3>1, PlacesSame
  <2>3. CASE train' = train /\ UNCHANGED <<next, version>>
    BY <1>1, <1>5, <2>1, <2>2, <2>3 DEF Steps
  <2>4. CASE /\ train.step' = train.step /\ UNCHANGED <<next, version>>
             /\ train.batch' = {} /\ ~(train.pc' \in {"train", "trained"})
             /\ train.pc' \in Before => train.pc \in Before
    BY <1>1, <1>3, <1>5, <2>1, <2>2, <2>4 DEF Steps
  <2>5. CASE /\ train.pc = "train" /\ train' = [train EXCEPT !.pc = "trained"]
             /\ UNCHANGED <<next, version>>
    <3>1. train.pc' = "trained" /\ train.step' = train.step /\ train.taken' = train.taken
      BY <2>5, Trains DEF TrainStates
    <3> QED
      BY <1>1, <1>5, <2>1, <2>2, <2>5, <3>1 DEF Steps
  <2>6. CASE /\ train.pc = "collect"
             /\ \E flat \in FlatChoices(train) : TrainOutcome(flat)
             /\ UNCHANGED version
    <3>1. PICK flat \in FlatChoices(train) : TrainOutcome(flat)
      BY <2>6
    <3>2. pack.pc = "ended" /\ packed = <<>>
      BY <2>6 DEF Shape, TypeOK
    <3>3. \/ next' = next /\ train.pc' \in {"collect", "wrap"} /\ train.step' = train.step
          \/ /\ next' = train.step + 1 /\ train.step' = train.step /\ train.taken' = train.step
             /\ train.pc' = "train"
      BY <3>1 DEF TrainOutcome, TrainNow, StartTraining
    <3>4. packed' = packed
      BY <1>8, <2>6, TrainRound DEF TrainActions, TrainStep, TrainDispatched, TrainRaises,
         TrainTop, TrainGet, TrainReturns, TrainRaised, Publish, TrainWrap, TrainRefuses,
         TrainFinishes, DiscardPrepared, CancelTraining
    <3>5. PackedItems' = {}
      BY <3>2, <3>4, PlacesSame
    <3> QED
      BY <1>1, <1>5, <2>1, <2>6, <3>2, <3>3, <3>5 DEF Steps
  <2>7. CASE TrainGet
    <3>1. pack.pc \notin {"collect", "prepare"} /\ PackedItems' = {} /\ version' = version
          /\ train.pc = "get"
      BY <2>7, TrainsGet DEF Handoff, TrainGet
    <3>2. \/ train.pc' = "wrap" /\ train.step' = train.step /\ next' = next
          \/ /\ next' = train.step + 1 /\ train.pc' = "train" /\ train.step' = train.step
             /\ train.taken' = train.step
      BY <2>7, TrainsGet
    <3> QED
      BY <1>1, <1>5, <2>1, <3>1, <3>2 DEF Steps
  <2>8. CASE Publish
    <3>1. /\ train.step' = train.step + 1 /\ train.pc' \in {"wrap", "top"}
          /\ version' = train.step + 1 /\ next' = train.step + 1 /\ packed' = packed
          /\ train.pc = "trained"
      BY <2>8, Publishes DEF Publish
    <3>2. Cardinality(Trained) + 1 <= Cardinality(Trained')
      BY <2>8, PublishTrains
    <3>3. train.step + 1 <= Cardinality(Trained')
      BY <1>1, <1>2, <1>3, <1>4, <3>2
    <3> QED
      BY <1>1, <2>1, <2>2, <3>1, <3>3 DEF Steps
  <2> QED
    BY <1>8, <2>3, <2>4, <2>5, <2>6, <2>7, <2>8, TrainMoves
<1>9. CASE FailActions
  <2>1. UNCHANGED <<version, next, packed>>
    BY <1>9, FailParts DEF FailFrame
  <2>2. \/ /\ pack'.pc = "ended" /\ train' = train
        \/ /\ pack' = pack /\ train.pc \in {"collect", "train"}
           /\ train'.pc = "ended" /\ train'.step = train.step
    BY <1>9, FailParts
  <2>3. PackedItems' = PackedItems
    BY <2>1, PlacesSame
  <2>4. train.pc \in {"collect", "train"} => next \in {train.step, train.step + 1}
    BY <1>1
  <2> QED
    BY <1>1, <1>5, <2>1, <2>2, <2>3, <2>4 DEF Steps
<1> QED
  BY <1>6, <1>7, <1>8, <1>9, Actions

(* No group that is too old gets into a batch or stays in one.             *)
LEMMA FreshNext ==
    ASSUME TypeOK, OnePlace, Shape, Steps, Fresh, Next
    PROVE  Fresh'
<1>1. /\ \A g \in pack.batch : ~Stale(g, pack.step)
      /\ \A i \in PackedItems : \A g \in i.batch : ~Stale(g, i.step)
      /\ \A g \in train.batch : ~Stale(g, train.step)
  BY DEF Fresh
<1>2. SUFFICES /\ \A g \in pack.batch' : ~Stale(g, pack.step')
               /\ \A i \in PackedItems' : \A g \in i.batch : ~Stale(g, i.step)
               /\ \A g \in train.batch' : ~Stale(g, train.step')
  <2>1. maxOff' = maxOff
    BY Actions, WorkerFrame, StopSteps, PackFrames, TrainFrames, OtherFrames, FailParts
       DEF PackFrame, TrainFrame, FailFrame
  <2> QED
    BY <2>1 DEF Fresh, Stale
<1>3. CASE WorkerActions \/ StopActions \/ RunActions
  <2>1. UNCHANGED <<pack, train>> /\ PackedItems' \subseteq PackedItems
    BY <1>3, OtherFrames
  <2> QED
    BY <1>1, <2>1
<1>4. CASE PackActions
  <2>1. train' = train
    BY <1>4, PackFrames DEF PackFrame
  <2>2. \A pc, n : At(pc, n).batch = {}
    BY DEF At
  <2>3. packed' = packed \/ packed' = <<None>> =>
           \A i \in PackedItems' : \A g \in i.batch : ~Stale(g, i.step)
    BY <1>1, PlacesSame
  <2>4. CASE PackCollect
    <3>1. PICK flat \in FlatChoices(pack) :
             /\ PackOutcome(flat)
             /\ packed' = packed \/ (packed = <<>> /\ packed' = <<None>>)
      BY <2>4, PackRound
    <3>2. /\ pack.pc = "collect" /\ pack.batch \in SUBSET Groups /\ IsFiniteSet(pack.batch)
          /\ Cardinality(pack.batch) < MaxBatch
      BY <2>4, PackRound, PackRecords DEF Shape
    <3>3. \A g \in BatchLeft(pack, flat) : ~Stale(g, pack.step)
      <4>1. \A g \in Kept(pack, flat) : ~Stale(g, pack.step)
        BY <1>1, <3>2, Rounds
      <4> QED
        BY <4>1 DEF BatchLeft
    <3>4. \A pc : PackNow(pc, flat).batch = BatchLeft(pack, flat) /\ PackNow(pc, flat).step = pack.step
      BY DEF PackNow
    <3>5. pack.batch' = {} \/ (pack.batch' = BatchLeft(pack, flat) /\ pack.step' = pack.step)
      BY <2>2, <3>1, <3>4 DEF PackOutcome
    <3> QED
      BY <1>1, <2>1, <2>3, <3>1, <3>3, <3>5
  <2>5. CASE PackPrepared /\ accept
    <3> DEFINE i == [batch |-> pack.batch, step |-> pack.step, sentinel |-> pack.sentinel]
    <3>1. packed' = <<i>> /\ pack' = [pack EXCEPT !.pc = "handoff", !.batch = {}]
      BY <2>5 DEF PackPrepared
    <3>2. pack.batch' = {}
      BY <3>1, PackRecords DEF Stage
    <3>3. \A g \in i.batch : ~Stale(g, i.step)
      BY <1>1
    <3>4. ToSet(<<i>>) = {i}
      BY DEF ToSet
    <3> HIDE DEF i
    <3>5. PackedItems' \subseteq {i}
      BY <3>1, <3>4 DEF PackedItems
    <3> QED
      BY <1>1, <2>1, <3>2, <3>3, <3>5
  <2>6. CASE \/ PackPrepared /\ ~accept
             \/ PackStart \/ PackUnusable \/ PackFails \/ PackHandedOff \/ CancelPacking
    <3>1. (packed' = packed \/ packed' = <<None>>) /\ pack.batch' = {}
      BY <2>2, <2>6 DEF PackStart, PackPrepared, PackUnusable, PackFails, PackHandedOff,
                        CancelPacking
    <3> QED
      BY <1>1, <2>1, <2>3, <3>1
  <2> QED
    BY <1>4, <2>4, <2>5, <2>6 DEF PackActions, PackStep
<1>5. CASE TrainActions
  <2>1. pack' = pack
    BY <1>5, TrainMoves
  <2>2. PackedItems' \subseteq PackedItems
    <3>1. packed' = packed \/ packed' = <<>>
      BY <1>5, TrainRound DEF TrainActions, TrainStep, TrainDispatched, TrainRaises, TrainTop,
         TrainGet, TrainReturns, TrainRaised, Publish, TrainWrap, TrainRefuses, TrainFinishes,
         DiscardPrepared, CancelTraining
    <3> QED
      BY <3>1, PlacesSame
  <2>3. CASE train' = train \/ train.batch' = {}
    BY <1>1, <2>1, <2>2, <2>3
  <2>4. CASE train' = [train EXCEPT !.pc = "trained"]
    <3>1. train.batch' = train.batch /\ train.step' = train.step
      BY <2>4, Trains DEF TrainStates
    <3> QED
      BY <1>1, <2>1, <2>2, <3>1
  <2>5. CASE train.pc = "collect" /\ \E flat \in FlatChoices(train) : TrainOutcome(flat)
    <3>1. PICK flat \in FlatChoices(train) : TrainOutcome(flat)
      BY <2>5
    <3>2. /\ train.batch \in SUBSET Groups /\ IsFiniteSet(train.batch)
          /\ Cardinality(train.batch) < MaxBatch
      BY <2>5, Trains DEF Shape
    <3>3. \A g \in Kept(train, flat) : ~Stale(g, train.step)
      BY <1>1, <3>2, Rounds
    <3>4. \A g \in BatchLeft(train, flat) : ~Stale(g, train.step)
      BY <3>3 DEF BatchLeft
    <3>5. train.batch' = BatchLeft(train, flat) /\ train.step' = train.step
      BY <3>1 DEF TrainOutcome, TrainNow, StartTraining
    <3> QED
      BY <1>1, <2>1, <2>2, <3>4, <3>5
  <2>6. CASE TrainGet
    <3>1. \/ train.batch' = {}
          \/ \E i \in PackedItems : /\ train.batch' = i.batch /\ i.step = train.step
                                    /\ train.step' = train.step
      BY <2>6, TrainsGet
    <3> QED
      BY <1>1, <2>1, <2>2, <3>1
  <2>7. CASE Publish
    <3>1. train.batch' = {}
      BY <2>7, Publishes
    <3> QED
      BY <1>1, <2>1, <2>2, <3>1
  <2> QED
    BY <1>5, <2>3, <2>4, <2>5, <2>6, <2>7, TrainMoves
<1>6. CASE FailActions
  <2>1. /\ packed' = packed
        /\ pack' = pack \/ pack'.batch = {}
        /\ train' = train \/ train'.batch = {}
    BY <1>6, FailParts DEF FailFrame
  <2>2. PackedItems' = PackedItems
    BY <2>1, PlacesSame
  <2> QED
    BY <1>1, <2>1, <2>2
<1> QED
  BY <1>3, <1>4, <1>5, <1>6, Actions

(* Every step keeps the handoff's event to the item that waits for it.      *)
LEMMA HandoffNext ==
    ASSUME TypeOK, OnePlace, Shape, Steps, Handoff, Next
    PROVE  Handoff'
<1>1. /\ pack.pc \in {"start", "collect", "prepare"} => packed = <<>> /\ ~Owes
      /\ pack.pc = "handoff" /\ packed # <<>> => ~handoff /\ ~Owes
      /\ pack.pc = "handoff" /\ handoff => ~Owes
  BY DEF Handoff
<1>2. ASSUME pack.pc' = pack.pc, packed' = packed \/ packed' = <<>>, handoff' = handoff,
             Owes' => Owes
      PROVE  Handoff'
  BY <1>1, <1>2 DEF Handoff
<1>3. post' = post \/ post' = Dispatch(post) => Owes' = Owes
  <2>1. Dispatch(post).pc = post.pc /\ Dispatch(post).handoff = post.handoff
    BY Posts
  <2> QED
    BY <2>1 DEF Owes, PostDone
<1>4. CASE WorkerActions \/ StopActions
  <2>1. UNCHANGED <<pack, packed, handoff, post>>
    BY <1>4, WorkerFrame, StopSteps DEF WorkerActions, packVars
  <2> QED
    BY <1>2, <1>3, <2>1
<1>5. CASE RunActions
  <2>1. CASE PostNotify
    <3>1. UNCHANGED <<pack, packed, handoff>> /\ post.pc = "waiting"
          /\ post' = [post EXCEPT !.pc = "working"]
      BY <2>1 DEF PostNotify, packVars
    <3>2. post.handoff' = post.handoff
      BY <3>1, Posts DEF PostStates
    <3> QED
      BY <1>2, <3>1, <3>2 DEF Owes, PostDone
  <2>2. CASE PostFinish
    <3>1. /\ UNCHANGED <<pack, packed>> /\ post.pc = "working"
          /\ post' = [post EXCEPT !.pc = "done"] /\ handoff' = (handoff \/ post.handoff)
      BY <2>2 DEF PostFinish
    <3>2. post.pc' = "done"
      BY <3>1, Posts DEF PostStates
    <3>3. ~Owes' /\ (handoff' => handoff \/ Owes)
      BY <3>1, <3>2 DEF Owes, PostDone
    <3> QED
      BY <1>1, <3>1, <3>3 DEF Handoff
  <2>3. CASE Cleanup
    <3>1. pack.pc = "ended" /\ pack' = pack
      BY <2>3 DEF Cleanup, StagesEnded
    <3> QED
      BY <3>1 DEF Handoff
  <2>4. CASE Return
    BY <1>2, <1>3, <2>4 DEF Return, packVars
  <2> QED
    BY <1>5, <2>1, <2>2, <2>3, <2>4 DEF RunActions
<1>6. CASE PackActions
  <2>1. Owes' = Owes
    <3>1. post' = post
      BY <1>6, PackFrames DEF PackFrame
    <3> QED
      BY <1>3, <3>1
  <2>2. \A pc, n : At(pc, n).pc = pc
    BY DEF At
  <2>3. CASE PackStart \/ PackUnusable
    <3>1. /\ pack.pc \in {"start", "prepare"}
          /\ \/ pack.pc' \in {"collect", "start"} /\ packed' = packed
             \/ pack.pc' = "ended"
      BY <2>2, <2>3 DEF PackStart, PackUnusable
    <3> QED
      BY <1>1, <2>1, <3>1 DEF Handoff
  <2>4. CASE PackCollect
    <3>1. PICK flat \in FlatChoices(pack) : PackOutcome(flat)
      BY <2>4, PackRound
    <3>2. pack.pc = "collect"
      BY <2>4, PackRound
    <3>3. \/ pack.pc' \in {"collect", "prepare"} /\ packed' = packed
          \/ pack.pc' = "ended"
      BY <2>2, <3>1 DEF PackOutcome, PackNow
    <3> QED
      BY <1>1, <2>1, <3>2, <3>3 DEF Handoff
  <2>5. CASE PackPrepared
    <3>1. CASE accept
      <4>1. pack' = [pack EXCEPT !.pc = "handoff", !.batch = {}] /\ handoff' = FALSE
            /\ pack.pc = "prepare"
        BY <2>5, <3>1 DEF PackPrepared
      <4>2. pack.pc' = "handoff"
        BY <4>1, PackRecords DEF Stage
      <4> QED
        BY <1>1, <2>1, <4>1, <4>2 DEF Handoff
    <3>2. CASE ~accept
      BY <2>2, <2>5, <3>2 DEF PackPrepared, Handoff
    <3> QED
      BY <3>1, <3>2
  <2>6. CASE PackHandedOff
    <3>1. pack.pc = "handoff" /\ handoff /\ packed' = packed /\ pack.pc' \in {"ended", "start"}
      BY <2>2, <2>6 DEF PackHandedOff
    <3> QED
      BY <1>1, <2>1, <3>1 DEF Handoff
  <2>7. CASE PackFails \/ CancelPacking
    BY <2>2, <2>7 DEF PackFails, CancelPacking, Handoff
  <2> QED
    BY <1>6, <2>3, <2>4, <2>5, <2>6, <2>7 DEF PackActions, PackStep
<1>7. CASE TrainActions
  <2>1. pack' = pack
    BY <1>7, TrainMoves
  <2>2. CASE \/ TrainTop \/ TrainCollect \/ TrainReturns \/ TrainRaised \/ TrainWrap
             \/ TrainRefuses \/ TrainDispatched \/ TrainRaises
    <3>1. UNCHANGED <<packed, handoff>> /\ post' \in {post, Dispatch(post)}
      BY <2>2 DEF TrainTop, TrainCollect, TrainReturns, TrainRaised, TrainWrap, TrainRefuses,
                  TrainDispatched, TrainRaises
    <3> QED
      BY <1>2, <1>3, <2>1, <3>1
  <2>3. CASE Publish
    <3>1. UNCHANGED <<packed, handoff>>
          /\ post' = [pc |-> "waiting", dispatched |-> FALSE, handoff |-> FALSE]
      BY <2>3 DEF Publish
    <3>2. ~Owes'
      BY <3>1 DEF Owes
    <3> QED
      BY <1>2, <2>1, <3>1, <3>2
  <2>4. CASE TrainGet
    <3>1. packed # <<>> /\ packed' = <<>>
      BY <2>4, TrainsGet
    <3>2. \/ UNCHANGED <<handoff, post>>
          \/ handoff' = PostDone /\ (PostDone => post' = post)
      BY <2>4, TrainsGet
    <3>3. CASE UNCHANGED <<handoff, post>>
      BY <1>2, <1>3, <2>1, <3>1, <3>3
    <3>4. CASE handoff' = PostDone /\ (PostDone => post' = post)
      <4>1. handoff' => ~Owes'
        BY <3>4 DEF Owes, PostDone
      <4> QED
        BY <1>1, <2>1, <3>1, <4>1 DEF Handoff
    <3> QED
      BY <3>2, <3>3, <3>4
  <2>5. CASE TrainFinishes
    <3>1. packed' = <<>> /\ post' = post /\ (handoff' => handoff \/ PackedItems # {})
      BY <2>5, Discards DEF TrainFinishes
    <3>2. Owes' = Owes /\ (PackedItems # {} => packed # <<>>)
      BY <1>3, <3>1, PlacesSame
    <3> QED
      BY <1>1, <2>1, <3>1, <3>2 DEF Handoff
  <2>6. CASE CancelTraining
    <3>1. packed' = packed
      BY <2>6 DEF CancelTraining
    <3>2. CASE train.pc \in {"trained", "raising", "wrapped"} /\ ~PostDone
      <4>1. post' = [post EXCEPT !.pc = "done"] /\ handoff' = (handoff \/ post.handoff)
        BY <2>6, <3>2 DEF CancelTraining
      <4>2. post.pc' = "done"
        BY <4>1, Posts DEF PostStates
      <4>3. ~Owes' /\ (handoff' => handoff \/ Owes)
        BY <3>2, <4>1, <4>2 DEF Owes, PostDone
      <4> QED
        BY <1>1, <2>1, <3>1, <4>3 DEF Handoff
    <3>3. CASE ~(train.pc \in {"trained", "raising", "wrapped"} /\ ~PostDone)
      <4>1. UNCHANGED <<post, handoff>>
        BY <2>6, <3>3 DEF CancelTraining
      <4> QED
        BY <1>2, <1>3, <2>1, <3>1, <4>1
    <3> QED
      BY <3>2, <3>3
  <2> QED
    BY <1>7, <2>2, <2>3, <2>4, <2>5, <2>6 DEF TrainActions, TrainStep
<1>8. CASE FailActions
  <2>1. UNCHANGED <<packed, handoff>> /\ (pack' = pack \/ pack'.pc = "ended")
    BY <1>8, FailParts DEF FailFrame
  <2>2. Owes' = Owes
    BY <1>8, FailParts DEF Owes, PostDone
  <2> QED
    BY <1>1, <2>1, <2>2 DEF Handoff
<1> QED
  BY <1>4, <1>5, <1>6, <1>7, <1>8, Actions

-----------------------------------------------------------------------------
(* The end of the pipeline.                                                *)

(* A clean pipeline that is done has ended at every stage.                  *)
LEMMA DoneOver ==
    ASSUME Clean, InOrder, done
    PROVE  /\ train.pc = "ended" /\ Over /\ Dry /\ QueueGroups = {} /\ packed = <<>>
           /\ pack.pc = "ended" \/ pack.pc = "handoff"
BY DEF Clean, InOrder, done, Over

(* Where a None may be put at the end of a queue.                           *)
LEMMA EndsLasts ==
    ASSUME NEW q \in Entries
    PROVE  /\ None \notin ToSet(q) => EndsLast(q)
           /\ EndsLast(q) => EndsLast(Append(q, None))
<1>1. None \notin ToSet(q) => EndsLast(q)
  <2>1. \A i \in DOMAIN q : q[i] \in ToSet(q)
    BY DEF ToSet
  <2> QED
    BY <2>1 DEF EndsLast
<1>2. ASSUME EndsLast(q)
      PROVE  EndsLast(Append(q, None))
  <2> DEFINE n == Len(q)
             a == Append(q, None)
  <2>1. None \in Groups \cup {None}
    OBVIOUS
  <2>2. /\ Len(a) = n + 1 /\ a[n + 1] = None /\ \A i \in 1..n : a[i] = q[i]
        /\ n \in Nat /\ DOMAIN q = 1..n /\ DOMAIN a = 1..(n + 1)
    <3>1. /\ a \in Entries /\ Len(a) = n + 1 /\ a[n + 1] = None /\ \A i \in 1..n : a[i] = q[i]
      BY <2>1, AppendProperties DEF Entries
    <3> QED
      BY <3>1, LenProperties DEF Entries
  <2> HIDE DEF n, a
  <2>3. ASSUME NEW i \in DOMAIN a, NEW j \in DOMAIN a, i < j, a[i] = None
        PROVE  a[j] = None
    <3>1. i \in 1..n
      BY <2>2, <2>3
    <3>2. CASE j = n + 1
      BY <2>2, <3>2
    <3>3. CASE j # n + 1
      <4>1. j \in 1..n
        BY <2>2, <3>3
      <4> QED
        BY <1>2, <2>2, <2>3, <3>1, <4>1 DEF EndsLast
    <3> QED
      BY <3>2, <3>3
  <2>4. EndsLast(a)
    BY <2>3 DEF EndsLast
  <2> QED
    BY <2>4 DEF a
<1> QED
  BY <1>1, <1>2

(* What a round leaves of a queue whose Nones come last is such a queue.    *)
LEMMA LeftEndsLast ==
    ASSUME TypeOK, NEW b, IsFiniteSet(b), Cardinality(b) < MaxBatch, EndsLast(queue)
    PROVE  EndsLast(Left(b))
<1> DEFINE n == Len(Got(b))
           L == Left(b)
           k == Len(queue)
<1>1. /\ n \in 0..k /\ k \in Nat /\ DOMAIN L = 1..Len(L) /\ Len(L) = k - n
      /\ \A i \in 1..Len(L) : L[i] = queue[n + i]
      /\ DOMAIN queue = 1..k
  BY Gets, LenProperties DEF TypeOK
<1> HIDE DEF n, L, k
<1>2. ASSUME NEW i \in DOMAIN L, NEW j \in DOMAIN L, i < j, L[i] = None
      PROVE  L[j] = None
  <2>1. /\ i \in 1..Len(L) /\ j \in 1..Len(L) /\ n + i \in 1..k /\ n + j \in 1..k
        /\ n + i < n + j
    BY <1>1, <1>2
  <2>2. queue[n + i] = None
    BY <1>1, <1>2, <2>1
  <2>3. queue[n + j] = None
    BY <1>1, <2>1, <2>2 DEF EndsLast
  <2> QED
    BY <1>1, <2>1, <2>3
<1>3. EndsLast(L)
  BY <1>2 DEF EndsLast
<1> QED
  BY <1>3 DEF L

(* A round that sees the end of the queue leaves no group in it.           *)
LEMMA SawEnds ==
    ASSUME TypeOK, Clean, InOrder, NEW b, IsFiniteSet(b), Cardinality(b) < MaxBatch, SawEnd(b)
    PROVE  Dry /\ LeftGroups(b) = {}
<1>1. /\ rollouts # "running" \/ finished \/ None \in ToSet(queue) => Dry
      /\ EndsLast(queue)
  BY DEF InOrder
<1> DEFINE n == Len(Got(b))
           L == Left(b)
           k == Len(queue)
<1>2. /\ n \in 0..k /\ k \in Nat /\ DOMAIN L = 1..Len(L) /\ Len(L) = k - n
      /\ \A i \in 1..Len(L) : L[i] = queue[n + i]
      /\ DOMAIN queue = 1..k /\ \A i \in 1..n : Got(b)[i] = queue[i]
  BY Gets, LenProperties DEF TypeOK
<1>3. CASE mode = "local"
  <2>1. Got(b) = <<None>>
    BY <1>3 DEF SawEnd
  <2>2. n = 1 /\ Got(b)[1] = None
    BY <2>1
  <2> HIDE DEF n, k, L
  <2>3. 1 \in DOMAIN queue /\ queue[1] = None
    BY <1>2, <2>2
  <2>4. Dry
    BY <1>1, <2>3 DEF ToSet
  <2>5. ASSUME NEW i \in DOMAIN L
        PROVE  L[i] = None
    <3>1. i \in 1..Len(L) /\ n + i \in DOMAIN queue /\ 1 < n + i
      BY <1>2, <2>2, <2>5
    <3>2. queue[n + i] = None
      BY <1>1, <2>3, <3>1 DEF EndsLast
    <3> QED
      BY <1>2, <3>1, <3>2
  <2>6. ToSet(L) \subseteq {None}
    BY <2>5 DEF ToSet
  <2> QED
    BY <2>4, <2>6 DEF LeftGroups, L
<1>4. CASE mode # "local"
  <2>1. finished /\ Left(b) = <<>>
    BY <1>4 DEF SawEnd
  <2>2. ToSet(Left(b)) = {}
    BY <2>1 DEF ToSet
  <2> QED
    BY <1>1, <2>1, <2>2 DEF LeftGroups
<1> QED
  BY <1>3, <1>4

(* A round that leaves the batch empty and does not go on saw the end.     *)
LEMMA Emptied ==
    ASSUME TypeOK, OnePlace, Shape, NEW c, c.batch \in SUBSET Groups, IsFiniteSet(c.batch),
           Cardinality(c.batch) < MaxBatch, NEW flat \in FlatChoices(c),
           Available(c.batch), ~Collapses(flat), BatchLeft(c, flat) = {}, ~GoesOn(c, flat)
    PROVE  SawEnd(c.batch)
<1>1. Kept(c, flat) = {} /\ c.batch = {}
  BY DEF BatchLeft, Kept
<1>2. Cardinality({}) = 0 /\ 0 < MaxBatch /\ 0 < MinBatch /\ MinBatch \in Nat
  BY Constants, FS_EmptySet
<1>3. Items({}) = {} \/ SawEnd({})
  BY <1>1, <1>2 DEF GoesOn
<1>4. SUFFICES ASSUME Items({}) = {} PROVE SawEnd({})
  BY <1>1, <1>3
<1> DEFINE n == Len(Got({}))
           k == Len(queue)
           m == GetCount({})
<1>5. /\ m \in Nat \ {0} /\ n \in 0..k /\ n <= m /\ (n = k \/ n = m) /\ k \in Nat
      /\ Got({}) \in Entries /\ DOMAIN Got({}) = 1..n
      /\ Left({}) \in Entries /\ Len(Left({})) = k - n
      /\ DOMAIN queue = 1..k /\ \A i \in 1..n : Got({})[i] = queue[i]
  BY <1>1, Gets, LenProperties DEF TypeOK
<1>6. k >= m \/ finished
  BY <1>1, <1>2 DEF Available, MustWait
<1>7. mode = "local" => m = 1 /\ ~finished
  BY DEF GetCount, Shape
<1> HIDE DEF n, k, m
<1>8. \A i \in 1..n : Got({})[i] = None /\ queue[i] = None
  BY <1>4, <1>5 DEF Items, ToSet
<1>9. CASE mode = "local"
  <2>1. n = 1
    BY <1>5, <1>6, <1>7, <1>9
  <2>2. Got({}) = <<Got({})[1]>>
    BY <1>5, <2>1 DEF Entries
  <2> QED
    BY <1>8, <1>9, <2>1, <2>2 DEF SawEnd
<1>10. CASE mode # "local"
  <2>1. n = 0
    <3> SUFFICES ASSUME n # 0 PROVE FALSE
      OBVIOUS
    <3>1. 1 \in 1..n /\ 1 \in DOMAIN queue
      BY <1>5
    <3>2. None \in ToSet(queue)
      BY <1>8, <3>1 DEF ToSet
    <3> QED
      BY <1>10, <3>2 DEF Shape
  <2>2. k = 0 /\ finished
    BY <1>5, <1>6, <2>1
  <2>3. Left({}) = <<>>
    BY <1>5, <2>1, <2>2, EmptySeq DEF Entries
  <2> QED
    BY <1>10, <2>2, <2>3 DEF SawEnd
<1> QED
  BY <1>9, <1>10

(* A request to stop is final, and who makes it.                           *)
LEMMA StopCauses ==
    ASSUME TypeOK, OnePlace, Shape, Next
    PROVE  /\ cause # None => cause' = cause
           /\ failed => failed'
           /\ \/ cause' = cause
              \/ cause' \in {"signal", "collapse"}
              \/ cause' = "failure" /\ failed
              \/ TrainFinishes /\ cause' = IF train.step >= MaxSteps THEN "steps" ELSE "end"
<1>1. failed \in BOOLEAN
  BY DEF TypeOK
<1>2. CASE WorkerActions
  <2>1. PICK w \in Workers : WorkerStep(w) \/ FatalRollout(w)
    BY <1>2 DEF WorkerActions
  <2>2. cause' = cause /\ (failed => failed')
    BY <2>1, WorkerFrame, WorkerReasons
  <2> QED
    BY <2>2
<1>3. CASE StopActions
  BY <1>3 DEF StopActions, RolloutStage, SignalStop, DeliverEnd, RequestStop, done
<1>4. CASE PackActions
  <2>1. failed => failed'
    BY <1>4, PackRound DEF PackActions, PackStep, PackFails, PackStart, PackPrepared,
       PackUnusable, PackHandedOff, CancelPacking
  <2>2. CASE PackCollect
    BY <2>1, <2>2 DEF PackCollect, CollectRound, RequestStop, done
  <2>3. CASE ~PackCollect
    <3>1. cause' = cause
      BY <1>4, <2>3 DEF PackActions, PackStep, PackFails, PackStart, PackPrepared,
         PackUnusable, PackHandedOff, CancelPacking, stopVars
    <3> QED
      BY <2>1, <3>1
  <2> QED
    BY <2>2, <2>3
<1>5. CASE TrainActions
  <2>1. failed => failed'
    BY <1>5 DEF TrainActions, TrainStep, TrainDispatched, TrainRaises, TrainTop, TrainCollect,
       TrainGet, TrainReturns, TrainRaised, Publish, TrainWrap, TrainRefuses, TrainFinishes,
       CancelTraining
  <2>2. CASE TrainCollect
    BY <2>1, <2>2 DEF TrainCollect, CollectRound, RequestStop, done
  <2>3. CASE TrainFinishes
    BY <2>1, <2>3 DEF TrainFinishes, RequestStop, done
  <2>4. CASE ~TrainCollect /\ ~TrainFinishes
    <3>1. cause' = cause
      BY <1>5, <2>4 DEF TrainActions, TrainStep, TrainDispatched, TrainRaises, TrainTop,
         TrainGet, TrainReturns, TrainRaised, Publish, TrainWrap, TrainRefuses, CancelTraining,
         stopVars
    <3> QED
      BY <2>1, <3>1
  <2> QED
    BY <2>2, <2>3, <2>4
<1>6. CASE RunActions
  <2>1. failed' = failed
    BY <1>6 DEF RunActions, PostNotify, PostFinish, Cleanup, Return
  <2>2. CASE Cleanup
    BY <2>1, <2>2 DEF Cleanup, RequestStop, done, stopVars
  <2>3. CASE ~Cleanup
    <3>1. cause' = cause
      BY <1>6, <2>3 DEF RunActions, PostNotify, PostFinish, Return
    <3> QED
      BY <2>1, <3>1
  <2> QED
    BY <2>2, <2>3
<1>7. CASE FailActions
  BY <1>7, FailParts DEF FailFrame
<1> QED
  BY <1>2, <1>3, <1>4, <1>5, <1>6, <1>7, Actions

(* The post-train task wakes no worker that has ended or raised.            *)
LEMMA EndedWorkers ==
    ASSUME TypeOK, RunActions
    PROVE  \A w \in Workers : /\ worker'[w].pc = "ended" <=> worker[w].pc = "ended"
                              /\ worker'[w].pc = "raised" <=> worker[w].pc = "raised"
<1> SUFFICES ASSUME NEW w \in Workers
             PROVE  /\ worker'[w].pc = "ended" <=> worker[w].pc = "ended"
                    /\ worker'[w].pc = "raised" <=> worker[w].pc = "raised"
  OBVIOUS
<1>1. CASE PostNotify
  <2>1. worker'[w] = IF worker[w].pc = "waiting" THEN [worker[w] EXCEPT !.pc = "gate"]
                     ELSE worker[w]
    BY <1>1 DEF PostNotify
  <2>2. [worker[w] EXCEPT !.pc = "gate"].pc = "gate"
    BY WorkerStates DEF WorkerRecords
  <2> QED
    BY <2>1, <2>2
<1>2. CASE ~PostNotify
  BY <1>2 DEF RunActions, PostFinish, Cleanup, Return
<1> QED
  BY <1>1, <1>2

(* Every step keeps what is known of the end of the source and of the       *)
(* workers.                                                                 *)
LEMMA RanNext ==
    ASSUME TypeOK, OnePlace, Shape, Ran, Next
    PROVE  Ran'
<1>1. /\ exhausted => offset = ScenarioCount
      /\ ~done /\ ~failed => \A w \in Workers : worker[w].pc = "ended" => exhausted
      /\ cause \in {"steps", "end"} => train.pc = "ended"
  BY DEF Ran
<1>2. /\ cause # None => cause' = cause
      /\ failed => failed'
      /\ \/ cause' = cause
         \/ cause' \in {"signal", "collapse"}
         \/ cause' = "failure" /\ failed
         \/ TrainFinishes /\ cause' = IF train.step >= MaxSteps THEN "steps" ELSE "end"
  BY StopCauses
<1>3. ~done' => ~done
  BY <1>2 DEF done
<1>4. cause' \in {"steps", "end"} => train.pc' = "ended"
  <2>1. CASE TrainFinishes
    <3>1. TrainActions /\ train' = [train EXCEPT !.pc = "ended"]
      BY <2>1 DEF TrainFinishes, TrainActions, TrainStep
    <3> QED
      BY <3>1, Trains DEF TrainStates
  <2>2. CASE ~TrainFinishes /\ cause' \in {"steps", "end"}
    <3>1. cause' = cause /\ train.pc = "ended"
      BY <1>1, <1>2, <2>2
    <3>2. ~TrainActions
      BY <3>1, TrainPcs
    <3>3. train' = train
      BY <3>1, <3>2, Actions, OtherFrames, PackFrames, FailParts DEF PackFrame
    <3> QED
      BY <3>1, <3>3
  <2> QED
    BY <2>1, <2>2
<1>5. CASE WorkerActions
  <2>1. PICK w \in Workers : WorkerStep(w) \/ FatalRollout(w)
    BY <1>5 DEF WorkerActions
  <2>2. /\ worker'[w].pc = "ended" => done \/ failed' \/ exhausted'
        /\ exhausted => exhausted' /\ offset' = offset
        /\ exhausted' => exhausted \/ (offset = ScenarioCount /\ offset' = offset)
        /\ \A v \in Workers : v # w => worker'[v] = worker[v]
    BY <2>1, WorkerReasons, WorkerTypes
  <2> QED
    BY <1>1, <1>2, <1>3, <1>4, <2>2 DEF Ran
<1>6. CASE StopActions \/ PackActions \/ TrainActions
  <2>1. UNCHANGED <<exhausted, offset, worker>>
    BY <1>6, StopSteps, PackFrames, TrainFrames DEF PackFrame, TrainFrame
  <2> QED
    BY <1>1, <1>2, <1>3, <1>4, <2>1 DEF Ran
<1>7. CASE RunActions
  <2>1. UNCHANGED <<exhausted, offset>>
    BY <1>7 DEF RunActions, PostNotify, PostFinish, Cleanup, Return
  <2>2. \A w \in Workers : worker'[w].pc = "ended" => worker[w].pc = "ended"
    BY <1>7, EndedWorkers
  <2> QED
    BY <1>1, <1>2, <1>3, <1>4, <2>1, <2>2 DEF Ran
<1>8. CASE FailActions
  <2>1. failed' = TRUE /\ UNCHANGED <<exhausted, offset>>
    BY <1>8, FailParts DEF FailFrame
  <2> QED
    BY <1>1, <1>4, <2>1 DEF Ran
<1> QED
  BY <1>5, <1>6, <1>7, <1>8, Actions

(* A step into a clean pipeline comes from a clean one, and stops it only at*)
(* its end.                                                                 *)
LEMMA CleanBack ==
    ASSUME TypeOK, OnePlace, Shape, Ran, Next, Clean'
    PROVE  /\ Clean /\ ~failed' /\ train.pc' # "raising" /\ (Workers # {})
           /\ \/ cause' = cause
              \/ TrainFinishes /\ cause' = "end"
<1>1. /\ ~failed' /\ cause' \in {None, "end"} /\ train.pc' # "raising"
      /\ ~(train.pc' \in {"wrap", "wrapped", "finish"} /\ train.step' >= MaxSteps)
  BY DEF Clean
<1>2. /\ cause # None => cause' = cause
      /\ failed => failed'
      /\ \/ cause' = cause
         \/ cause' \in {"signal", "collapse"}
         \/ cause' = "failure" /\ failed
         \/ TrainFinishes /\ cause' = IF train.step >= MaxSteps THEN "steps" ELSE "end"
  BY StopCauses
<1>3. None \notin Causes
  BY Constants
<1>4. cause' = cause \/ (TrainFinishes /\ cause' = "end")
  BY <1>1, <1>2, <1>3 DEF Causes
<1>5. ~failed /\ cause \in {None, "end"}
  BY <1>1, <1>2
<1>6. /\ train.pc # "raising"
      /\ ~(train.pc \in {"wrap", "wrapped", "finish"} /\ train.step >= MaxSteps)
  <2>1. CASE TrainActions
    <3>1. train \in TrainStates
      BY Trains
    <3>2. CASE train.pc \in {"raising", "wrap", "wrapped", "finish"}
      <4>1. \/ TrainDispatched
            \/ TrainRaised \/ TrainWrap \/ TrainRefuses \/ TrainFinishes \/ CancelTraining
        BY <2>1, <3>2, TrainRound DEF TrainActions, TrainStep, TrainRaises, TrainTop, TrainGet,
           TrainReturns, Publish
      <4>2. ~TrainRaised /\ ~CancelTraining /\ ~TrainDispatched
        BY <1>1, <1>5, <3>2 DEF TrainRaised, CancelTraining, TrainDispatched
      <4>3. CASE TrainWrap \/ TrainRefuses
        <5>1. \/ train.pc = "wrap" /\ train' = [train EXCEPT !.pc = "wrapped"]
              \/ train.pc = "wrapped" /\ train' = [train EXCEPT !.pc = "finish"]
          BY <4>3 DEF TrainWrap, TrainRefuses
        <5>2. /\ train.pc' \in {"wrapped", "finish"} /\ train.step' = train.step
              /\ train.pc # "raising"
          BY <3>1, <5>1 DEF TrainStates
        <5> QED
          BY <1>1, <5>2
      <4>4. CASE TrainFinishes
        <5>1. /\ train.pc = "finish"
              /\ RequestStop(IF train.step >= MaxSteps THEN "steps" ELSE "end", queue)
          BY <4>4 DEF TrainFinishes
        <5>2. cause # "end"
          BY <5>1 DEF Ran
        <5>3. cause' = IF train.step >= MaxSteps THEN "steps" ELSE "end"
          BY <1>5, <5>1, <5>2 DEF RequestStop, done
        <5> QED
          BY <1>1, <1>3, <5>1, <5>3 DEF Causes
      <4> QED
        BY <4>1, <4>2, <4>3, <4>4
    <3> QED
      BY <3>2
  <2>2. CASE ~TrainActions
    <3>1. train' = train
      BY <1>1, <2>2, Actions, OtherFrames, PackFrames, FailParts DEF PackFrame
    <3> QED
      BY <1>1, <3>1
  <2> QED
    BY <2>1, <2>2
<1> QED
  BY <1>1, <1>4, <1>5, <1>6, Constants DEF Clean

(* The workers of a clean pipeline keep the order of the end.               *)
LEMMA WorkerOrder ==
    ASSUME TypeOK, OnePlace, Shape, Ran, InOrder, Clean, ~failed', WorkerActions
    PROVE  InOrder'
<1>1. PICK w \in Workers : WorkerStep(w) \/ FatalRollout(w)
  BY DEF WorkerActions
<1>2. UNCHANGED <<mode, maxOff, cause, rollouts, ends, finished, pack, packed, accept, train>>
  BY <1>1, WorkerFrame DEF packVars
<1>3. /\ worker[w].pc # "ended"
      /\ worker[w].pc = "raised" => done \/ failed'
      /\ \A s \in Scenarios : fate'[s] # fate[s] =>
            \/ fate'[s] = "errored"
            \/ /\ fate'[s] = "dropped"
               /\ done \/ failed' \/ finished \/ worker'[w].pc = "raised"
      /\ \A v \in Workers : v # w => worker'[v] = worker[v]
  BY <1>1, WorkerReasons, WorkerTypes
<1>4. ~Dry
  BY <1>3 DEF Dry
<1>5. rollouts = "running" /\ ~finished /\ None \notin ToSet(queue) /\ ~Over /\ ~Ahead /\ ~done
  BY <1>4, DoneOver DEF InOrder
<1>6. NoneDropped'
  <2>1. CASE Raising
    <3>1. PICK v \in Workers : worker[v].pc = "raised"
      BY <2>1 DEF Raising
    <3>2. v # w /\ worker'[v].pc = "raised"
      BY <1>3, <1>5, <3>1
    <3> QED
      BY <3>2 DEF NoneDropped, Raising
  <2>2. CASE ~Raising
    <3>1. \A s \in Scenarios : fate[s] # "dropped"
      BY <2>2 DEF InOrder, NoneDropped
    <3> QED
      BY <1>3, <1>5, <3>1 DEF NoneDropped, Raising
  <2> QED
    BY <2>1, <2>2
<1>7. None \notin ToSet(queue') /\ queue' \in Entries
  <2>1. queue' = queue \/ \E g \in Groups : queue' = Append(queue, g)
    BY <1>1, WorkerMoves
  <2>2. queue \in Entries
    BY DEF TypeOK, Entries
  <2>3. ASSUME NEW g \in Groups, queue' = Append(queue, g)
        PROVE  None \notin ToSet(queue') /\ queue' \in Entries
    <3>1. g \in Groups \cup {None} /\ g # None
      BY Constants
    <3>2. ToSet(queue') = ToSet(queue) \cup {g} /\ queue' \in Entries
      BY <2>2, <2>3, <3>1, Appends
    <3> QED
      BY <1>5, <3>1, <3>2
  <2> QED
    BY <1>5, <2>1, <2>2, <2>3
<1>8. EndsLast(queue)'
  <2>1. EndsLast(queue')
    BY <1>7, EndsLasts
  <2> QED
    BY <2>1 DEF EndsLast
<1>9. PackedItems' = PackedItems
  BY <1>2, PlacesSame
<1>10. ~Over' /\ ~Ahead'
  BY <1>2, <1>5, <1>9 DEF Over, Ahead
<1> QED
  BY <1>2, <1>5, <1>6, <1>7, <1>8, <1>9, <1>10 DEF InOrder

(* The stop actions keep the order of the end.                              *)
LEMMA StopOrder ==
    ASSUME TypeOK, OnePlace, Shape, Ran, InOrder, Clean, cause' = cause, StopActions
    PROVE  InOrder'
<1>1. /\ UNCHANGED <<mode, maxOff, exhausted, worker, pack, packed, accept, train, fate>>
      /\ queue' \in {queue, Append(queue, None)}
  BY StopSteps DEF packVars
<1>2. Dry' = Dry /\ NoneDropped' = NoneDropped
  BY <1>1 DEF Dry, NoneDropped, Raising
<1>3. PackedItems' = PackedItems /\ QueueGroups' = QueueGroups
  BY <1>1, PlacesSame, QueueEnds
<1>4. Over' = Over /\ Ahead' = Ahead
  BY <1>1, <1>3 DEF Over, Ahead
<1>5. EndsLast(queue)'
  <2>1. queue \in Entries /\ EndsLast(queue)
    BY DEF TypeOK, Entries, InOrder
  <2>2. EndsLast(queue')
    BY <1>1, <2>1, EndsLasts
  <2> QED
    BY <2>2 DEF EndsLast
<1>6. UNCHANGED <<rollouts, finished, queue>> \/ Dry
  <2>1. CASE RolloutStage
    <3>1. CASE rollouts = "running"
      <4>1. \A w \in Workers : worker[w].pc = "ended"
        BY <2>1, <3>1 DEF RolloutStage
      <4>2. CASE done
        BY <4>2, DoneOver
      <4>3. CASE ~done
        BY <4>1, <4>3, Constants DEF Ran, Clean, Dry
      <4> QED
        BY <4>2, <4>3
    <3>2. CASE rollouts # "running"
      BY <3>2 DEF InOrder
    <3> QED
      BY <3>1, <3>2
  <2>2. CASE DeliverEnd
    BY <2>2, DoneOver DEF DeliverEnd, Shape
  <2>3. CASE SignalStop
    <3>1. cause = None /\ cause' = "signal"
      BY <2>3 DEF SignalStop, RequestStop, done
    <3> QED
      BY <3>1, Constants DEF Causes
  <2> QED
    BY <2>1, <2>2, <2>3 DEF StopActions
<1>7. rollouts' # "running" \/ finished' \/ None \in ToSet(queue') => Dry
  BY <1>6 DEF InOrder
<1> QED
  BY <1>1, <1>2, <1>3, <1>4, <1>5, <1>7 DEF InOrder

(* The post-train task, the cleanup and the return keep the order of the    *)
(* end.                                                                     *)
LEMMA RunOrder ==
    ASSUME TypeOK, OnePlace, Shape, Ran, InOrder, Clean, ~failed', RunActions
    PROVE  InOrder'
<1>1. UNCHANGED <<mode, maxOff, cause, exhausted, rollouts, queue, finished, pack, train>>
  BY DEF RunActions, PostNotify, PostFinish, Cleanup, Return, queueVars, packVars, stopVars
<1>2. Dry => Dry'
  BY <1>1, EndedWorkers DEF Dry
<1>3. QueueGroups' = QueueGroups /\ EndsLast(queue)' = EndsLast(queue)
  BY <1>1 DEF QueueGroups, EndsLast
<1>4. Over' = Over
  BY <1>1 DEF Over
<1>5. /\ UNCHANGED <<packed, fate>>
      /\ accept' = accept \/ train.pc = "ended"
  <2>1. CASE Cleanup
    <3>1. train.pc = "ended"
      BY <2>1 DEF Cleanup, StagesEnded
    <3>2. packed = <<>>
      BY <3>1 DEF InOrder, Over
    <3>3. packed' = <<>> /\ InPacked = {}
          /\ fate' = [s \in Scenarios |-> IF s \in InPacked THEN "dropped" ELSE fate[s]]
      BY <2>1, <3>2, Discards, PlacesSame DEF Cleanup
    <3>4. fate \in [Scenarios -> Fates \cup {None}]
      BY DEF TypeOK
    <3> QED
      BY <3>1, <3>2, <3>3, <3>4
  <2>2. CASE PostNotify \/ PostFinish \/ Return
    BY <2>2 DEF PostNotify, PostFinish, Return, packVars
  <2> QED
    BY <2>1, <2>2 DEF RunActions
<1>6. PackedItems' = PackedItems /\ Ahead' = Ahead
  BY <1>1, <1>5, PlacesSame DEF Ahead
<1>7. NoneDropped' = NoneDropped
  BY <1>5, EndedWorkers DEF NoneDropped, Raising
<1> QED
  BY <1>1, <1>2, <1>3, <1>4, <1>5, <1>6, <1>7 DEF InOrder

(* A round in a pipeline that nothing has stopped: the queue keeps its      *)
(* order, and a round that sees the end or leaves nothing is the last.      *)
LEMMA RoundOrder ==
    ASSUME TypeOK, OnePlace, Shape, InOrder, Clean, ~done, cause' = cause,
           NEW c, c.batch \in SUBSET Groups, IsFiniteSet(c.batch),
           Cardinality(c.batch) < MaxBatch, NEW flat \in FlatChoices(c),
           NEW dropped, CollectRound(c, flat, dropped)
    PROVE  /\ ~Collapses(flat) /\ queue' = Left(c.batch) /\ EndsLast(queue)'
           /\ None \in ToSet(queue') => None \in ToSet(queue)
           /\ QueueGroups' \subseteq QueueGroups
           /\ SawEnd(c.batch) => Dry /\ QueueGroups' = {}
           /\ BatchLeft(c, flat) = {} /\ ~GoesOn(c, flat) => SawEnd(c.batch)
<1>1. /\ ~Collapses(flat) => queue' = Left(c.batch) /\ UNCHANGED <<cause, ends>>
      /\ Collapses(flat) =>
            /\ cause' # None /\ (done => cause' = cause) /\ (~done => cause' = "collapse")
            /\ queue' \in {Left(c.batch), Append(Left(c.batch), None)}
            /\ mode # "local" => queue' = Left(c.batch)
  <2>1. ends > 0 => done
    BY DEF Shape
  <2> QED
    BY <2>1, RoundTypes
<1>2. ~Collapses(flat) /\ queue' = Left(c.batch)
  BY <1>1 DEF done
<1>3. EndsLast(queue)'
  <2>1. EndsLast(Left(c.batch))
    BY LeftEndsLast DEF InOrder
  <2> QED
    BY <1>2, <2>1 DEF EndsLast
<1>4. /\ QueueGroups = Items(c.batch) \cup LeftGroups(c.batch)
      /\ None \in ToSet(Left(c.batch)) => None \in ToSet(queue)
  BY Parts
<1>5. QueueGroups' = LeftGroups(c.batch)
  BY <1>2 DEF QueueGroups, LeftGroups
<1>6. SawEnd(c.batch) => Dry /\ LeftGroups(c.batch) = {}
  BY SawEnds
<1>7. Available(c.batch)
  BY DEF CollectRound
<1>8. BatchLeft(c, flat) = {} /\ ~GoesOn(c, flat) => SawEnd(c.batch)
  BY <1>2, <1>7, Emptied
<1> QED
  BY <1>2, <1>3, <1>4, <1>5, <1>6, <1>8

(* The packing stage of a clean pipeline keeps the order of the end.        *)
LEMMA PackOrder ==
    ASSUME TypeOK, OnePlace, Shape, Handoff, InOrder, Clean, ~failed', cause' = cause, PackActions
    PROVE  InOrder'
<1>1. UNCHANGED <<mode, maxOff, exhausted, worker, rollouts, finished, accept, train>>
  BY PackFrames DEF PackFrame
<1>2. pack.pc # "ended" /\ mode = "packed"
  <2>1. PackCollect => pack.pc = "collect"
    BY PackRound
  <2> QED
    BY <2>1 DEF PackActions, PackStep, PackFails, PackStart, PackPrepared, PackUnusable,
                PackHandedOff, CancelPacking, Shape
<1>3. /\ NoneDropped
      /\ rollouts # "running" \/ finished \/ None \in ToSet(queue) => Dry
      /\ EndsLast(queue)
      /\ Over \/ Ahead => Dry /\ QueueGroups = {}
      /\ Over => packed = <<>> /\ pack.pc = "handoff" /\ pack.sentinel
      /\ pack.pc = "handoff" => /\ None \notin ToSet(packed)
                                /\ \A i \in PackedItems : i.sentinel = pack.sentinel
                                /\ packed = <<>> /\ pack.sentinel => Over
      /\ ~accept => train.pc \in {"finish", "ended"}
      /\ train.pc = "ended" <=> cause = "end"
  BY <1>2 DEF InOrder
<1>4. Dry' = Dry /\ Over' = Over
  BY <1>1 DEF Dry, Over
<1>5. ~accept => Over
  BY <1>3 DEF Over
<1>6. done => Over
  BY DoneOver
<1>7. pack.pc # "handoff" => accept /\ ~done /\ ~Over
  BY <1>3, <1>5, <1>6
<1>8. NoneDropped'
  <2>0. Raising' = Raising
    BY <1>1 DEF Raising
  <2> SUFFICES ASSUME ~Raising, NEW s \in Scenarios, fate'[s] = "dropped" PROVE FALSE
    BY <2>0 DEF NoneDropped
  <2>1. fate'[s] # fate[s]
    BY <1>3 DEF NoneDropped
  <2>2. failed' \/ (pack.pc \in {"collect", "prepare"} /\ (~accept \/ cause' # None))
    BY <2>1, PackFates
  <2> QED
    BY <1>7, <2>2 DEF done
<1> DEFINE Pack == /\ EndsLast(queue)'
                   /\ None \in ToSet(queue') => None \in ToSet(queue)
                   /\ Over \/ Ahead' => Dry /\ QueueGroups' = {}
                   /\ Over => packed' = <<>> /\ pack.pc' = "ended"
                   /\ pack.pc' = "handoff" =>
                         /\ None \notin ToSet(packed')
                         /\ \A i \in PackedItems' : i.sentinel = pack.sentinel'
                         /\ packed' # <<>>
                   /\ pack.pc' = "ended" => packed' = <<None>> \/ Over
<1>9. SUFFICES Pack
  BY <1>1, <1>2, <1>3, <1>4, <1>8 DEF InOrder
<1>10. UNCHANGED queue => /\ EndsLast(queue)' /\ QueueGroups' = QueueGroups
                          /\ (None \in ToSet(queue') => None \in ToSet(queue))
  BY <1>3 DEF EndsLast, QueueGroups
<1>11. packed' = packed => PackedItems' = PackedItems
  BY PlacesSame
<1>12. \A pc, n : At(pc, n).pc = pc /\ At(pc, n).sentinel = FALSE
  BY DEF At
<1>13. CASE PackStart
  <2>1. UNCHANGED <<queue, packed>> /\ pack.pc = "start" /\ pack.pc' = "collect"
    BY <1>12, <1>13 DEF PackStart, stopVars
  <2>2. Ahead' => Ahead
    BY <1>11, <2>1 DEF Ahead
  <2> QED
    BY <1>3, <1>7, <1>10, <2>1, <2>2
<1>14. CASE PackCollect
  <2>1. PICK flat, dropped :
           flat \in FlatChoices(pack) /\ PackOutcome(flat) /\ CollectRound(pack, flat, dropped)
    BY <1>14, PackRound
  <2>2. /\ pack.pc = "collect" /\ pack.batch \in SUBSET Groups /\ IsFiniteSet(pack.batch)
        /\ Cardinality(pack.batch) < MaxBatch /\ ~done
    BY <1>7, <1>14, PackRound, PackRecords DEF Shape
  <2>3. /\ ~Collapses(flat) /\ queue' = Left(pack.batch) /\ EndsLast(queue)'
        /\ None \in ToSet(queue') => None \in ToSet(queue)
        /\ QueueGroups' \subseteq QueueGroups
        /\ SawEnd(pack.batch) => Dry /\ QueueGroups' = {}
        /\ BatchLeft(pack, flat) = {} /\ ~GoesOn(pack, flat) => SawEnd(pack.batch)
    BY <2>1, <2>2, RoundOrder
  <2>4. \A pc : PackNow(pc, flat).pc = pc /\ PackNow(pc, flat).sentinel = SawEnd(pack.batch)
    BY DEF PackNow
  <2>5. \/ pack.pc' = "collect" /\ packed' = packed
        \/ /\ BatchLeft(pack, flat) = {} /\ ~GoesOn(pack, flat)
           /\ pack.pc' = "ended" /\ packed' = <<None>>
        \/ pack.pc' = "prepare" /\ pack.sentinel' = SawEnd(pack.batch) /\ packed' = packed
    BY <1>7, <1>12, <2>1, <2>2, <2>4 DEF PackOutcome
  <2>6. Ahead' => Ahead \/ SawEnd(pack.batch)
    BY <1>11, <2>3, <2>5 DEF Ahead
  <2> QED
    BY <1>3, <1>7, <2>2, <2>3, <2>5, <2>6
<1>15. CASE PackPrepared
  <2> DEFINE i == [batch |-> pack.batch, step |-> pack.step, sentinel |-> pack.sentinel]
  <2>1. /\ UNCHANGED queue /\ pack.pc = "prepare" /\ packed' = <<i>>
        /\ pack' = [pack EXCEPT !.pc = "handoff", !.batch = {}]
    BY <1>7, <1>15 DEF PackPrepared, stopVars
  <2>2. pack.pc' = "handoff" /\ pack.sentinel' = pack.sentinel
    BY <2>1, PackRecords DEF Stage
  <2>3. i.sentinel = pack.sentinel /\ i # None
    <3>1. i \in Prepared
      BY PackRecords DEF Prepared, Stage
    <3> QED
      BY <3>1, Constants
  <2>4. ToSet(<<i>>) = {i} /\ <<i>> # <<>>
    BY DEF ToSet
  <2> HIDE DEF i
  <2>5. ToSet(packed') = {i} /\ PackedItems' = {i} /\ packed' # <<>>
    BY <2>1, <2>3, <2>4 DEF PackedItems
  <2>6. Ahead' => Ahead
    BY <2>1, <2>2, <2>3, <2>5 DEF Ahead
  <2> QED
    BY <1>3, <1>7, <1>10, <2>1, <2>2, <2>3, <2>5, <2>6
<1>16. CASE PackUnusable
  <2>1. UNCHANGED queue /\ pack.pc = "prepare"
    BY <1>16 DEF PackUnusable, stopVars
  <2>2. CASE pack.sentinel
    <3>1. packed' = <<None>> /\ pack.pc' = "ended"
      BY <1>12, <1>16, <2>2 DEF PackUnusable
    <3>2. Ahead
      BY <2>1, <2>2 DEF Ahead
    <3> QED
      BY <1>3, <1>7, <1>10, <2>1, <3>1, <3>2
  <2>3. CASE ~pack.sentinel
    <3>1. packed' = packed /\ pack.pc' = "start"
      BY <1>12, <1>16, <2>3 DEF PackUnusable
    <3>2. Ahead' => Ahead
      BY <1>11, <3>1 DEF Ahead
    <3> QED
      BY <1>3, <1>7, <1>10, <2>1, <3>1, <3>2
  <2> QED
    BY <2>2, <2>3
<1>17. CASE PackHandedOff
  <2>1. /\ UNCHANGED <<queue, packed>> /\ pack.pc = "handoff" /\ handoff
        /\ pack.pc' = IF ~accept \/ pack.sentinel THEN "ended" ELSE "start"
    BY <1>12, <1>17 DEF PackHandedOff, stopVars
  <2>2. packed = <<>>
    BY <2>1 DEF Handoff
  <2>3. Ahead' => Ahead
    BY <1>11, <2>1 DEF Ahead
  <2> QED
    BY <1>3, <1>5, <1>10, <2>1, <2>2, <2>3
<1>18. ~PackFails /\ ~CancelPacking
  BY DEF PackFails, CancelPacking, Clean
<1> QED
  BY <1>13, <1>14, <1>15, <1>16, <1>17, <1>18 DEF PackActions, PackStep

(* The training stage of a clean pipeline keeps the order of the end.       *)
LEMMA TrainOrder ==
    ASSUME TypeOK, OnePlace, Shape, Steps, Handoff, Ran, InOrder, Clean, Clean',
           cause' = cause \/ (TrainFinishes /\ cause' = "end"), TrainActions
    PROVE  InOrder'
<1>1. UNCHANGED <<mode, maxOff, exhausted, worker, rollouts, pack>>
  BY TrainFrames DEF TrainFrame
<1>2. /\ NoneDropped
      /\ rollouts # "running" \/ finished \/ None \in ToSet(queue) => Dry
      /\ EndsLast(queue)
      /\ Over \/ Ahead => Dry /\ QueueGroups = {}
      /\ Over => /\ packed = <<>>
                 /\ \/ pack.pc = "ended"
                    \/ pack.pc = "handoff" /\ pack.sentinel
      /\ pack.pc = "handoff" => /\ None \notin ToSet(packed)
                                /\ \A i \in PackedItems : i.sentinel = pack.sentinel
                                /\ packed = <<>> /\ pack.sentinel => Over
      /\ mode = "packed" /\ pack.pc = "ended" => packed = <<None>> \/ Over
      /\ ~accept => train.pc \in {"finish", "ended"}
      /\ train.pc = "ended" <=> cause = "end"
  BY DEF InOrder
<1>3. train.pc # "ended" /\ ~done /\ cause = None /\ ~failed /\ ~failed'
  <2>1. train.pc # "ended"
    BY TrainPcs
  <2> QED
    BY <2>1, DoneOver DEF Clean, done
<1>4. train.pc' # "raising" /\ ~(train.pc' \in {"wrap", "wrapped", "finish"} /\ train.step' >= MaxSteps)
  BY DEF Clean
<1>5. NoneDropped'
  <2>0. Raising' = Raising
    BY <1>1 DEF Raising
  <2> SUFFICES ASSUME ~Raising, NEW s \in Scenarios, fate'[s] = "dropped" PROVE FALSE
    BY <2>0 DEF NoneDropped
  <2>1. fate'[s] # fate[s]
    BY <1>2 DEF NoneDropped
  <2>2. \/ failed
        \/ train.pc' = "raising"
        \/ train.pc = "finish" /\ packed # <<>>
        \/ train.pc = "collect" /\ cause' # None
    BY <2>1, TrainFates
  <2>3. train.pc = "finish" => packed = <<>>
    BY <1>2 DEF Over
  <2>4. train.pc = "collect" => cause' = None
    BY <1>3 DEF TrainFinishes
  <2> QED
    BY <1>3, <1>4, <2>2, <2>3, <2>4
<1>6. Dry' = Dry
  BY <1>1 DEF Dry
<1> DEFINE Order == /\ EndsLast(queue)'
                    /\ finished' \/ None \in ToSet(queue') => Dry
                    /\ Over' \/ Ahead' => Dry /\ QueueGroups' = {}
                    /\ Over' => /\ packed' = <<>>
                                /\ \/ pack.pc = "ended"
                                   \/ pack.pc = "handoff" /\ pack.sentinel
                    /\ packed' = packed \/ packed' = <<>>
                    /\ pack.pc = "handoff" /\ packed' = <<>> /\ pack.sentinel => Over'
                    /\ mode = "packed" /\ pack.pc = "ended" => packed' = <<None>> \/ Over'
                    /\ ~accept' => train.pc' \in {"finish", "ended"}
                    /\ train.pc' = "ended" <=> cause' = "end"
<1>7. SUFFICES Order
  <2>1. packed' = packed => PackedItems' = PackedItems
    BY PlacesSame
  <2>2. packed' = <<>> => PackedItems' = {} /\ None \notin ToSet(packed')
    BY PlacesSame DEF ToSet
  <2> QED
    BY <1>1, <1>2, <1>5, <1>6, <2>1, <2>2 DEF InOrder
<1>8. UNCHANGED queue => /\ EndsLast(queue)' /\ QueueGroups' = QueueGroups
                         /\ (None \in ToSet(queue') => None \in ToSet(queue))
  BY <1>2 DEF EndsLast, QueueGroups
<1>9. packed' = packed => Ahead' = Ahead
  BY <1>1, PlacesSame DEF Ahead
<1>10. packed' = <<>> => (Ahead' => Ahead)
  <2>1. packed' = <<>> => PackedItems' = {} /\ None \notin ToSet(packed')
    BY PlacesSame DEF ToSet
  <2> QED
    BY <1>1, <2>1 DEF Ahead
<1>11. train \in TrainStates
  BY Trains
<1>12. ASSUME UNCHANGED <<packed, queue, finished>>, Over' = Over, train.pc' # "ended",
              (accept' = accept /\ train.pc # "finish") \/ train.pc' = "finish", ~TrainFinishes
       PROVE  Order
  BY <1>2, <1>3, <1>8, <1>9, <1>12
<1>13. CASE TrainTop
  <2>1. /\ UNCHANGED <<packed, queue, finished, accept>> /\ train.pc = "top" /\ ~TrainFinishes
    BY <1>13 DEF TrainTop, TrainFinishes, stopVars
  <2>2. CASE train.step >= MaxSteps
    <3>1. train' = [train EXCEPT !.pc = "wrap"]
      BY <1>13, <2>2 DEF TrainTop
    <3>2. train.pc' = "wrap" /\ train.step' = train.step
      BY <1>11, <3>1 DEF TrainStates
    <3> QED
      BY <1>4, <2>2, <3>2
  <2>3. CASE ~(train.step >= MaxSteps)
    <3> DEFINE pc == IF mode = "packed" THEN "get" ELSE "collect"
    <3>1. train' = [train EXCEPT !.batch = {}, !.sentinel = FALSE, !.pc = pc]
          /\ pc \in {"get", "collect"}
      BY <1>13, <2>3 DEF TrainTop
    <3> HIDE DEF pc
    <3>2. train.pc' = pc
      BY <3>1, TrainPcs
    <3>3. ~Over /\ ~Over' /\ train.pc' # "ended"
      BY <2>1, <3>1, <3>2 DEF Over
    <3>4. Over' = Over
      BY <2>1, <3>1, <3>2 DEF Over
    <3> QED
      BY <1>12, <2>1, <3>3, <3>4
  <2> QED
    BY <2>2, <2>3
<1>14. CASE TrainDispatched \/ TrainReturns
  <2>1. /\ UNCHANGED <<packed, queue, finished, accept>> /\ train.pc = "train" /\ ~TrainFinishes
        /\ train' = train \/ train' = [train EXCEPT !.pc = "trained"]
    BY <1>14 DEF TrainDispatched, TrainReturns, TrainFinishes, stopVars
  <2>2. train.pc' \in {"train", "trained"} /\ train.sentinel' = train.sentinel
    BY <1>11, <2>1 DEF TrainStates
  <2>3. Over' = Over
    BY <2>1, <2>2 DEF Over
  <2> QED
    BY <1>12, <2>1, <2>2, <2>3
<1>15. CASE TrainWrap \/ TrainRefuses
  <2>1. /\ UNCHANGED <<packed, queue, finished>> /\ train.pc # "finish" /\ ~TrainFinishes
        /\ \/ train.pc = "wrap" /\ train' = [train EXCEPT !.pc = "wrapped"] /\ accept' = accept
           \/ train.pc = "wrapped" /\ train' = [train EXCEPT !.pc = "finish"]
    BY <1>15 DEF TrainWrap, TrainRefuses, TrainFinishes, stopVars
  <2>2. \/ train.pc' = "wrapped" /\ accept' = accept
        \/ train.pc' = "finish"
    BY <1>11, <2>1 DEF TrainStates
  <2>3. Over' = Over
    BY <2>1, <2>2 DEF Over
  <2> QED
    BY <1>12, <2>1, <2>2, <2>3
<1>16. CASE TrainCollect
  <2>1. PICK flat \in FlatChoices(train) :
           TrainOutcome(flat) /\ CollectRound(train, flat, {})
    BY <1>16, TrainRound
  <2>2. /\ train.pc = "collect" /\ train.batch \in SUBSET Groups /\ IsFiniteSet(train.batch)
        /\ Cardinality(train.batch) < MaxBatch /\ UNCHANGED <<packed, finished, accept>>
    BY <1>16, TrainRound, Trains DEF Shape
  <2>3. cause' = cause /\ mode # "packed" /\ pack.pc = "ended" /\ packed = <<>>
    BY <2>2 DEF TrainFinishes, Shape
  <2>4. /\ ~Collapses(flat) /\ queue' = Left(train.batch) /\ EndsLast(queue)'
        /\ None \in ToSet(queue') => None \in ToSet(queue)
        /\ QueueGroups' \subseteq QueueGroups
        /\ SawEnd(train.batch) => Dry /\ QueueGroups' = {}
        /\ BatchLeft(train, flat) = {} /\ ~GoesOn(train, flat) => SawEnd(train.batch)
    BY <1>3, <2>1, <2>2, <2>3, RoundOrder
  <2>5. \/ train.pc' = "collect"
        \/ train.pc' = "wrap" /\ SawEnd(train.batch)
        \/ train.pc' = "train" /\ train.sentinel' = SawEnd(train.batch)
    BY <2>1, <2>4 DEF TrainOutcome, TrainNow, StartTraining
  <2>6. Over' => SawEnd(train.batch)
    BY <2>5 DEF Over
  <2>7. accept /\ ~Over
    BY <1>2, <2>2 DEF Over
  <2>8. Ahead' => Ahead
    BY <1>9, <2>2
  <2> QED
    BY <1>2, <1>3, <2>2, <2>3, <2>4, <2>5, <2>6, <2>7, <2>8
<1>17. CASE TrainGet
  <2>1. /\ packed # <<>> /\ packed' = <<>> /\ train.pc = "get" /\ ~TrainFinishes
        /\ UNCHANGED <<queue, finished, accept>>
    BY <1>17 DEF TrainGet, TrainFinishes, stopVars
  <2>2. ~Over /\ accept
    BY <1>2, <2>1 DEF Over
  <2>3. pack.pc \in {"handoff", "ended"} /\ mode = "packed"
    <3>1. pack.pc \in {"start", "collect", "prepare", "handoff", "ended"}
      BY PackRecords DEF Stage
    <3> QED
      BY <2>1, <3>1 DEF Handoff, Shape
  <2>4. CASE ToSet(packed) = {None} /\ train.pc' = "wrap"
    <3>1. pack.pc = "ended" /\ Ahead /\ Over'
      BY <1>2, <2>3, <2>4 DEF Ahead, Over
    <3> QED
      BY <1>2, <1>3, <1>8, <1>10, <2>1, <2>2, <2>4, <3>1
  <2>5. CASE \E i \in PackedItems :
                /\ ToSet(packed) = {i} /\ i \in Prepared /\ i.step = train.step
                /\ train' = [pc |-> "train", step |-> train.step, batch |-> i.batch,
                             sentinel |-> i.sentinel, taken |-> i.step]
    <3>1. PICK i \in PackedItems :
             /\ ToSet(packed) = {i} /\ i \in Prepared
             /\ train' = [pc |-> "train", step |-> train.step, batch |-> i.batch,
                          sentinel |-> i.sentinel, taken |-> i.step]
      BY <2>5
    <3>2. packed # <<None>>
      <4>1. ToSet(<<None>>) = {None} /\ i # None
        BY <3>1, Constants DEF ToSet
      <4> QED
        BY <3>1, <4>1
    <3>3. pack.pc = "handoff" /\ i.sentinel = pack.sentinel
      BY <1>2, <2>2, <2>3, <3>1, <3>2
    <3>4. train.pc' = "train" /\ train.sentinel' = i.sentinel
      BY <3>1
    <3>5. Over' <=> i.sentinel
      BY <3>4 DEF Over
    <3>6. i.sentinel => Ahead
      BY <3>1 DEF Ahead
    <3> QED
      BY <1>2, <1>3, <1>8, <1>10, <2>1, <2>2, <3>3, <3>4, <3>5, <3>6
  <2> QED
    BY <1>17, <2>4, <2>5, TrainsGet
<1>18. CASE Publish
  <2>1. UNCHANGED <<packed, queue, finished, accept>> /\ train.pc = "trained" /\ ~TrainFinishes
    BY <1>18 DEF Publish, TrainFinishes, stopVars
  <2>2. train.pc' = IF train.sentinel THEN "wrap" ELSE "top"
    BY <1>18, Publishes
  <2>3. Over' = Over
    BY <1>11, <2>1, <2>2 DEF Over, TrainStates
  <2> QED
    BY <1>12, <2>1, <2>2, <2>3
<1>19. CASE TrainFinishes
  <2>1. /\ train.pc = "finish" /\ train' = [train EXCEPT !.pc = "ended"] /\ packed' = <<>>
        /\ queue' \in {queue, Append(queue, None)}
        /\ RequestStop(IF train.step >= MaxSteps THEN "steps" ELSE "end", queue)
    BY <1>19 DEF TrainFinishes, DiscardPrepared, RequestStop
  <2>2. train.pc' = "ended" /\ Over /\ Over'
    BY <1>11, <2>1 DEF TrainStates, Over
  <2>3. EndsLast(queue)'
    <3>1. queue \in Entries
      BY DEF TypeOK, Entries
    <3>2. EndsLast(queue')
      BY <1>2, <2>1, <3>1, EndsLasts
    <3> QED
      BY <3>2 DEF EndsLast
  <2>4. QueueGroups' = QueueGroups
    BY <2>1, QueueEnds
  <2>5. cause' = "end"
    <3>1. cause' = IF train.step >= MaxSteps THEN "steps" ELSE "end"
      BY <1>3, <2>1 DEF RequestStop
    <3>2. cause' # None
      BY <3>1, Constants DEF Causes
    <3> QED
      BY <1>3, <3>2
  <2> QED
    BY <1>2, <2>1, <2>2, <2>3, <2>4, <2>5
<1>20. ~TrainRaised /\ ~TrainRaises /\ ~CancelTraining
  <2>1. ~TrainRaises
    <3>1. TrainRaises => train' = [train EXCEPT !.pc = "raising", !.batch = {}]
      BY DEF TrainRaises
    <3> QED
      BY <1>4, <3>1, TrainPcs
  <2> QED
    BY <1>3, <2>1 DEF TrainRaised, CancelTraining
<1> QED
  BY <1>13, <1>14, <1>15, <1>16, <1>17, <1>18, <1>19, <1>20 DEF TrainActions, TrainStep

-----------------------------------------------------------------------------
(* The invariant.                                                           *)

(* Every step keeps what is known of the end of the pipeline.               *)
LEMMA EndsNext ==
    ASSUME TypeOK, OnePlace, Shape, Steps, Handoff, Ends, Next
    PROVE  Ends'
<1>1. Ran'
  BY RanNext DEF Ends
<1>2. ASSUME Clean'
      PROVE  InOrder'
  <2>1. /\ Ran /\ Clean /\ ~failed'
        /\ cause' = cause \/ (TrainFinishes /\ cause' = "end")
    BY <1>2, CleanBack DEF Ends
  <2>2. InOrder
    BY <2>1 DEF Ends
  <2>3. CASE TrainActions
    BY <1>2, <2>1, <2>2, <2>3, TrainOrder
  <2>4. CASE ~TrainActions
    <3>1. cause' = cause
      BY <2>1, <2>4 DEF TrainActions, TrainStep
    <3>2. WorkerActions \/ StopActions \/ PackActions \/ RunActions
      BY <2>1, <2>4, Actions, FailParts
    <3> QED
      BY <2>1, <2>2, <3>1, <3>2, WorkerOrder, StopOrder, PackOrder, RunOrder
  <2> QED
    BY <2>3, <2>4
<1> QED
  BY <1>1, <1>2 DEF Ends

(* The invariant holds at first.                                            *)
LEMMA Start == Init => IInv
<1> SUFFICES ASSUME Init
             PROVE  IInv
  OBVIOUS
<1>1. /\ mode \in Modes /\ maxOff \in MaxOffs[mode] /\ version = 0 /\ next = 0 /\ offset = 0 /\ exhausted = FALSE
      /\ cause = None /\ failed = FALSE /\ worker = [w \in Workers |-> Idle]
      /\ rollouts = "running" /\ queue = <<>> /\ ends = 0 /\ finished = FALSE
      /\ pack = At(IF mode = "packed" THEN "start" ELSE "ended", 0)
      /\ packed = <<>> /\ handoff = FALSE /\ accept = TRUE
      /\ train = [pc |-> "top", step |-> 0, batch |-> {}, sentinel |-> FALSE, taken |-> 0]
      /\ post = [pc |-> "none", dispatched |-> FALSE, handoff |-> FALSE]
      /\ zeros = 0 /\ run = "stages"
      /\ fate = [s \in Scenarios |-> None]
  BY DEF Init
<1>2. /\ ToSet(queue) = {} /\ ToSet(packed) = {} /\ QueueGroups = {} /\ PackedItems = {}
      /\ Len(queue) = 0 /\ Len(packed) = 0 /\ DOMAIN queue = {}
  BY <1>1 DEF ToSet, QueueGroups, PackedItems
<1>3. /\ \A w \in Workers : worker[w] = [pc |-> "idle", scenario |-> None, born |-> 0]
      /\ \A s \in Scenarios : fate[s] = None
  BY <1>1 DEF Idle
<1>4. /\ pack.pc = (IF mode = "packed" THEN "start" ELSE "ended")
      /\ pack.step = 0 /\ pack.batch = {} /\ pack.sentinel = FALSE
  BY <1>1 DEF At
<1>5. Cardinality({}) = 0 /\ IsFiniteSet({})
  BY FS_EmptySet
<1>6. TypeOK
  <2>1. 0 \in 0..ScenarioCount /\ 0 \in 0..CollapseLimit /\ 0 <= QueueSize /\ 0 <= MaxBatch
    BY Constants
  <2>2. pack \in Stage({"start", "collect", "prepare", "handoff", "ended"})
    BY <1>1, <2>1 DEF Stage, At
  <2>3. worker \in [Workers -> [pc : {"idle", "gate", "waiting", "rollout", "putting", "raised", "ended"},
                                scenario : Scenarios \cup {None}, born : 0..version]]
    BY <1>1 DEF Idle
  <2>4. queue \in Seq(Groups \cup {None}) /\ packed \in Seq(Prepared \cup {None})
    BY <1>1
  <2>5. fate \in [Scenarios -> Fates \cup {None}]
    BY <1>1
  <2>6. train \in [pc : {"top", "get", "collect", "train", "trained", "raising",
                         "wrap", "wrapped", "finish", "ended"},
                   step : 0..ScenarioCount, batch : SUBSET Groups,
                   sentinel : BOOLEAN, taken : 0..ScenarioCount]
    BY <1>1, <2>1
  <2>7. Cardinality(pack.batch) <= MaxBatch /\ Cardinality(train.batch) <= MaxBatch
    BY <1>1, <1>4, <1>5, <2>1
  <2>8. post \in [pc : {"none", "waiting", "working", "done"},
                  dispatched : BOOLEAN, handoff : BOOLEAN]
    BY <1>1
  <2>9. /\ {version, next, offset} \subseteq 0..ScenarioCount
        /\ {exhausted, failed, finished, handoff, accept} \subseteq BOOLEAN
        /\ Len(queue) <= QueueSize /\ Len(packed) <= 1
        /\ zeros \in 0..CollapseLimit /\ ends \in 0..1
    <3>1. /\ version = 0 /\ next = 0 /\ offset = 0 /\ zeros = 0 /\ ends = 0
          /\ exhausted = FALSE /\ failed = FALSE /\ finished = FALSE
          /\ handoff = FALSE /\ accept = TRUE
      BY <1>1
    <3>2. {version, next, offset} \subseteq 0..ScenarioCount /\ zeros \in 0..CollapseLimit
      BY <2>1, <3>1
    <3>3. {exhausted, failed, finished, handoff, accept} \subseteq BOOLEAN
      BY <3>1
    <3> QED
      BY <1>2, <2>1, <3>1, <3>2, <3>3
  <2> QED
    BY <1>1, <2>2, <2>3, <2>4, <2>5, <2>6, <2>7, <2>8, <2>9 DEF TypeOK
<1>7. OnePlace
  <2>1. Open = {}
    BY <1>1, Constants DEF Open
  <2>2. InWorkers = {}
    BY <1>3 DEF InWorkers
  <2>3. InQueue = {} /\ InPack = {} /\ InPacked = {} /\ InTrain = {}
    BY <1>1, <1>2, <1>4 DEF InQueue, InPack, InPacked, InTrain, Of
  <2>4. Distinct(queue)
    BY <1>2 DEF Distinct
  <2>5. \A v, w \in Workers : worker[v].scenario = None
    BY <1>3
  <2> QED
    BY <1>3, <2>1, <2>2, <2>3, <2>4, <2>5 DEF OnePlace
<1>8. Shape
  <2>1. /\ mode # "packed" => pack.pc = "ended"
        /\ pack.pc \in {"start", "ended"} /\ pack.batch = {}
    BY <1>4
  <2>2. train.pc = "top" /\ train.batch = {}
    BY <1>1
  <2>3. \A w \in Workers : worker[w].scenario = None /\ worker[w].pc = "idle"
    BY <1>3
  <2>4. IsFiniteSet(pack.batch) /\ IsFiniteSet(train.batch)
    BY <1>5, <2>1, <2>2
  <2>5. /\ finished = FALSE /\ packed = <<>> /\ ends = 0 /\ run = "stages"
        /\ None \notin ToSet(queue) /\ PackedItems = {}
    BY <1>1, <1>2
  <2>6. \A w \in Workers : worker[w].scenario = None <=> worker[w].pc \in {"idle", "raised", "ended"}
    BY <2>3
  <2> QED
    BY <2>1, <2>2, <2>4, <2>5, <2>6 DEF Shape
<1>9. Steps
  <2>1. IsFiniteSet(Trained) /\ Cardinality(Trained) \in Nat
    <3>1. IsFiniteSet(Scenarios)
      BY FS_Interval, Constants DEF Scenarios
    <3> QED
      BY <3>1, FS_Subset, FS_CardinalityType DEF Trained
  <2> QED
    BY <1>1, <1>2, <1>4, <2>1 DEF Steps
<1>10. Fresh
  BY <1>1, <1>2, <1>4 DEF Fresh
<1>11. Handoff
  BY <1>1, <1>4 DEF Handoff, Owes, PostDone
<1>12. Ends
  <2>1. Ran
    <3>1. exhausted = FALSE /\ cause = None
      BY <1>1
    <3>2. \A v \in Workers : worker[v].pc # "ended"
      BY <1>3
    <3>3. cause \notin {"steps", "end"}
      BY <3>1, Constants DEF Causes
    <3> QED
      BY <3>1, <3>2, <3>3 DEF Ran
  <2>2. ~Over
    BY <1>1 DEF Over
  <2>3. ~Ahead
    BY <1>2, <1>4 DEF Ahead
  <2>4. InOrder
    <3>1. NoneDropped
      BY <1>3, Constants DEF Fates, NoneDropped
    <3>2. EndsLast(queue)
      BY <1>2 DEF EndsLast
    <3>3. rollouts = "running" /\ ~finished /\ None \notin ToSet(queue)
      BY <1>1, <1>2
    <3>4. pack.pc # "handoff" /\ (mode = "packed" => pack.pc # "ended")
      BY <1>4
    <3>5. accept /\ train.pc # "ended" /\ cause # "end"
      BY <1>1, Constants DEF Causes
    <3> QED
      BY <2>2, <2>3, <3>1, <3>2, <3>3, <3>4, <3>5 DEF InOrder
  <2> QED
    BY <2>1, <2>4 DEF Ends
<1> QED
  BY <1>6, <1>7, <1>8, <1>9, <1>10, <1>11, <1>12 DEF IInv

(* Every step keeps the invariant.                                          *)
LEMMA Moves == IInv /\ Next => IInv'
<1> SUFFICES ASSUME IInv, Next
             PROVE  IInv'
  OBVIOUS
<1>1. TypeOK /\ OnePlace /\ Shape /\ Steps /\ Fresh /\ Handoff /\ Ends
  BY DEF IInv
<1>2. TypeOK' /\ OnePlace' /\ Shape'
  BY <1>1, TypesNext, PlacesNext, ShapeNext
<1>3. Steps' /\ Fresh'
  BY <1>1, StepsNext, FreshNext
<1>4. Handoff' /\ Ends'
  BY <1>1, HandoffNext, EndsNext
<1> QED
  BY <1>2, <1>3, <1>4 DEF IInv

(* A step that changes nothing keeps the invariant.                         *)
LEMMA Stutters == IInv /\ UNCHANGED vars => IInv'
<1> SUFFICES ASSUME IInv, UNCHANGED vars
             PROVE  IInv'
  OBVIOUS
<1>1. UNCHANGED <<mode, maxOff, version, next, offset, exhausted, cause, failed, worker,
                  rollouts, queue, ends, finished, pack, packed, handoff, accept,
                  train, post, zeros, run, fate>>
  BY DEF vars, queueVars, packVars
<1>2. TypeOK' = TypeOK
  BY <1>1 DEF TypeOK
<1>3. OnePlace' = OnePlace
  BY <1>1 DEF OnePlace, Open, InWorkers, InQueue, InPack, InPacked, InTrain,
              PackedItems, QueueGroups, Distinct
<1>4. Shape' = Shape
  BY <1>1 DEF Shape, PackedItems, StagesEnded, done
<1>5. Steps' = Steps
  BY <1>1 DEF Steps, Trained, PackedItems
<1>6. Fresh' = Fresh
  BY <1>1 DEF Fresh, PackedItems, Stale
<1>7. Handoff' = Handoff
  BY <1>1 DEF Handoff, Owes, PostDone
<1>8. Ends' = Ends
  <2>1. Ran' = Ran
    BY <1>1 DEF Ran, done
  <2>2. Clean' = Clean
    BY <1>1 DEF Clean
  <2>3. InOrder' = InOrder
    BY <1>1 DEF InOrder, NoneDropped, Raising, Dry, Over, Ahead, EndsLast, PackedItems,
                QueueGroups
  <2> QED
    BY <2>1, <2>2, <2>3 DEF Ends
<1> QED
  BY <1>2, <1>3, <1>4, <1>5, <1>6, <1>7, <1>8 DEF IInv

-----------------------------------------------------------------------------
(* In every reachable state of the pipeline each scenario that was read is  *)
(* in one place or has one fate, each stage holds what its point of the     *)
(* code says, the steps agree, and the stages see the end of the queue in   *)
(* their order.                                                             *)
THEOREM Invariant == Spec => []IInv
<1>1. IInv /\ [Next]_vars => IInv'
  BY Moves, Stutters
<1> QED
  BY Start, <1>1, PTL DEF Spec

(* The trainer's state, queues and batches hold what the code keeps there;  *)
(* neither a batch nor a queue exceeds its limit.                           *)
THEOREM TypeCorrect == Spec => []TypeOK
<1>1. IInv => TypeOK
  BY DEF IInv
<1> QED
  BY <1>1, Invariant, PTL

(* _collect_batch's check for stale groups is enough: no group is trained   *)
(* on that is older than max_steps_off_policy at the step that trains it.   *)
THEOREM TrainsOnFresh == Spec => []TrainsFresh
<1>1. IInv => TrainsFresh
  BY DEF IInv, Fresh, TrainsFresh
<1> QED
  BY <1>1, Invariant, PTL

(* A batch packed ahead by _packing_stage is trained at the step that it    *)
(* was collected for: next_training_step moves before the handoff.          *)
THEOREM PacksForStep == Spec => []PackedForItsStep
<1>1. IInv => PackedForItsStep
  <2> SUFFICES ASSUME IInv
               PROVE  PackedForItsStep
    OBVIOUS
  <2>1. /\ train.pc \in {"train", "trained"} => train.taken = train.step
        /\ train.pc = "get" => next = train.step
        /\ \A i \in PackedItems : i.step = next
    BY DEF IInv, Steps
  <2> QED
    BY <2>1 DEF PackedForItsStep, Training, PackedItems
<1> QED
  BY <1>1, Invariant, PTL

(* However run ends, the packed queue is empty and only groups in the       *)
(* result queue have no fate; when the source ran dry and nothing else      *)
(* stopped the pipeline, no scenario is without one and none was dropped.   *)
THEOREM LosesNothing == Spec => []NothingLost
<1>1. IInv => NothingLost
  <2> SUFFICES ASSUME IInv, run = "ended"
               PROVE  /\ packed = <<>>
                      /\ \A s \in 1..offset :
                            fate[s] # None \/ \E g \in ToSet(queue) \ {None} : g.scenario = s
                      /\ cause = "end" /\ ~failed =>
                            \A s \in Scenarios : fate[s] \in Fates \ {"dropped"}
    BY DEF NothingLost
  <2>1. TypeOK /\ OnePlace /\ Shape /\ Ran /\ (Clean => InOrder)
    BY DEF IInv, Ends
  <2>2. packed = <<>> /\ StagesEnded
    BY <2>1 DEF Shape
  <2>3. InPack = {} /\ InTrain = {} /\ InPacked = {}
    <3>1. pack.batch = {} /\ train.batch = {}
      BY <2>1, <2>2 DEF Shape, StagesEnded
    <3> QED
      BY <2>2, <3>1, PlacesSame
  <2>4. InWorkers = {}
    <3>1. \A w \in Workers : worker[w].scenario = None
      BY <2>1, <2>2 DEF Shape, StagesEnded
    <3> QED
      BY <3>1 DEF InWorkers
  <2>5. Open = InQueue
    BY <2>1, <2>3, <2>4 DEF OnePlace
  <2>6. \A s \in 1..offset :
           fate[s] # None \/ \E g \in ToSet(queue) \ {None} : g.scenario = s
    BY <2>5 DEF Open, InQueue, Of, QueueGroups
  <2>7. ASSUME cause = "end", ~failed, NEW s \in Scenarios
        PROVE  fate[s] \in Fates \ {"dropped"}
    <3>1. train.pc = "ended"
      BY <2>2 DEF StagesEnded
    <3>2. InOrder /\ Over
      BY <2>1, <2>7, <3>1 DEF Clean, Over
    <3>3. exhausted /\ QueueGroups = {} /\ fate[s] # "dropped"
      BY <3>2, <2>2, <2>7 DEF InOrder, Dry, NoneDropped, Raising, StagesEnded
    <3>4. offset = ScenarioCount
      BY <2>1, <3>3 DEF Ran
    <3>5. s \notin Open
      BY <2>5, <3>3 DEF InQueue, Of
    <3>6. fate[s] # None
      BY <3>4, <3>5 DEF Open, Scenarios
    <3>7. fate[s] \in Fates \cup {None}
      BY <2>1 DEF TypeOK
    <3> QED
      BY <3>3, <3>6, <3>7
  <2> QED
    BY <2>2, <2>6, <2>7
<1> QED
  BY <1>1, Invariant, PTL

=============================================================================
