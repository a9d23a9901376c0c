------------------------ MODULE OptimizerStateProofs ------------------------
(***************************************************************************)
(* Proofs about OptimizerState for any number of ranks, steps, restarts    *)
(* and pool slots.  The invariant follows the order of the writes: a       *)
(* directory is renamed only when it is whole, the pointer only names what *)
(* was renamed, and at any time at most one renamed generation is ahead of *)
(* the pointer, the one a recovery completes.                              *)
(***************************************************************************)
EXTENDS OptimizerState, FiniteSetTheorems, TLAPS

PolicyNumber == IF policy = None THEN 0 ELSE policy.adapter.step

(* What a recovery makes the pointer name.                                 *)
Newest == IF Advancing = {} THEN pointer ELSE CHOOSE g \in Advancing : TRUE

(* A renamed generation is whole, and the pointer names one.               *)
CommittedAreWhole ==
    /\ \A g \in Generations :
          dir[g].at = "committed" => Complete(g) /\ g \in adapters
    /\ pointer # None => dir[pointer].at = "committed"

(* No generation is of a life to come; those committed in this life are    *)
(* published, but for the one the writer is at; and what a rank reported   *)
(* and is not published yet is in the directory.                           *)
DirectoriesFollow ==
    /\ \A g \in Generations : g.life > life => dir[g].at # "committed"
    /\ phase = "up" =>
          /\ \A g \in Generations :
                dir[g].at = "committed" /\ g.life = life =>
                   \/ g.step <= published
                   \/ g.step = Next1 /\ writer \in {"renamed", "temp", "pointed"}
          /\ \A r \in Ranks, s \in 1..MaxStep :
                published < s /\ s <= persisted[r] /\ Saves(s) =>
                   r \in dir[Gen(s)].shards

(* Where the writer is, and the pass that links an adapter meanwhile.      *)
WriterFollows ==
    /\ writer # "idle" => phase = "up" /\ Reported /\ Saves(Next1)
    /\ writer = "manifest" => dir[Gen(Next1)].manifest
    /\ writer = "temp" => temp = Gen(Next1)
    /\ writer = "pointed" => pointer = Gen(Next1)
    /\ alias => /\ phase = "up" /\ published = step /\ step < MaxStep
                /\ Gen(step + 1) \in adapters

(* The renamed generation ahead of the pointer, if any, and the temporary  *)
(* pointer, which names it.                                                *)
AheadIsOne ==
    /\ phase = "up" =>
          Advancing = IF writer \in {"renamed", "temp"} THEN {Gen(Next1)} ELSE {}
    /\ phase = "down" =>
          /\ \A g, h \in Advancing : g = h
          /\ temp \in Generations => Advancing = {temp}
    /\ phase \in {"initial", "quarantine"} => Advancing = {}
    /\ temp # None => phase = "down" \/ (phase = "up" /\ writer = "temp")

(* The policy pointer is newer than what it was anchored to and older than *)
(* what is ahead of the pointer.                                           *)
PolicyFollows ==
    /\ PolicyIsSound
    /\ policy # None => policy.adapter.step > StepOf(policy.anchor)
    /\ \A g \in Advancing : g.step > PolicyNumber

(* Nothing on disk is ahead of what the service knows to be published.     *)
PublishedIsNewest ==
    phase = "up" =>
       /\ durable <= published /\ PolicyNumber <= published
       /\ writer # "pointed" => StepOf(pointer) <= published
       /\ writer # "pointed" =>
             PolicyStep(pointer, policy) = published \/ ~Saves(published)

IInv ==
    /\ TypeOK /\ CommittedAreWhole /\ DirectoriesFollow /\ WriterFollows
    /\ AheadIsOne /\ PolicyFollows /\ PublishedIsNewest
    /\ DurableIsKept /\ RefusedOnlyUncommitted /\ LineageIsClean

-----------------------------------------------------------------------------
(* Generations, and the value of CommittedStep.                            *)

LEMMA GenType ==
    ASSUME TypeOK, NEW s \in 1..MaxStep
    PROVE  /\ Gen(s) \in Generations /\ Gen(s).step = s /\ Gen(s).life = life
           /\ \A g \in Generations : g.step = s /\ g.life = life <=> g = Gen(s)
  BY DEF TypeOK, Gen, Generations

LEMMA ConstantsType ==
    /\ World \in Nat \ {0} /\ MaxStep \in Nat \ {0} /\ SaveEvery \in Nat \ {0}
    /\ Capacity \in Nat \ {0} /\ MaxLives \in Nat
    /\ Zero \in Ranks
    /\ None # Torn /\ None \notin Generations /\ Torn \notin Generations
    /\ None \notin Policies
  BY OptimizerAssumption DEF Zero, Ranks

(* A step that every rank has reported is one the directory can hold.      *)
LEMMA ReportedType ==
    ASSUME TypeOK, Reported
    PROVE  /\ Next1 \in 1..MaxStep /\ Next1 <= step
           /\ \A r \in Ranks : Next1 <= persisted[r]
<1>1. \A r \in Ranks : persisted[r] > published /\ persisted[r] \in 0..MaxStep
                        /\ persisted[r] <= step
  BY DEF Reported, TypeOK
<1>2. Zero \in Ranks /\ published \in 0..MaxStep /\ step \in 0..MaxStep
  BY ConstantsType DEF TypeOK
<1> QED
  BY <1>1, <1>2, ConstantsType DEF Next1

LEMMA AdvancingType ==
    ASSUME TypeOK
    PROVE  /\ Advancing \subseteq Generations
           /\ StepOf(pointer) \in 0..MaxStep
           /\ PolicyNumber \in 0..MaxStep
           /\ pointer # None => pointer \in Generations /\ StepOf(pointer) = pointer.step
           /\ policy # None => /\ policy.adapter \in Generations
                               /\ policy.anchor \in Generations \cup {None}
                               /\ PolicyNumber = policy.adapter.step
                               /\ StepOf(policy.anchor) \in 0..MaxStep
  BY ConstantsType DEF TypeOK, Advancing, StepOf, PolicyNumber, Policies, Generations

(* The committed step is the greater of what the pointers name.            *)
StepValues ==
    /\ PolicyStep(pointer, policy) =
          IF StepOf(pointer) < PolicyNumber THEN PolicyNumber ELSE StepOf(pointer)
    /\ CommittedStep =
          IF Advancing = {} THEN PolicyStep(pointer, policy) ELSE Newest.step

LEMMA PolicyStepValue ==
    ASSUME TypeOK, PolicyFollows
    PROVE  PolicyStep(pointer, policy) =
              IF StepOf(pointer) < PolicyNumber THEN PolicyNumber ELSE StepOf(pointer)
  BY AdvancingType DEF PolicyFollows, PolicyStep, PolicyNumber

LEMMA StepValuesHold ==
    TypeOK /\ PolicyFollows => StepValues
<1> SUFFICES ASSUME TypeOK, PolicyFollows
             PROVE  CommittedStep = IF Advancing = {} THEN PolicyStep(pointer, policy)
                                    ELSE Newest.step
  BY PolicyStepValue DEF StepValues
<1>1. CommittedStep = PolicyStep(Newest, policy)
  BY DEF CommittedStep, Newest
<1>2. CASE Advancing = {}
  BY <1>1, <1>2 DEF Newest
<1>3. CASE Advancing # {}
  <2>1. Newest \in Advancing /\ Newest \in Generations /\ Newest # None
    BY <1>3, AdvancingType, ConstantsType DEF Newest
  <2>2. Newest.step \in 0..MaxStep /\ Newest.step > PolicyNumber
    BY <2>1 DEF PolicyFollows, Generations
  <2>3. StepOf(Newest) = Newest.step
    BY <2>1 DEF StepOf
  <2>4. policy # None => policy.anchor # Newest
    <3>1. ASSUME policy # None, policy.anchor = Newest PROVE FALSE
      <4>1. policy.adapter.step > Newest.step /\ PolicyNumber = policy.adapter.step
        BY <2>3, <3>1, AdvancingType DEF PolicyFollows
      <4> QED
        BY <2>2, <4>1, AdvancingType
    <3> QED
      BY <3>1
  <2> QED
    BY <1>1, <1>3, <2>2, <2>3, <2>4, AdvancingType DEF PolicyStep
<1> QED
  BY <1>2, <1>3

-----------------------------------------------------------------------------
(* The actions, one by one.  Each lemma also says what becomes of the      *)
(* committed step, which is what the refinement needs.                     *)

LEMMA LearnKeeps ==
    ASSUME IInv, Learn
    PROVE  IInv' /\ CommittedStep' = CommittedStep
<1> USE DEF IInv, Learn, files
<1>1. Advancing' = Advancing /\ CommittedStep' = CommittedStep
  BY DEF Advancing, CommittedStep, PolicyStep, StepOf
<1>2. TypeOK'
  BY ConstantsType DEF TypeOK
<1>3. CommittedAreWhole' /\ DirectoriesFollow' /\ LineageIsClean'
  BY DEF CommittedAreWhole, DirectoriesFollow, LineageIsClean, Complete, Gen, Next1
<1>4. WriterFollows' /\ AheadIsOne'
  BY <1>1 DEF WriterFollows, AheadIsOne, Reported, Gen, Next1
<1>5. PolicyFollows' /\ PublishedIsNewest'
  BY <1>1 DEF PolicyFollows, PublishedIsNewest, PolicyIsSound, PolicyNumber, PolicyStep,
              StepOf
<1>6. DurableIsKept' /\ RefusedOnlyUncommitted'
  BY <1>1 DEF DurableIsKept, RefusedOnlyUncommitted
<1> QED
  BY <1>1, <1>2, <1>3, <1>4, <1>5, <1>6

LEMMA WriteAdapterKeeps ==
    ASSUME IInv, WriteAdapter
    PROVE  IInv' /\ CommittedStep' = CommittedStep
<1> USE DEF IInv, WriteAdapter, memory
<1>1. Advancing' = Advancing /\ CommittedStep' = CommittedStep
  BY DEF Advancing, CommittedStep, PolicyStep, StepOf
<1>2. persisted[Zero] + 1 \in 1..MaxStep
  BY ConstantsType DEF TypeOK
<1>3. TypeOK'
  BY <1>2, GenType DEF TypeOK
<1>4. CommittedAreWhole' /\ DirectoriesFollow'
  BY DEF CommittedAreWhole, DirectoriesFollow, Complete, Gen, Next1
<1>5. LineageIsClean'
  BY <1>2, GenType DEF LineageIsClean, Gen
<1>6. WriterFollows' /\ AheadIsOne'
  BY <1>1 DEF WriterFollows, AheadIsOne, Reported, Gen, Next1
<1>7. PolicyFollows' /\ PublishedIsNewest'
  BY <1>1 DEF PolicyFollows, PublishedIsNewest, PolicyIsSound, PolicyNumber, PolicyStep,
              StepOf
<1>8. DurableIsKept' /\ RefusedOnlyUncommitted'
  BY <1>1 DEF DurableIsKept, RefusedOnlyUncommitted
<1> QED
  BY <1>1, <1>3, <1>4, <1>5, <1>6, <1>7, <1>8

LEMMA PersistKeeps ==
    ASSUME IInv, NEW r \in Ranks, Persist(r)
    PROVE  IInv' /\ CommittedStep' = CommittedStep
<1> DEFINE s == persisted[r] + 1
<1> USE DEF IInv
<1>1. /\ s \in 1..MaxStep /\ published < s /\ s <= step
      /\ phase = "up" /\ UNCHANGED <<life, phase, step, published, writer, alias, adapters,
                                     pointer, temp, policy, durable>>
      /\ persisted' = [persisted EXCEPT ![r] = s]
  <2>1. /\ phase = "up" /\ UNCHANGED <<life, phase, step, published, writer, alias,
                                       adapters, pointer, temp, policy, durable>>
        /\ persisted' = [persisted EXCEPT ![r] = s] /\ s <= step
    BY DEF Persist
  <2>2. /\ step \in 0..MaxStep /\ published \in 0..MaxStep
        /\ persisted[r] \in 0..MaxStep /\ published <= persisted[r]
    BY DEF TypeOK
  <2> QED
    BY <2>1, <2>2, ConstantsType
<1>2. Gen(s) \in Generations /\ Gen(s).step = s /\ Gen(s).life = life
  BY <1>1, GenType
<1>3. dir[Gen(s)].at # "committed"
  <2>1. writer # "idle" => s # Next1
    BY <1>1, ReportedType DEF WriterFollows, TypeOK
  <2> QED
    BY <1>1, <1>2, <2>1 DEF DirectoriesFollow, TypeOK
<1>4. /\ \A g \in Generations : dir'[g].at = "committed" <=> dir[g].at = "committed"
      /\ \A g \in Generations : dir'[g].manifest = dir[g].manifest
      /\ \A g \in Generations : dir[g].shards \subseteq dir'[g].shards
      /\ \A g \in Generations : dir[g].at = "committed" => dir'[g] = dir[g]
      /\ Saves(s) => r \in dir'[Gen(s)].shards
      /\ dir' \in [Generations -> [at : {"none", "pending", "committed"},
                                   shards : SUBSET Ranks, manifest : BOOLEAN]]
  <2> DEFINE Records == [at : {"none", "pending", "committed"},
                         shards : SUBSET Ranks, manifest : BOOLEAN]
             Later(d) == [[d EXCEPT !.at = "pending"] EXCEPT !.shards = @ \cup {r}]
  <2>1. dir \in [Generations -> Records]
    BY DEF TypeOK
  <2>2. \A d \in Records : /\ Later(d) \in Records /\ Later(d).at = "pending"
                           /\ Later(d).shards = d.shards \cup {r}
                           /\ Later(d).manifest = d.manifest
    OBVIOUS
  <2>3. CASE Saves(s)
    <3>1. dir' = [dir EXCEPT ![Gen(s)].at = "pending", ![Gen(s)].shards = @ \cup {r}]
      BY <2>3 DEF Persist
    <3> HIDE DEF Records
    <3>2. dir' = [dir EXCEPT ![Gen(s)] = Later(dir[Gen(s)])]
      BY <1>2, <2>1, <3>1
    <3> HIDE DEF s, Later
    <3>3. /\ dir' \in [Generations -> Records] /\ dir'[Gen(s)] = Later(dir[Gen(s)])
          /\ \A g \in Generations \ {Gen(s)} : dir'[g] = dir[g]
      BY <1>2, <2>1, <2>2, <3>2
    <3>4. /\ dir'[Gen(s)].at = "pending" /\ dir'[Gen(s)].manifest = dir[Gen(s)].manifest
          /\ dir'[Gen(s)].shards = dir[Gen(s)].shards \cup {r}
      BY <1>2, <2>1, <2>2, <3>3
    <3>5. \A g \in Generations : g = Gen(s) \/ dir'[g] = dir[g]
      BY <3>3
    <3> QED
      BY <1>2, <1>3, <3>3, <3>4, <3>5 DEF Records
  <2>4. CASE ~Saves(s)
    <3>1. dir' = dir
      BY <2>4 DEF Persist
    <3> QED
      BY <2>1, <2>4, <3>1
  <2> QED
    BY <2>3, <2>4
<1> HIDE DEF s
<1>5. Advancing' = Advancing /\ CommittedStep' = CommittedStep
  <2>1. Advancing' = Advancing
    BY <1>1, <1>4 DEF Advancing, StepOf
  <2> QED
    BY <1>1, <2>1 DEF CommittedStep, PolicyStep, StepOf
<1>6. TypeOK'
  <2>1. /\ persisted' \in [Ranks -> 0..MaxStep]
        /\ \A q \in Ranks : published <= persisted'[q] /\ persisted'[q] <= step
                           /\ step - persisted'[q] <= Capacity
    BY <1>1, ConstantsType DEF TypeOK, s
  <2> QED
    BY <1>1, <1>4, <2>1 DEF TypeOK
<1>7. CommittedAreWhole'
  BY <1>1, <1>4, AdvancingType DEF CommittedAreWhole, Complete
<1>8. DirectoriesFollow'
  <2>1. \A q \in Ranks, t \in 1..MaxStep :
           published < t /\ t <= persisted'[q] /\ Saves(t) => q \in dir'[Gen(t)].shards
    <3> SUFFICES ASSUME NEW q \in Ranks, NEW t \in 1..MaxStep,
                        published < t, t <= persisted'[q], Saves(t)
                 PROVE  q \in dir'[Gen(t)].shards
      OBVIOUS
    <3>1. Gen(t) \in Generations
      BY GenType
    <3>2. CASE q = r /\ t = s
      BY <1>4, <3>2
    <3>3. CASE ~(q = r /\ t = s)
      <4>1. t <= persisted[q]
        BY <1>1, <3>3, ConstantsType DEF TypeOK, s
      <4> QED
        BY <1>1, <1>4, <3>1, <4>1 DEF DirectoriesFollow
    <3> QED
      BY <3>2, <3>3
  <2> QED
    BY <1>1, <1>4, <2>1 DEF DirectoriesFollow, Next1, Gen, Saves
<1>9. WriterFollows'
  <2>1. writer # "idle" => Reported'
    BY <1>1 DEF WriterFollows, Reported, TypeOK
  <2>2. writer = "manifest" => Gen(Next1) \in Generations
    BY GenType, ReportedType DEF WriterFollows
  <2> QED
    BY <1>1, <1>4, <2>1, <2>2 DEF WriterFollows, Gen, Next1, Saves
<1>10. AheadIsOne'
  BY <1>1, <1>5 DEF AheadIsOne, Gen, Next1
<1>11. PolicyFollows' /\ PublishedIsNewest'
  BY <1>1, <1>5 DEF PolicyFollows, PublishedIsNewest, PolicyIsSound, PolicyNumber,
                    PolicyStep, StepOf, Saves
<1>12. DurableIsKept' /\ RefusedOnlyUncommitted'
  BY <1>1, <1>5 DEF DurableIsKept, RefusedOnlyUncommitted
<1>13. LineageIsClean'
  BY <1>1, ConstantsType DEF LineageIsClean, Gen, TypeOK, s, Generations
<1> QED
  BY <1>5, <1>6, <1>7, <1>8, <1>9, <1>10, <1>11, <1>12, <1>13


LEMMA ResolveKeeps ==
    ASSUME IInv, Resolve
    PROVE  IInv' /\ CommittedStep' = CommittedStep
<1> USE DEF IInv, Resolve, files
<1>1. Advancing' = Advancing /\ CommittedStep' = CommittedStep
  BY DEF Advancing, CommittedStep, PolicyStep, StepOf
<1>2. /\ Next1 \in 1..MaxStep /\ \A r \in Ranks : Next1 <= persisted[r]
      /\ published' = Next1 /\ published \in 0..MaxStep /\ Next1 = published + 1
      /\ durable \in 0..MaxStep /\ StepOf(pointer) \in 0..MaxStep
      /\ Advancing = {}
  BY ReportedType, AdvancingType DEF TypeOK, Next1, AheadIsOne
<1>3. durable' = (IF StepOf(pointer) > durable THEN StepOf(pointer) ELSE durable)
  BY DEF Acknowledged
<1>4. CommittedStep = PolicyStep(pointer, policy) /\ StepOf(pointer) <= CommittedStep
  BY <1>2, StepValuesHold, AdvancingType DEF StepValues
<1>5. TypeOK'
  BY <1>2, <1>3 DEF TypeOK
<1>6. CommittedAreWhole' /\ LineageIsClean'
  BY DEF CommittedAreWhole, LineageIsClean, Complete, Gen
<1>7. DirectoriesFollow'
  <2>1. \A g \in Generations :
           dir[g].at = "committed" /\ g.life = life => g.step <= published'
    BY <1>2 DEF DirectoriesFollow, Generations
  <2>2. \A r \in Ranks, s \in 1..MaxStep :
           published' < s /\ s <= persisted[r] /\ Saves(s) => r \in dir[Gen(s)].shards
    BY <1>2 DEF DirectoriesFollow
  <2> QED
    BY <2>1, <2>2 DEF DirectoriesFollow, Gen, Saves
<1>8. WriterFollows' /\ AheadIsOne'
  <2>1. ~alias
    BY <1>2, ConstantsType DEF WriterFollows, TypeOK
  <2> QED
    BY <1>1, <1>2, <2>1 DEF WriterFollows, AheadIsOne
<1>9. PolicyFollows'
  BY <1>1 DEF PolicyFollows, PolicyIsSound, PolicyNumber, StepOf
<1>10. PublishedIsNewest'
  <2>1. durable' <= published' /\ StepOf(pointer') <= published' /\ ~Saves(published')
    BY <1>2, <1>3 DEF PublishedIsNewest, Saves, StepOf
  <2>2. PolicyNumber' <= published'
    BY <1>2, AdvancingType DEF PublishedIsNewest, PolicyNumber
  <2> QED
    BY <2>1, <2>2 DEF PublishedIsNewest, Saves
<1>11. DurableIsKept' /\ RefusedOnlyUncommitted'
  BY <1>1, <1>3, <1>4 DEF DurableIsKept, RefusedOnlyUncommitted
<1> QED
  BY <1>1, <1>5, <1>6, <1>7, <1>8, <1>9, <1>10, <1>11

(* The directory of the generation the writer is at: its shards are there, *)
(* since every rank has reported.                                          *)
LEMMA WriterDirectory ==
    ASSUME IInv, phase = "up", Reported, Saves(Next1)
    PROVE  /\ Next1 \in 1..MaxStep /\ Gen(Next1) \in Generations
           /\ Gen(Next1).step = Next1 /\ Gen(Next1).life = life
           /\ dir[Gen(Next1)].shards = Ranks
           /\ writer \in {"idle", "manifest"} => dir[Gen(Next1)].at # "committed"
           /\ Next1 = published + 1 /\ published \in 0..MaxStep
<1> USE DEF IInv
<1>1. /\ Next1 \in 1..MaxStep /\ \A r \in Ranks : Next1 <= persisted[r]
      /\ published < Next1 /\ Next1 = published + 1 /\ published \in 0..MaxStep
  BY ReportedType DEF TypeOK, Next1
<1>2. /\ Gen(Next1) \in Generations /\ Gen(Next1).step = Next1
      /\ Gen(Next1).life = life
  BY <1>1, GenType
<1>3. dir[Gen(Next1)].shards = Ranks
  BY <1>1, <1>2 DEF DirectoriesFollow, TypeOK
<1>4. writer \in {"idle", "manifest"} => dir[Gen(Next1)].at # "committed"
  BY <1>1, <1>2 DEF DirectoriesFollow
<1> QED
  BY <1>1, <1>2, <1>3, <1>4

LEMMA CommitManifestKeeps ==
    ASSUME IInv, CommitManifest
    PROVE  IInv' /\ CommittedStep' = CommittedStep
<1> USE DEF IInv, CommitManifest, memory
<1>1. /\ Gen(Next1) \in Generations /\ dir[Gen(Next1)].at # "committed"
      /\ Next1 = published + 1 /\ published \in 0..MaxStep
  BY WriterDirectory
<1>2. /\ \A g \in Generations : dir'[g].at = dir[g].at /\ dir'[g].shards = dir[g].shards
      /\ \A g \in Generations : dir[g].manifest => dir'[g].manifest
      /\ dir'[Gen(Next1)].manifest
      /\ dir' \in [Generations -> [at : {"none", "pending", "committed"},
                                   shards : SUBSET Ranks, manifest : BOOLEAN]]
  <2> DEFINE Records == [at : {"none", "pending", "committed"},
                         shards : SUBSET Ranks, manifest : BOOLEAN]
  <2>1. dir \in [Generations -> Records]
    BY DEF TypeOK
  <2>2. \A r \in Records : /\ [r EXCEPT !.manifest = TRUE] \in Records
                           /\ [r EXCEPT !.manifest = TRUE].manifest
                           /\ [r EXCEPT !.manifest = TRUE].at = r.at
                           /\ [r EXCEPT !.manifest = TRUE].shards = r.shards
    OBVIOUS
  <2> HIDE DEF Records
  <2>3. dir' = [dir EXCEPT ![Gen(Next1)] = [dir[Gen(Next1)] EXCEPT !.manifest = TRUE]]
    BY <1>1, <2>1
  <2>4. /\ dir' \in [Generations -> Records]
        /\ dir'[Gen(Next1)] = [dir[Gen(Next1)] EXCEPT !.manifest = TRUE]
        /\ \A g \in Generations \ {Gen(Next1)} : dir'[g] = dir[g]
    BY <1>1, <2>1, <2>2, <2>3
  <2>5. \A g \in Generations : /\ dir'[g].at = dir[g].at /\ dir'[g].shards = dir[g].shards
                               /\ dir[g].manifest => dir'[g].manifest
    BY <1>1, <2>1, <2>2, <2>4
  <2> QED
    BY <1>1, <2>1, <2>2, <2>4, <2>5 DEF Records
<1>3. Advancing' = Advancing /\ CommittedStep' = CommittedStep
  <2>1. Advancing' = Advancing
    BY <1>2 DEF Advancing, StepOf
  <2> QED
    BY <2>1 DEF CommittedStep, PolicyStep, StepOf
<1>4. TypeOK'
  BY <1>2 DEF TypeOK
<1>5. CommittedAreWhole' /\ LineageIsClean'
  BY <1>2 DEF CommittedAreWhole, LineageIsClean, Complete, Gen
<1>6. DirectoriesFollow'
  <2>1. \A s \in 1..MaxStep : Gen(s) \in Generations
    BY GenType
  <2> QED
    BY <1>2, <2>1 DEF DirectoriesFollow, Gen, Saves, Next1
<1>7. WriterFollows'
  <2>1. ~alias
    BY <1>1, ReportedType, ConstantsType DEF WriterFollows, TypeOK
  <2> QED
    BY <1>2, <2>1 DEF WriterFollows, Reported, Gen, Next1, Saves
<1>8. AheadIsOne'
  BY <1>3 DEF AheadIsOne
<1>9. PolicyFollows' /\ PublishedIsNewest'
  BY <1>3 DEF PolicyFollows, PublishedIsNewest, PolicyIsSound, PolicyNumber, PolicyStep,
              StepOf, Saves
<1>10. DurableIsKept' /\ RefusedOnlyUncommitted'
  BY <1>3 DEF DurableIsKept, RefusedOnlyUncommitted
<1> QED
  BY <1>3, <1>4, <1>5, <1>6, <1>7, <1>8, <1>9, <1>10


(* The rename commits: from here on a recovery completes the pointer.      *)
LEMMA CommitRenameKeeps ==
    ASSUME IInv, CommitRename
    PROVE  IInv' /\ CommittedStep' = Next1 /\ CommittedStep <= published
           /\ Next1 <= step
<1> USE DEF IInv, CommitRename, memory
<1>1. /\ Gen(Next1) \in Generations /\ Gen(Next1).step = Next1
      /\ dir[Gen(Next1)].at # "committed" /\ dir[Gen(Next1)].shards = Ranks
      /\ Gen(Next1).life = life /\ dir[Gen(Next1)].manifest
      /\ Next1 = published + 1 /\ published \in 0..MaxStep /\ Next1 <= step
  BY WriterDirectory, ReportedType DEF WriterFollows
<1>2. /\ \A g \in Generations \ {Gen(Next1)} : dir'[g] = dir[g]
      /\ dir'[Gen(Next1)].at = "committed"
      /\ dir'[Gen(Next1)].shards = Ranks /\ dir'[Gen(Next1)].manifest
      /\ dir' \in [Generations -> [at : {"none", "pending", "committed"},
                                   shards : SUBSET Ranks, manifest : BOOLEAN]]
  BY <1>1 DEF TypeOK
<1>3. /\ Advancing = {} /\ StepOf(pointer) < Next1 /\ Gen(Next1) # pointer
      /\ PolicyNumber \in 0..MaxStep /\ PolicyNumber <= published
      /\ StepOf(pointer) \in 0..MaxStep
  <2>1. Advancing = {} /\ PolicyNumber <= published
    BY DEF AheadIsOne, PublishedIsNewest
  <2>2. Gen(Next1) # pointer
    BY <1>1, AdvancingType, ConstantsType
  <2> QED
    BY <1>1, <2>1, <2>2, AdvancingType
<1>4. Advancing' = {Gen(Next1)}
  BY <1>1, <1>2, <1>3 DEF Advancing, StepOf
<1>5. TypeOK'
  BY <1>2 DEF TypeOK
<1>6. PolicyFollows'
  BY <1>1, <1>3, <1>4 DEF PolicyFollows, PolicyIsSound, PolicyNumber, StepOf
<1>7. CommittedStep' = Next1
  <2>1. Newest' = Gen(Next1)
    BY <1>4 DEF Newest
  <2>2. StepValues'
    BY <1>5, <1>6, StepValuesHold, PTL
  <2> QED
    BY <1>1, <1>4, <2>1, <2>2 DEF StepValues
<1>8. CommittedStep <= published
  BY <1>1, <1>3, StepValuesHold DEF StepValues
<1>9. CommittedAreWhole' /\ LineageIsClean'
  BY <1>1, <1>2 DEF CommittedAreWhole, LineageIsClean, Complete, Gen
<1>10. DirectoriesFollow'
  <2>1. \A g \in Generations : g.life > life => dir'[g].at # "committed"
    BY <1>1, <1>2 DEF DirectoriesFollow, TypeOK, Generations
  <2>2. \A g \in Generations :
           dir'[g].at = "committed" /\ g.life = life => g.step <= published \/ g.step = Next1
    BY <1>1, <1>2 DEF DirectoriesFollow
  <2>3. \A r \in Ranks, s \in 1..MaxStep :
           published < s /\ s <= persisted[r] /\ Saves(s) => r \in dir'[Gen(s)].shards
    BY <1>1, <1>2, GenType DEF DirectoriesFollow
  <2> QED
    BY <1>1, <2>1, <2>2, <2>3 DEF DirectoriesFollow, Gen, Saves, Next1
<1>11. WriterFollows'
  BY DEF WriterFollows, Reported, Gen, Next1, Saves
<1>12. AheadIsOne'
  BY <1>4 DEF AheadIsOne, Gen, Next1
<1>13. PublishedIsNewest'
  BY DEF PublishedIsNewest, PolicyNumber, PolicyStep, StepOf, Saves
<1>14. DurableIsKept'
  BY <1>1, <1>7 DEF DurableIsKept, PublishedIsNewest, TypeOK
<1>15. RefusedOnlyUncommitted'
  BY DEF RefusedOnlyUncommitted
<1> QED
  BY <1>1, <1>5, <1>6, <1>7, <1>8, <1>9, <1>10, <1>11, <1>12, <1>13, <1>14, <1>15

LEMMA CommitTempKeeps ==
    ASSUME IInv, CommitTemp
    PROVE  IInv' /\ CommittedStep' = CommittedStep
<1> USE DEF IInv, CommitTemp, memory
<1>1. Advancing' = Advancing /\ CommittedStep' = CommittedStep
  BY DEF Advancing, CommittedStep, PolicyStep, StepOf
<1>2. Gen(Next1) \in Generations /\ Gen(Next1) # None
  BY WriterDirectory, ConstantsType DEF WriterFollows
<1>3. TypeOK'
  BY <1>2 DEF TypeOK
<1>4. CommittedAreWhole' /\ DirectoriesFollow' /\ LineageIsClean'
  BY DEF CommittedAreWhole, DirectoriesFollow, LineageIsClean, Complete, Gen, Next1, Saves
<1>5. WriterFollows' /\ AheadIsOne'
  BY <1>1 DEF WriterFollows, AheadIsOne, Reported, Gen, Next1, Saves
<1>6. PolicyFollows' /\ PublishedIsNewest'
  BY <1>1 DEF PolicyFollows, PublishedIsNewest, PolicyIsSound, PolicyNumber, PolicyStep,
              StepOf, Saves
<1>7. DurableIsKept' /\ RefusedOnlyUncommitted'
  BY <1>1 DEF DurableIsKept, RefusedOnlyUncommitted
<1> QED
  BY <1>1, <1>3, <1>4, <1>5, <1>6, <1>7

LEMMA CommitPointerKeeps ==
    ASSUME IInv, CommitPointer
    PROVE  IInv' /\ CommittedStep' = CommittedStep
<1> USE DEF IInv, CommitPointer, memory
<1>1. /\ Gen(Next1) \in Generations /\ Gen(Next1).step = Next1 /\ Gen(Next1) # None
      /\ Next1 = published + 1 /\ published \in 0..MaxStep
      /\ temp = Gen(Next1) /\ pointer' = Gen(Next1)
  BY WriterDirectory, ConstantsType DEF WriterFollows
<1>2. Advancing = {Gen(Next1)}
  BY DEF AheadIsOne
<1>3. Next1 > StepOf(pointer) /\ dir[Gen(Next1)].at = "committed"
  BY <1>1, <1>2 DEF Advancing
<1>4. Advancing' = {}
  <2>1. \A g \in Generations :
           dir[g].at = "committed" /\ g # Gen(Next1) /\ g # pointer =>
              ~(g.step > StepOf(pointer))
    BY <1>2 DEF Advancing
  <2>2. \A g \in Generations : g = pointer => g.step = StepOf(pointer)
    BY AdvancingType, ConstantsType DEF StepOf
  <2>3. \A g \in Generations : g.step \in 1..MaxStep
    BY DEF Generations
  <2>4. StepOf(pointer') = Next1 /\ StepOf(pointer) \in 0..MaxStep
    BY <1>1, AdvancingType DEF StepOf
  <2> QED
    BY <1>1, <1>3, <2>1, <2>2, <2>3, <2>4 DEF Advancing, StepOf
<1>5. PolicyNumber <= published /\ PolicyNumber \in 0..MaxStep
  BY AdvancingType DEF PublishedIsNewest
<1>6. TypeOK'
  BY <1>1 DEF TypeOK
<1>7. PolicyFollows'
  <2>1. ASSUME policy # None
        PROVE  policy.anchor # Gen(Next1) /\ policy.adapter.step <= Next1
    <3>1. PolicyNumber = policy.adapter.step
          /\ policy.adapter.step > StepOf(policy.anchor)
      BY <2>1, AdvancingType DEF PolicyFollows
    <3>2. StepOf(Gen(Next1)) = Next1
      BY <1>1 DEF StepOf
    <3> QED
      BY <1>1, <1>5, <2>1, <3>1, <3>2, AdvancingType
  <2>2. PolicyIsSound'
    BY <1>1, <2>1 DEF PolicyIsSound
  <2> QED
    BY <1>4, <2>2 DEF PolicyFollows, StepOf
<1>8. CommittedStep = Next1
  <2>1. Newest = Gen(Next1)
    BY <1>2 DEF Newest
  <2> QED
    BY <1>1, <1>2, <2>1, StepValuesHold DEF StepValues
<1>9. CommittedStep' = Next1
  <2>1. StepValues'
    BY <1>6, <1>7, StepValuesHold, PTL
  <2>2. StepOf(pointer') = Next1 /\ PolicyNumber' = PolicyNumber
    BY <1>1 DEF StepOf, PolicyNumber
  <2> QED
    BY <1>1, <1>4, <1>5, <2>1, <2>2 DEF StepValues
<1>10. CommittedAreWhole' /\ DirectoriesFollow' /\ LineageIsClean'
  BY <1>1, <1>3 DEF CommittedAreWhole, DirectoriesFollow, LineageIsClean, Complete, Gen, Next1, Saves
<1>11. WriterFollows' /\ AheadIsOne'
  BY <1>1, <1>4 DEF WriterFollows, AheadIsOne, Reported, Gen, Next1, Saves
<1>12. PublishedIsNewest'
  BY DEF PublishedIsNewest, PolicyNumber
<1>13. DurableIsKept' /\ RefusedOnlyUncommitted'
  BY <1>8, <1>9 DEF DurableIsKept, RefusedOnlyUncommitted
<1> QED
  BY <1>6, <1>7, <1>8, <1>9, <1>10, <1>11, <1>12, <1>13


LEMMA CommitPolicyKeeps ==
    ASSUME IInv, CommitPolicy
    PROVE  IInv' /\ CommittedStep' = CommittedStep
<1> USE DEF IInv, CommitPolicy
<1>1. /\ Gen(Next1) \in Generations /\ Gen(Next1).step = Next1 /\ Gen(Next1) # None
      /\ Next1 = published + 1 /\ published \in 0..MaxStep
      /\ pointer = Gen(Next1) /\ published' = Next1 /\ StepOf(pointer) = Next1
      /\ Next1 \in 1..MaxStep /\ \A r \in Ranks : Next1 <= persisted[r]
      /\ Advancing = {} /\ durable <= published /\ durable \in 0..MaxStep
      /\ PolicyNumber <= published /\ PolicyNumber \in 0..MaxStep /\ ~alias
  <2>1. /\ Reported /\ pointer = Gen(Next1) /\ Saves(Next1)
        /\ Advancing = {} /\ durable <= published /\ PolicyNumber <= published
        /\ published' = Next1 /\ durable \in 0..MaxStep
    BY DEF WriterFollows, AheadIsOne, PublishedIsNewest, TypeOK
  <2>2. /\ Gen(Next1) \in Generations /\ Gen(Next1).step = Next1 /\ Gen(Next1) # None
        /\ Next1 = published + 1 /\ published \in 0..MaxStep
        /\ Next1 \in 1..MaxStep /\ \A r \in Ranks : Next1 <= persisted[r]
    BY <2>1, WriterDirectory, ReportedType, ConstantsType
  <2>3. ~alias
    BY <2>1, <2>2, ReportedType, ConstantsType DEF WriterFollows, TypeOK
  <2> QED
    BY <2>1, <2>2, <2>3, AdvancingType DEF StepOf
<1>2. durable' = Next1
  BY <1>1 DEF Acknowledged
<1>3. /\ Advancing' = {} /\ StepOf(pointer') = Next1 /\ PolicyNumber' = 0
      /\ PolicyStep(pointer', policy') = Next1
  BY <1>1 DEF Advancing, StepOf, PolicyNumber, PolicyStep
<1>4. TypeOK'
  BY <1>1, <1>2 DEF TypeOK
<1>5. PolicyFollows'
  BY <1>3 DEF PolicyFollows, PolicyIsSound
<1>6. CommittedStep = Next1 /\ CommittedStep' = Next1
  <2>1. StepValues'
    BY <1>4, <1>5, StepValuesHold, PTL
  <2>2. CommittedStep = Next1
    BY <1>1, StepValuesHold DEF StepValues
  <2> QED
    BY <1>3, <2>1, <2>2 DEF StepValues
<1>7. CommittedAreWhole' /\ LineageIsClean'
  BY DEF CommittedAreWhole, LineageIsClean, Complete, Gen
<1>8. DirectoriesFollow'
  <2>1. \A g \in Generations :
           dir[g].at = "committed" /\ g.life = life => g.step <= published'
    BY <1>1 DEF DirectoriesFollow, Generations
  <2>2. \A r \in Ranks, s \in 1..MaxStep :
           published' < s /\ s <= persisted[r] /\ Saves(s) => r \in dir[Gen(s)].shards
    BY <1>1 DEF DirectoriesFollow
  <2> QED
    BY <2>1, <2>2 DEF DirectoriesFollow, Gen, Saves
<1>9. WriterFollows' /\ AheadIsOne'
  BY <1>1, <1>3 DEF WriterFollows, AheadIsOne
<1>10. PublishedIsNewest'
  BY <1>1, <1>2, <1>3 DEF PublishedIsNewest
<1>11. DurableIsKept' /\ RefusedOnlyUncommitted'
  BY <1>1, <1>2, <1>6 DEF DurableIsKept, RefusedOnlyUncommitted
<1> QED
  BY <1>4, <1>5, <1>6, <1>7, <1>8, <1>9, <1>10, <1>11

LEMMA PruneKeeps ==
    ASSUME IInv, Prune
    PROVE  IInv' /\ CommittedStep' = CommittedStep
<1> USE DEF IInv, memory
<1>1. /\ phase = "up" /\ writer \in {"idle", "manifest"}
      /\ UNCHANGED <<life, phase, memory, writer, alias, adapters, pointer, temp,
                     policy, durable>>
  BY DEF Prune
<1>2. PICK g \in Generations :
         /\ dir[g].at = "committed" \/ (dir[g].at = "pending" /\ g.life < life)
         /\ g # pointer
         /\ dir' = [dir EXCEPT ![g] = NoDir]
  BY DEF Prune
<1>3. /\ \A h \in Generations \ {g} : dir'[h] = dir[h]
      /\ dir'[g].at = "none"
      /\ dir' \in [Generations -> [at : {"none", "pending", "committed"},
                                   shards : SUBSET Ranks, manifest : BOOLEAN]]
  BY <1>2 DEF TypeOK, NoDir
<1>4. Advancing = {}
  BY <1>1 DEF AheadIsOne
<1>5. Advancing' = {}
  BY <1>1, <1>3, <1>4 DEF Advancing, StepOf
<1>6. CommittedStep' = CommittedStep
  BY <1>1, <1>4, <1>5 DEF CommittedStep, PolicyStep, StepOf
<1>7. TypeOK'
  BY <1>1, <1>3 DEF TypeOK
<1>8. CommittedAreWhole' /\ LineageIsClean'
  BY <1>1, <1>2, <1>3, AdvancingType DEF CommittedAreWhole, LineageIsClean, Complete, Gen
<1>9. \A s \in 1..MaxStep : published < s => g # Gen(s)
  <2> SUFFICES ASSUME NEW s \in 1..MaxStep, published < s, g = Gen(s) PROVE FALSE
    OBVIOUS
  <2>1. g.step = s /\ g.life = life /\ ~(g.life < life)
    BY GenType, ConstantsType DEF TypeOK
  <2>2. ~(g.step <= published)
    BY <2>1 DEF TypeOK
  <2> QED
    BY <1>1, <1>2, <2>1, <2>2 DEF DirectoriesFollow
<1>10. DirectoriesFollow'
  <2>1. \A h \in Generations : dir'[h].at = "committed" => dir[h].at = "committed"
    BY <1>3
  <2>2. \A r \in Ranks, s \in 1..MaxStep :
           published < s /\ s <= persisted[r] /\ Saves(s) => r \in dir'[Gen(s)].shards
    BY <1>1, <1>3, <1>9, GenType DEF DirectoriesFollow
  <2> QED
    BY <1>1, <2>1, <2>2 DEF DirectoriesFollow, Gen, Saves, Next1
<1>11. WriterFollows'
  <2>1. writer = "manifest" => dir'[Gen(Next1)].manifest
    <3>1. ASSUME writer = "manifest" PROVE dir'[Gen(Next1)].manifest
      <4>1. Next1 \in 1..MaxStep /\ published < Next1 /\ Gen(Next1) \in Generations
        BY <1>1, <3>1, WriterDirectory DEF WriterFollows
      <4> QED
        BY <1>3, <1>9, <3>1, <4>1 DEF WriterFollows
    <3> QED
      BY <3>1
  <2> QED
    BY <1>1, <2>1 DEF WriterFollows, Reported, Gen, Next1, Saves
<1>12. AheadIsOne' /\ PolicyFollows'
  BY <1>1, <1>5 DEF AheadIsOne, PolicyFollows, PolicyIsSound, StepOf
<1>13. PublishedIsNewest'
  BY <1>1 DEF PublishedIsNewest, PolicyNumber, PolicyStep, StepOf, Saves
<1>14. DurableIsKept' /\ RefusedOnlyUncommitted'
  BY <1>1, <1>6 DEF DurableIsKept, RefusedOnlyUncommitted
<1> QED
  BY <1>6, <1>7, <1>8, <1>10, <1>11, <1>12, <1>13, <1>14


-----------------------------------------------------------------------------
(* A step without training.                                                *)

LEMMA LinkAliasKeeps ==
    ASSUME IInv, LinkAlias
    PROVE  IInv' /\ CommittedStep' = CommittedStep
<1> USE DEF IInv, LinkAlias, memory
<1>1. Advancing' = Advancing /\ CommittedStep' = CommittedStep
  BY DEF Advancing, CommittedStep, PolicyStep, StepOf
<1>2. step + 1 \in 1..MaxStep /\ Gen(step + 1) \in Generations
  BY ConstantsType, GenType DEF TypeOK
<1>3. TypeOK'
  BY <1>2 DEF TypeOK
<1>4. CommittedAreWhole' /\ DirectoriesFollow'
  BY DEF CommittedAreWhole, DirectoriesFollow, Complete, Gen, Next1, Saves
<1>5. LineageIsClean'
  BY <1>2, GenType DEF LineageIsClean, Gen
<1>6. WriterFollows' /\ AheadIsOne'
  BY <1>1 DEF WriterFollows, AheadIsOne, Reported, Gen, Next1, Saves
<1>7. PolicyFollows' /\ PublishedIsNewest'
  BY <1>1 DEF PolicyFollows, PublishedIsNewest, PolicyIsSound, PolicyNumber, PolicyStep,
              StepOf, Saves
<1>8. DurableIsKept' /\ RefusedOnlyUncommitted'
  BY <1>1 DEF DurableIsKept, RefusedOnlyUncommitted
<1> QED
  BY <1>1, <1>3, <1>4, <1>5, <1>6, <1>7, <1>8

(* While an alias is linked the writer is idle and nothing is ahead.       *)
LEMMA AliasState ==
    ASSUME IInv, alias
    PROVE  /\ phase = "up" /\ writer = "idle" /\ published = step
           /\ step \in 0..MaxStep /\ step + 1 \in 1..MaxStep
           /\ Gen(step + 1) \in Generations /\ Gen(step + 1).step = step + 1
           /\ Gen(step + 1).life = life /\ Gen(step + 1) \in adapters
           /\ Advancing = {} /\ StepOf(pointer) <= step /\ PolicyNumber <= step
           /\ dir[Gen(step + 1)].at # "committed"
           /\ \A r \in Ranks : persisted[r] = step
<1> USE DEF IInv
<1>1. /\ phase = "up" /\ published = step /\ step < MaxStep /\ step \in 0..MaxStep
      /\ Gen(step + 1) \in adapters
      /\ \A r \in Ranks : persisted[r] = step
  BY ConstantsType DEF WriterFollows, TypeOK
<1>2. writer = "idle"
  <2>1. ~Reported
    BY <1>1, ConstantsType DEF Reported
  <2> QED
    BY <2>1 DEF WriterFollows
<1>3. /\ step + 1 \in 1..MaxStep /\ Gen(step + 1) \in Generations
      /\ Gen(step + 1).step = step + 1 /\ Gen(step + 1).life = life
  BY <1>1, ConstantsType, GenType
<1>4. Advancing = {} /\ StepOf(pointer) <= step /\ PolicyNumber <= step
  BY <1>1, <1>2 DEF AheadIsOne, PublishedIsNewest
<1>5. dir[Gen(step + 1)].at # "committed"
  BY <1>1, <1>2, <1>3 DEF DirectoriesFollow
<1> QED
  BY <1>1, <1>2, <1>3, <1>4, <1>5

LEMMA CommitAliasKeeps ==
    ASSUME IInv, CommitAlias
    PROVE  /\ IInv' /\ step' = step + 1 /\ CommittedStep' = step + 1
           /\ phase' = "up" /\ step < MaxStep
<1> USE DEF IInv, CommitAlias
<1> DEFINE h == Gen(step + 1)
<1>1. /\ phase = "up" /\ writer = "idle" /\ published = step
      /\ step \in 0..MaxStep /\ step + 1 \in 1..MaxStep
      /\ h \in Generations /\ h.step = step + 1
      /\ Advancing = {} /\ StepOf(pointer) <= step
      /\ \A r \in Ranks : persisted[r] = step
      /\ StepOf(pointer) \in 0..MaxStep /\ durable \in 0..MaxStep /\ durable <= step
  BY AliasState, AdvancingType DEF TypeOK, PublishedIsNewest
<1>2. /\ policy' = [adapter |-> h, anchor |-> pointer] /\ policy' \in Policies
      /\ policy' # None /\ policy'.adapter = h /\ policy'.anchor = pointer
  BY <1>1, ConstantsType DEF TypeOK, Policies
<1>3. durable' = step + 1
  BY <1>1 DEF Acknowledged
<1>4. Advancing' = {} /\ PolicyNumber' = step + 1 /\ PolicyStep(pointer', policy') = step + 1
  BY <1>1, <1>2 DEF Advancing, PolicyNumber, PolicyStep, StepOf
<1>5. TypeOK'
  <2>1. /\ persisted' \in [Ranks -> 0..MaxStep] /\ step' = step + 1
        /\ published' = step + 1 /\ \A r \in Ranks : persisted'[r] = step + 1
    BY <1>1
  <2>2. step + 1 \in 0..MaxStep /\ (step + 1) - (step + 1) <= Capacity
    BY <1>1, ConstantsType
  <2>3. /\ {step', published'} \subseteq 0..MaxStep
        /\ \A r \in Ranks : published' <= persisted'[r] /\ persisted'[r] <= step'
                            /\ step' - persisted'[r] <= Capacity
    BY <2>1, <2>2
  <2> QED
    BY <1>2, <1>3, <2>1, <2>2, <2>3 DEF TypeOK
<1>6. PolicyFollows'
  <2>1. h \in adapters /\ StepOf(pointer) < step + 1
    BY <1>1, AliasState
  <2> QED
    BY <1>1, <1>2, <1>4, <2>1 DEF PolicyFollows, PolicyIsSound, StepOf
<1>7. CommittedStep' = step + 1
  <2>1. StepValues'
    BY <1>5, <1>6, StepValuesHold, PTL
  <2> QED
    BY <1>4, <2>1 DEF StepValues
<1>8. CommittedAreWhole' /\ LineageIsClean'
  <2>1. \A g \in adapters : g.step > persisted'[Zero] => g.step > persisted[Zero]
    BY <1>1, ConstantsType DEF TypeOK, Generations
  <2> QED
    BY <2>1 DEF CommittedAreWhole, LineageIsClean, Complete, Gen
<1>9. DirectoriesFollow'
  <2>1. \A g \in Generations :
           dir[g].at = "committed" /\ g.life = life => g.step <= published'
    BY <1>1 DEF DirectoriesFollow, Generations
  <2>2. \A r \in Ranks : persisted'[r] = published'
    BY <1>1
  <2>3. \A r \in Ranks, s \in 1..MaxStep : ~(published' < s /\ s <= persisted'[r])
    BY <1>1, <2>2
  <2> QED
    BY <2>1, <2>3 DEF DirectoriesFollow, Gen, Saves
<1>10. WriterFollows' /\ AheadIsOne'
  BY <1>1, <1>4 DEF WriterFollows, AheadIsOne
<1>11. PublishedIsNewest'
  BY <1>1, <1>3, <1>4 DEF PublishedIsNewest, StepOf
<1>12. DurableIsKept' /\ RefusedOnlyUncommitted'
  BY <1>1, <1>3, <1>7 DEF DurableIsKept, RefusedOnlyUncommitted
<1> QED
  BY <1>1, <1>5, <1>6, <1>7, <1>8, <1>9, <1>10, <1>11, <1>12, ConstantsType

LEMMA AliasRaisesKeeps ==
    ASSUME IInv, AliasRaises
    PROVE  IInv' /\ CommittedStep' = CommittedStep
<1> USE DEF IInv, AliasRaises, memory
<1> DEFINE h == Gen(step + 1)
<1>1. /\ writer = "idle" /\ phase = "up" /\ h \in Generations
      /\ h.step = step + 1 /\ step \in 0..MaxStep
      /\ Advancing = {} /\ PolicyNumber <= step /\ dir[h].at # "committed"
      /\ temp = None
  BY AliasState DEF AheadIsOne
<1>2. Advancing' = {} /\ CommittedStep' = CommittedStep
  <2>1. Advancing' = Advancing
    BY DEF Advancing, StepOf
  <2> QED
    BY <1>1, <2>1 DEF CommittedStep, PolicyStep, StepOf
<1>3. TypeOK'
  BY DEF TypeOK
<1>4. CommittedAreWhole'
  BY <1>1 DEF CommittedAreWhole, Complete
<1>5. DirectoriesFollow' /\ LineageIsClean' /\ PublishedIsNewest'
  BY DEF DirectoriesFollow, LineageIsClean, PublishedIsNewest
<1>6. WriterFollows' /\ AheadIsOne'
  BY <1>1, <1>2, ConstantsType DEF WriterFollows, AheadIsOne
<1>7. PolicyFollows'
  <2>1. policy # None => policy.adapter # h
    BY <1>1, AdvancingType
  <2> QED
    BY <1>2, <2>1 DEF PolicyFollows, PolicyIsSound, StepOf
<1>8. DurableIsKept' /\ RefusedOnlyUncommitted'
  BY <1>2 DEF DurableIsKept, RefusedOnlyUncommitted
<1> QED
  BY <1>2, <1>3, <1>4, <1>5, <1>6, <1>7, <1>8


-----------------------------------------------------------------------------
(* Crashes and the preparation to resume.                                  *)

LEMMA CrashKeeps ==
    ASSUME IInv, Crash
    PROVE  IInv' /\ CommittedStep' = CommittedStep /\ phase' = "down"
<1> USE DEF IInv, Crash, memory
<1>1. Advancing' = Advancing /\ CommittedStep' = CommittedStep
  BY DEF Advancing, CommittedStep, PolicyStep, StepOf
<1>2. TypeOK'
  BY DEF TypeOK
<1>3. CommittedAreWhole' /\ DirectoriesFollow' /\ LineageIsClean' /\ PublishedIsNewest'
  BY DEF CommittedAreWhole, DirectoriesFollow, LineageIsClean, PublishedIsNewest, Complete
<1>4. WriterFollows'
  BY DEF WriterFollows
<1>5. AheadIsOne'
  <2>1. \A g, h \in Advancing : g = h
    BY DEF AheadIsOne, TypeOK
  <2>2. ASSUME temp' \in Generations PROVE Advancing = {temp'}
    <3>1. temp' = temp /\ temp # None
      BY <2>2, ConstantsType
    <3> QED
      BY <2>2, <3>1 DEF AheadIsOne, WriterFollows
  <2> QED
    BY <1>1, <2>1, <2>2 DEF AheadIsOne
<1>6. PolicyFollows'
  BY <1>1 DEF PolicyFollows, PolicyIsSound, PolicyNumber, StepOf
<1>7. DurableIsKept' /\ RefusedOnlyUncommitted'
  BY <1>1 DEF DurableIsKept, RefusedOnlyUncommitted
<1> QED
  BY <1>1, <1>2, <1>3, <1>4, <1>5, <1>6, <1>7

(* A recovery is never refused, and it completes what was ahead.           *)
LEMMA RecoverKeeps ==
    ASSUME IInv, Recover
    PROVE  IInv' /\ CommittedStep' = CommittedStep /\ phase' = "initial"
<1> USE DEF IInv, memory
<1> DEFINE next == IF temp \in Generations /\ temp.step > StepOf(pointer)
                   THEN {temp} ELSE Advancing
           sound == /\ Advancing = next /\ Cardinality(next) <= 1
                    /\ \A g \in next : Complete(g) /\ g \in adapters
<1>1. /\ phase = "down" /\ temp' = None
      /\ UNCHANGED <<life, memory, writer, alias, adapters, dir, policy, durable>>
      /\ phase' = IF sound THEN "initial" ELSE "refused"
      /\ pointer' = IF sound /\ next # {} THEN CHOOSE g \in next : TRUE ELSE pointer
  BY DEF Recover
<1>2. next = Advancing
  BY <1>1 DEF AheadIsOne
<1>3. Advancing = {} \/ \E g \in Generations : Advancing = {g}
  BY <1>1, AdvancingType DEF AheadIsOne
<1>4. Cardinality(Advancing) <= 1
  <2>1. CASE Advancing = {}
    BY <2>1, FS_EmptySet
  <2>2. ASSUME NEW g \in Generations, Advancing = {g} PROVE Cardinality(Advancing) <= 1
    BY <2>2, FS_Singleton
  <2> QED
    BY <1>3, <2>1, <2>2
<1>5. \A g \in Advancing : Complete(g) /\ g \in adapters
  BY DEF Advancing, CommittedAreWhole
<1>6. sound
  BY <1>2, <1>4, <1>5
<1> HIDE DEF next, sound
<1>7. /\ phase' = "initial"
      /\ pointer' = IF Advancing # {} THEN CHOOSE g \in Advancing : TRUE ELSE pointer
  BY <1>1, <1>2, <1>6
<1>8. /\ Advancing = {} => pointer' = pointer
      /\ \A g : Advancing = {g} => pointer' = g
      /\ pointer' = Newest
  BY <1>7 DEF Newest
<1>9. /\ pointer' \in Generations \cup {None}
      /\ pointer' # pointer => Advancing = {pointer'} /\ pointer' \in Generations
  BY <1>3, <1>8 DEF TypeOK
<1>10. TypeOK'
  BY <1>1, <1>7, <1>9 DEF TypeOK
<1>11. Advancing' = {}
  <2>1. CASE Advancing = {}
    <3>1. pointer' = pointer
      BY <1>8, <2>1
    <3> QED
      BY <1>1, <2>1, <3>1 DEF Advancing, StepOf
  <2>2. CASE Advancing # {}
    <3>1. PICK g \in Generations : Advancing = {g}
      BY <1>3, <2>2
    <3>2. pointer' = g /\ StepOf(pointer') = g.step /\ g.step > StepOf(pointer)
      BY <1>8, <3>1, ConstantsType DEF Advancing, StepOf
    <3>3. \A h \in Generations :
             dir[h].at = "committed" /\ h # g /\ h # pointer => ~(h.step > StepOf(pointer))
      BY <3>1 DEF Advancing
    <3>4. \A h \in Generations : h = pointer => ~(h.step > StepOf(pointer))
      BY ConstantsType DEF StepOf, Generations
    <3>5. StepOf(pointer) \in Int /\ \A h \in Generations : h.step \in Int
      BY AdvancingType DEF Generations
    <3>6. ASSUME NEW h \in Advancing' PROVE FALSE
      <4>1. /\ h \in Generations /\ dir[h].at = "committed" /\ h # g
            /\ h.step > StepOf(pointer')
        BY <1>1, <3>2, <3>6 DEF Advancing
      <4>2. h.step > StepOf(pointer)
        BY <3>2, <3>5, <4>1
      <4> QED
        BY <3>3, <3>4, <4>1, <4>2
    <3> QED
      BY <3>6
  <2> QED
    BY <2>1, <2>2
<1>12. PolicyFollows'
  <2>1. PolicyIsSound'
    <3>1. CASE pointer' = pointer
      BY <1>1, <3>1 DEF PolicyFollows, PolicyIsSound
    <3>2. CASE pointer' # pointer /\ policy # None
      <4>1. /\ pointer' \in Generations /\ Advancing = {pointer'} /\ pointer' # None
            /\ pointer'.step > PolicyNumber /\ PolicyNumber = policy.adapter.step
            /\ pointer'.step \in Int /\ PolicyNumber \in Int
        BY <1>9, <3>2, AdvancingType, ConstantsType DEF PolicyFollows, Generations
      <4>2. policy.adapter.step > StepOf(policy.anchor) /\ StepOf(policy.anchor) \in Int
        BY <3>2, AdvancingType DEF PolicyFollows
      <4>3. policy.anchor # pointer'
        <5>1. StepOf(pointer') = pointer'.step
          BY <4>1 DEF StepOf
        <5> QED
          BY <4>1, <4>2, <5>1
      <4> QED
        BY <1>1, <4>1, <4>3 DEF PolicyIsSound
    <3> QED
      BY <1>1, <3>1, <3>2 DEF PolicyIsSound
  <2> QED
    BY <1>1, <1>11, <2>1 DEF PolicyFollows, StepOf
<1>13. CommittedStep' = CommittedStep
  <2>1. CommittedStep = PolicyStep(Newest, policy)
    BY DEF CommittedStep, Newest
  <2>2. CommittedStep' = PolicyStep(pointer', policy')
    BY <1>11 DEF CommittedStep, PolicyStep, StepOf
  <2> QED
    BY <1>1, <1>8, <2>1, <2>2
<1>14. CommittedAreWhole' /\ DirectoriesFollow' /\ LineageIsClean' /\ PublishedIsNewest'
  <2>1. pointer' # None => dir[pointer'].at = "committed"
    BY <1>9 DEF CommittedAreWhole, Advancing
  <2> QED
    BY <1>1, <1>7, <2>1 DEF CommittedAreWhole, DirectoriesFollow, LineageIsClean,
                            PublishedIsNewest, Complete
<1>15. WriterFollows' /\ AheadIsOne'
  BY <1>1, <1>7, <1>11 DEF WriterFollows, AheadIsOne
<1>16. DurableIsKept' /\ RefusedOnlyUncommitted'
  BY <1>1, <1>7, <1>13 DEF DurableIsKept, RefusedOnlyUncommitted
<1> QED
  BY <1>7, <1>10, <1>12, <1>13, <1>14, <1>15, <1>16

(* Where nothing on disk commits the lone first checkpoint, nothing is     *)
(* committed at all.                                                       *)
LEMMA UncommittedState ==
    ASSUME IInv, phase = "initial", Uncommitted
    PROVE  /\ pointer = None /\ policy = None /\ Advancing = {}
           /\ \A g \in Generations : dir[g].at # "committed"
<1>1. pointer = None /\ Advancing = {}
  BY DEF IInv, AheadIsOne, Uncommitted
<1>2. policy = None
  BY <1>1 DEF IInv, PolicyFollows, PolicyIsSound, Uncommitted
<1>3. \A g \in Generations : g.step > StepOf(pointer) /\ g # pointer
  BY <1>1, ConstantsType DEF StepOf, Generations
<1> QED
  BY <1>1, <1>2, <1>3 DEF Advancing

LEMMA MoveGenerationKeeps ==
    ASSUME IInv, MoveGeneration
    PROVE  IInv' /\ CommittedStep' = CommittedStep /\ phase' # "up"
<1> USE DEF IInv, MoveGeneration, memory
<1>1. /\ pointer = None /\ policy = None /\ Advancing = {}
      /\ \A g \in Generations : dir[g].at # "committed"
  BY UncommittedState
<1>2. /\ \A g \in Generations : dir'[g].at # "committed"
      /\ dir' \in [Generations -> [at : {"none", "pending", "committed"},
                                   shards : SUBSET Ranks, manifest : BOOLEAN]]
  <2>1. dir' = [g \in Generations |-> NoDir] \/ dir' = dir
    OBVIOUS
  <2> QED
    <3>1. CASE dir' = dir
      BY <1>1, <3>1 DEF TypeOK
    <3>2. CASE dir' = [g \in Generations |-> NoDir]
      BY <3>2 DEF NoDir
    <3> QED
      BY <2>1, <3>1, <3>2
<1>3. phase' \in {"initial", "refused"}
  OBVIOUS
<1>4. Advancing' = {}
  BY <1>2 DEF Advancing
<1>5. CommittedStep' = CommittedStep
  BY <1>1, <1>4 DEF CommittedStep, PolicyStep, StepOf
<1>6. TypeOK'
  BY <1>2, <1>3 DEF TypeOK
<1>7. CommittedAreWhole' /\ DirectoriesFollow' /\ LineageIsClean' /\ PublishedIsNewest'
  BY <1>1, <1>2, <1>3 DEF CommittedAreWhole, DirectoriesFollow, LineageIsClean,
                          PublishedIsNewest
<1>8. WriterFollows' /\ AheadIsOne' /\ PolicyFollows'
  BY <1>1, <1>3, <1>4 DEF WriterFollows, AheadIsOne, PolicyFollows, PolicyIsSound
<1>9. DurableIsKept' /\ RefusedOnlyUncommitted'
  BY <1>1, <1>5 DEF DurableIsKept, RefusedOnlyUncommitted
<1> QED
  BY <1>3, <1>5, <1>6, <1>7, <1>8, <1>9

LEMMA MoveCheckpointKeeps ==
    ASSUME IInv, MoveCheckpoint
    PROVE  IInv' /\ CommittedStep' = CommittedStep /\ phase' # "up"
<1> USE DEF IInv, MoveCheckpoint, memory
<1>1. /\ pointer = None /\ policy = None /\ Advancing = {}
      /\ \A g \in Generations : dir[g].at # "committed"
  BY UncommittedState
<1>2. Advancing' = Advancing /\ CommittedStep' = CommittedStep
  BY DEF Advancing, CommittedStep, PolicyStep, StepOf
<1>3. TypeOK'
  BY DEF TypeOK
<1>4. CommittedAreWhole' /\ DirectoriesFollow' /\ LineageIsClean' /\ PublishedIsNewest'
  BY <1>1 DEF CommittedAreWhole, DirectoriesFollow, LineageIsClean, PublishedIsNewest
<1>5. WriterFollows' /\ AheadIsOne' /\ PolicyFollows'
  BY <1>1, <1>2 DEF WriterFollows, AheadIsOne, PolicyFollows, PolicyIsSound
<1>6. DurableIsKept' /\ RefusedOnlyUncommitted'
  BY <1>2 DEF DurableIsKept, RefusedOnlyUncommitted
<1> QED
  BY <1>2, <1>3, <1>4, <1>5, <1>6

(* After a recovery the files are sound unless nothing is committed.       *)
LEMMA ResolveResumeKeeps ==
    ASSUME IInv, ResolveResume
    PROVE  IInv' /\ CommittedStep' = CommittedStep /\ phase' # "up"
<1> USE DEF IInv, ResolveResume, memory, files
<1>1. Advancing = {} /\ PolicyIsSound
  BY DEF AheadIsOne, PolicyFollows
<1>2. ASSUME pointer # None PROVE Complete(pointer) /\ pointer \in adapters
  <2>1. pointer \in Generations
    BY <1>2 DEF TypeOK
  <2> QED
    BY <1>2, <2>1 DEF CommittedAreWhole
<1>3. Advancing' = Advancing /\ CommittedStep' = CommittedStep
  BY DEF Advancing, CommittedStep, PolicyStep, StepOf
<1>4. TypeOK'
  BY DEF TypeOK
<1>5. /\ phase' \in {"quarantine", "refused"}
      /\ phase' = "refused" => pointer = None /\ policy = None
  BY <1>1, <1>2 DEF Paired
<1>6. CommittedAreWhole' /\ DirectoriesFollow' /\ LineageIsClean' /\ PublishedIsNewest'
  BY <1>5 DEF CommittedAreWhole, DirectoriesFollow, LineageIsClean, PublishedIsNewest,
              Complete
<1>7. WriterFollows' /\ AheadIsOne'
  BY <1>1, <1>3, <1>5 DEF WriterFollows, AheadIsOne
<1>8. PolicyFollows'
  BY <1>3 DEF PolicyFollows, PolicyIsSound, PolicyNumber, StepOf
<1>9. DurableIsKept' /\ RefusedOnlyUncommitted'
  BY <1>3, <1>5 DEF DurableIsKept, RefusedOnlyUncommitted
<1> QED
  BY <1>3, <1>4, <1>5, <1>6, <1>7, <1>8, <1>9

LEMMA QuarantineKeeps ==
    ASSUME IInv, Quarantine
    PROVE  IInv' /\ CommittedStep' = CommittedStep /\ phase' # "up"
<1> USE DEF IInv, memory
<1>1. PICK h \in Unpaired : adapters' = adapters \ {h}
  BY DEF Quarantine
<1>2. /\ phase = "quarantine"
      /\ UNCHANGED <<life, phase, memory, writer, alias, dir, pointer, temp, policy,
                     durable>>
  BY DEF Quarantine
<1>3. /\ Advancing = {} /\ h \in adapters /\ h \in Generations
      /\ h.step > PolicyStep(pointer, policy)
      /\ h.step \in Int /\ StepOf(pointer) \in Int /\ PolicyNumber \in Int
  BY <1>1, <1>2, AdvancingType DEF AheadIsOne, Unpaired, TypeOK, Generations
<1>4. h.step > StepOf(pointer) /\ h.step > PolicyNumber
  BY <1>3, PolicyStepValue
<1>5. Advancing' = Advancing /\ CommittedStep' = CommittedStep
  <2>1. Advancing' = Advancing
    BY <1>2 DEF Advancing, StepOf
  <2> QED
    BY <1>2, <2>1 DEF CommittedStep, PolicyStep, StepOf
<1>6. TypeOK'
  BY <1>1, <1>2 DEF TypeOK
<1>7. CommittedAreWhole'
  <2>1. dir[h].at # "committed"
    <3>1. h # pointer
      BY <1>3, <1>4, AdvancingType, ConstantsType
    <3> QED
      BY <1>3, <1>4, <3>1 DEF Advancing
  <2> QED
    BY <1>1, <1>2, <2>1 DEF CommittedAreWhole, Complete
<1>8. DirectoriesFollow' /\ LineageIsClean' /\ PublishedIsNewest'
  BY <1>2 DEF DirectoriesFollow, LineageIsClean, PublishedIsNewest
<1>9. WriterFollows' /\ AheadIsOne'
  BY <1>2, <1>5 DEF WriterFollows, AheadIsOne
<1>10. PolicyFollows'
  <2>1. policy # None => policy.adapter # h
    BY <1>3, <1>4, AdvancingType
  <2> QED
    BY <1>1, <1>2, <1>5, <2>1 DEF PolicyFollows, PolicyIsSound, PolicyNumber, StepOf
<1>11. DurableIsKept' /\ RefusedOnlyUncommitted'
  BY <1>2, <1>5 DEF DurableIsKept, RefusedOnlyUncommitted
<1> QED
  BY <1>2, <1>5, <1>6, <1>7, <1>8, <1>9, <1>10, <1>11

(* Training goes on exactly at the committed step.                         *)
LEMMA RestartKeeps ==
    ASSUME IInv, Restart
    PROVE  IInv' /\ CommittedStep' = CommittedStep /\ step' = CommittedStep
           /\ phase' = "up" /\ phase # "up"
<1> USE DEF IInv, Restart, files
<1> DEFINE n == PolicyStep(pointer, policy)
<1>1. /\ Advancing = {} /\ writer = "idle" /\ ~alias /\ temp = None
  BY DEF AheadIsOne, WriterFollows
<1>2. /\ n = CommittedStep /\ n \in 0..MaxStep
      /\ StepOf(pointer) <= n /\ PolicyNumber <= n /\ StepOf(pointer) \in 0..MaxStep
  BY <1>1, StepValuesHold, AdvancingType, ConstantsType DEF StepValues
<1>3. Advancing' = Advancing /\ CommittedStep' = CommittedStep
  BY DEF Advancing, CommittedStep, PolicyStep, StepOf
<1>4. /\ step' = n /\ published' = n /\ persisted' = [r \in Ranks |-> n]
      /\ durable <= n
  BY <1>2 DEF DurableIsKept
<1> HIDE DEF n
<1>5. TypeOK'
  <2>1. life' \in 0..MaxLives
    BY ConstantsType DEF TypeOK
  <2>2. /\ persisted' \in [Ranks -> 0..MaxStep] /\ {step', published'} \subseteq 0..MaxStep
        /\ \A r \in Ranks : published' <= persisted'[r] /\ persisted'[r] <= step'
                            /\ step' - persisted'[r] <= Capacity
    BY <1>2, <1>4, ConstantsType
  <2> QED
    BY <2>1, <2>2 DEF TypeOK
<1>6. CommittedAreWhole'
  BY DEF CommittedAreWhole, Complete
<1>7. DirectoriesFollow'
  <2>1. \A g \in Generations : g.life \in Nat /\ life \in Nat
    BY DEF TypeOK, Generations
  <2>2. \A r \in Ranks, s \in 1..MaxStep : ~(published' < s /\ s <= persisted'[r])
    BY <1>2, <1>4
  <2> QED
    BY <2>1, <2>2 DEF DirectoriesFollow
<1>8. LineageIsClean'
  <2>1. persisted'[Zero] = n
    BY <1>4, ConstantsType
  <2>2. \A g \in adapters : ~(g.step > n)
    BY DEF Unpaired, n
  <2> QED
    BY <2>1, <2>2 DEF LineageIsClean
<1>9. WriterFollows' /\ AheadIsOne'
  BY <1>1, <1>3 DEF WriterFollows, AheadIsOne
<1>10. PolicyFollows'
  BY <1>3 DEF PolicyFollows, PolicyIsSound, PolicyNumber, StepOf
<1>11. PublishedIsNewest'
  BY <1>2, <1>4 DEF PublishedIsNewest, PolicyNumber, PolicyStep, StepOf, n
<1>12. DurableIsKept' /\ RefusedOnlyUncommitted'
  BY <1>3 DEF DurableIsKept, RefusedOnlyUncommitted
<1> QED
  BY <1>2, <1>3, <1>4, <1>5, <1>6, <1>7, <1>8, <1>9, <1>10, <1>11, <1>12


-----------------------------------------------------------------------------
(* The invariant.                                                          *)

LEMMA InitIInv == Init => IInv
<1> SUFFICES ASSUME Init PROVE IInv
  OBVIOUS
<1> USE DEF Init
<1>1. Advancing = {}
  BY DEF Advancing, NoDir
<1>2. CommittedStep = 0
  BY <1>1 DEF CommittedStep, PolicyStep, StepOf
<1>3. TypeOK
  <2>1. /\ persisted \in [Ranks -> 0..MaxStep]
        /\ \A r \in Ranks : published <= persisted[r] /\ persisted[r] <= step
                           /\ step - persisted[r] <= Capacity
    BY ConstantsType
  <2>2. dir \in [Generations -> [at : {"none", "pending", "committed"},
                                shards : SUBSET Ranks, manifest : BOOLEAN]]
    <3>1. NoDir \in [at : {"none", "pending", "committed"},
                     shards : SUBSET Ranks, manifest : BOOLEAN]
      BY DEF NoDir
    <3> QED
      BY <3>1
  <2>3. {step, published} \subseteq 0..MaxStep /\ life \in 0..MaxLives
        /\ durable \in 0..MaxStep
    BY ConstantsType
  <2>4. /\ phase \in {"up", "down", "initial", "quarantine", "refused"}
        /\ writer \in {"idle", "manifest", "renamed", "temp", "pointed"}
        /\ alias \in BOOLEAN /\ adapters \subseteq Generations
        /\ pointer \in Generations \cup {None} /\ temp \in Generations \cup {None, Torn}
        /\ policy \in Policies \cup {None}
    OBVIOUS
  <2> QED
    BY <2>1, <2>2, <2>3, <2>4 DEF TypeOK
<1>4. CommittedAreWhole /\ DirectoriesFollow
  BY DEF CommittedAreWhole, DirectoriesFollow, NoDir
<1>5. WriterFollows /\ AheadIsOne /\ PolicyFollows
  BY <1>1 DEF WriterFollows, AheadIsOne, PolicyFollows, PolicyIsSound
<1>6. PublishedIsNewest
  BY DEF PublishedIsNewest, PolicyNumber, PolicyStep, StepOf
<1>7. DurableIsKept /\ RefusedOnlyUncommitted /\ LineageIsClean
  BY <1>2 DEF DurableIsKept, RefusedOnlyUncommitted, LineageIsClean
<1> QED
  BY <1>3, <1>4, <1>5, <1>6, <1>7 DEF IInv

LEMMA NextIInv == IInv /\ [Next]_vars => IInv'
<1> SUFFICES ASSUME IInv, [Next]_vars PROVE IInv'
  OBVIOUS
<1>1. CASE UNCHANGED vars
  <2>1. Advancing' = Advancing /\ CommittedStep' = CommittedStep
    BY <1>1 DEF vars, files, Advancing, CommittedStep, PolicyStep, StepOf
  <2> QED
    BY <1>1, <2>1 DEF vars, memory, files, IInv, TypeOK, CommittedAreWhole, DirectoriesFollow,
       WriterFollows, AheadIsOne, PolicyFollows, PublishedIsNewest, DurableIsKept,
       RefusedOnlyUncommitted, LineageIsClean, PolicyIsSound, PolicyNumber, PolicyStep,
       StepOf, Complete, Gen, Next1, Reported, Saves
<1>2. CASE CommitStep
  BY <1>2, ResolveKeeps, CommitManifestKeeps, CommitRenameKeeps, CommitTempKeeps,
     CommitPointerKeeps, CommitPolicyKeeps DEF CommitStep
<1>3. CASE ResumeStep
  BY <1>3, RecoverKeeps, MoveGenerationKeeps, MoveCheckpointKeeps, ResolveResumeKeeps,
     QuarantineKeeps, RestartKeeps DEF ResumeStep
<1>4. ASSUME NEW r \in Ranks, Persist(r) PROVE IInv'
  BY <1>4, PersistKeeps
<1> QED
  BY <1>1, <1>2, <1>3, <1>4, LearnKeeps, WriteAdapterKeeps, PruneKeeps, LinkAliasKeeps,
     CommitAliasKeeps, AliasRaisesKeeps, CrashKeeps DEF Next

(* The inductive invariant holds in every reachable state.                 *)
THEOREM Invariant == Spec => []IInv
  BY InitIInv, NextIInv, PTL DEF Spec

(* The variables have their types, and no rank runs ahead of its pool of   *)
(* snapshots or of what is learned.                                        *)
THEOREM TypeCorrect == Spec => []TypeOK
<1>1. IInv => TypeOK
  BY DEF IInv
<1> QED
  BY <1>1, Invariant, PTL

(* Wherever a crash falls, what committed.json names is whole.             *)
(* (commit_optimizer_generation, _prune_optimizer_generations_locked)      *)
THEOREM PointerPaired == Spec => []PointerIsPaired
<1>1. IInv => PointerIsPaired
  BY DEF IInv, PointerIsPaired, CommittedAreWhole, TypeOK
<1> QED
  BY <1>1, Invariant, PTL

(* No step reported to be durable is resumed before, whatever crashes.     *)
(* (DurableTrainerPublication.resume_step, prepare_megatron_resume_state)  *)
THEOREM DurableKept == Spec => []DurableIsKept
<1>1. IInv => DurableIsKept
  BY DEF IInv
<1> QED
  BY <1>1, Invariant, PTL

(* Preparing to resume refuses only a state nothing was committed to.      *)
(* (_recover_optimizer_pointer_locked, resolve_megatron_resume_step)       *)
THEOREM RefusesOnlyUncommitted == Spec => []RefusedOnlyUncommitted
<1>1. IInv => RefusedOnlyUncommitted
  BY DEF IInv
<1> QED
  BY <1>1, Invariant, PTL

(* A checkpoint ahead of what rank zero has persisted is of this life:     *)
(* training finds none of a former one where it writes its own.            *)
(* (_prepare_megatron_resume_state_locked, _commit_adapter_alias)          *)
THEOREM LineageClean == Spec => []LineageIsClean
<1>1. IInv => LineageIsClean
  BY DEF IInv
<1> QED
  BY <1>1, Invariant, PTL

(* What rank zero persisted and is not published yet has its adapter, and  *)
(* so has the published step, unless it is the one committed or resumed.   *)
AdaptersFollow ==
    phase = "up" =>
       /\ \A s \in 1..MaxStep :
             published < s /\ s <= persisted[Zero] => Gen(s) \in adapters
       /\ writer # "pointed" =>
             PolicyStep(pointer, policy) = published \/ Gen(published) \in adapters

(* A step that goes on in the same life, and removes no adapter.           *)
LEMMA AdaptersFrame ==
    ASSUME IInv, AdaptersFollow, phase = "up",
           UNCHANGED <<life, persisted, published, pointer, policy>>,
           adapters \subseteq adapters', writer # "pointed"
    PROVE  AdaptersFollow'
  BY DEF AdaptersFollow, PolicyStep, StepOf, Gen

LEMMA AdaptersKept ==
    IInv /\ AdaptersFollow /\ [Next]_vars => AdaptersFollow'
<1> SUFFICES ASSUME IInv, AdaptersFollow, [Next]_vars PROVE AdaptersFollow'
  OBVIOUS
<1>1. CASE UNCHANGED vars
  BY <1>1 DEF vars, memory, files, AdaptersFollow, PolicyStep, StepOf, Gen
<1>2. CASE Learn \/ WriteAdapter \/ Prune \/ LinkAlias
  <2>1. /\ phase = "up" /\ UNCHANGED <<life, phase, persisted, published, writer>>
        /\ UNCHANGED <<pointer, policy>> /\ adapters \subseteq adapters'
    BY <1>2 DEF Learn, WriteAdapter, Prune, LinkAlias, memory, files
  <2> QED
    BY <2>1 DEF AdaptersFollow, PolicyStep, StepOf, Gen
<1>3. CASE CommitManifest \/ CommitRename \/ CommitTemp
  <2>1. /\ phase = "up" /\ UNCHANGED <<life, persisted, published, pointer, policy>>
        /\ adapters \subseteq adapters' /\ writer # "pointed"
    BY <1>3 DEF CommitManifest, CommitRename, CommitTemp, memory
  <2> QED
    BY <2>1, AdaptersFrame
<1>4. ASSUME NEW r \in Ranks, Persist(r) PROVE AdaptersFollow'
  <2>1. /\ phase = "up" /\ UNCHANGED <<life, phase, published, writer, adapters>>
        /\ UNCHANGED <<pointer, policy>>
        /\ persisted' = [persisted EXCEPT ![r] = persisted[r] + 1]
        /\ r = Zero => Gen(persisted[r] + 1) \in adapters
    BY <1>4 DEF Persist
  <2>2. persisted \in [Ranks -> 0..MaxStep] /\ Zero \in Ranks
    BY ConstantsType DEF IInv, TypeOK
  <2>3. \A s \in 1..MaxStep :
           s <= persisted'[Zero] => s <= persisted[Zero] \/ Gen(s) \in adapters
    <3>1. persisted[Zero] \in 0..MaxStep
      BY <2>2
    <3>2. CASE r = Zero
      <4>1. persisted'[Zero] = persisted[Zero] + 1
        BY <2>1, <2>2, <3>2
      <4>2. \A s \in 1..MaxStep :
               s <= persisted'[Zero] => s <= persisted[Zero] \/ s = persisted[Zero] + 1
        BY <3>1, <4>1
      <4> QED
        BY <2>1, <3>2, <4>2
    <3>3. CASE r # Zero
      BY <2>1, <2>2, <3>3
    <3> QED
      BY <3>2, <3>3
  <2>4. PolicyStep(pointer', policy') = PolicyStep(pointer, policy)
    BY <2>1 DEF PolicyStep, StepOf
  <2>5. \A s \in 1..MaxStep :
           published < s /\ s <= persisted'[Zero] => Gen(s) \in adapters
    BY <2>1, <2>3 DEF AdaptersFollow
  <2> QED
    BY <2>1, <2>4, <2>5 DEF AdaptersFollow, Gen
<1>5. CASE Resolve \/ CommitPolicy
  <2>1. /\ phase = "up" /\ Reported /\ published' = Next1
        /\ UNCHANGED <<life, phase, persisted, adapters>>
    BY <1>5 DEF Resolve, CommitPolicy, IInv, WriterFollows, files
  <2>2. /\ Next1 \in 1..MaxStep /\ Next1 = published + 1 /\ published \in 0..MaxStep
        /\ Next1 <= persisted[Zero]
    BY <2>1, ReportedType, ConstantsType DEF IInv, TypeOK, Next1
  <2>3. Gen(Next1) \in adapters
    BY <2>1, <2>2 DEF AdaptersFollow
  <2>4. \A s \in 1..MaxStep :
           published' < s /\ s <= persisted[Zero] => Gen(s) \in adapters
    BY <2>1, <2>2 DEF AdaptersFollow
  <2> QED
    BY <2>1, <2>3, <2>4 DEF AdaptersFollow, Gen
<1>6. CASE CommitPointer
  BY <1>6 DEF CommitPointer, AdaptersFollow, memory, Gen
<1>7. CASE CommitAlias
  <2>1. /\ published' = step + 1 /\ persisted' = [r \in Ranks |-> step + 1]
        /\ UNCHANGED <<life, adapters>> /\ Gen(step + 1) \in adapters
        /\ step \in 0..MaxStep
    BY <1>7, AliasState DEF CommitAlias
  <2>2. persisted'[Zero] = published'
    BY <2>1, ConstantsType
  <2>3. \A s \in 1..MaxStep : ~(published' < s /\ s <= persisted'[Zero])
    BY <2>1, <2>2, ConstantsType
  <2> QED
    BY <2>1, <2>3 DEF AdaptersFollow, Gen
<1>8. CASE AliasRaises \/ Crash \/ Recover \/ MoveGeneration \/ MoveCheckpoint
           \/ ResolveResume \/ Quarantine
  <2>1. phase' # "up"
    BY <1>8 DEF AliasRaises, Crash, Recover, MoveGeneration, MoveCheckpoint,
                ResolveResume, Quarantine
  <2> QED
    BY <2>1 DEF AdaptersFollow
<1>9. CASE Restart
  <2>1. /\ published' = PolicyStep(pointer, policy)
        /\ persisted' = [r \in Ranks |-> PolicyStep(pointer, policy)]
        /\ UNCHANGED <<pointer, policy>> /\ Zero \in Ranks
    BY <1>9, ConstantsType DEF Restart, files
  <2>2. PolicyStep(pointer, policy) \in Int
    BY PolicyStepValue, AdvancingType, ConstantsType DEF IInv
  <2>3. PolicyStep(pointer', policy') = published' /\ persisted'[Zero] = published'
    BY <2>1 DEF PolicyStep, StepOf
  <2>4. \A s \in 1..MaxStep : ~(published' < s /\ s <= persisted'[Zero])
    BY <2>1, <2>2, <2>3, ConstantsType
  <2> QED
    BY <2>3, <2>4 DEF AdaptersFollow
<1> QED
  BY <1>1, <1>2, <1>3, <1>4, <1>5, <1>6, <1>7, <1>8, <1>9
     DEF Next, CommitStep, ResumeStep

(* A step without training fails only if the step before it was learned in *)
(* this life, saved no optimizer and was never reported durable: not after *)
(* a resume, a commit or another step without training.                    *)
(* (_commit_adapter_alias, commit_optimizer_policy_advance)                *)
THEOREM PassFailsUnsaved == Spec => []PassFailsOnlyUnsaved
<1>1. Init => AdaptersFollow
  BY ConstantsType DEF Init, AdaptersFollow, PolicyStep, StepOf
<1>2. IInv /\ AdaptersFollow => PassFailsOnlyUnsaved
  <2> SUFFICES ASSUME IInv, AdaptersFollow, alias, PolicyStep(pointer, policy) # step
               PROVE  Gen(step) \in adapters /\ ~Saves(step) /\ durable < step
    BY DEF PassFailsOnlyUnsaved
  <2>1. /\ phase = "up" /\ writer = "idle" /\ published = step /\ Advancing = {}
        /\ StepOf(pointer) <= step /\ PolicyNumber <= step
    BY AliasState
  <2>2. ~Saves(step) /\ Gen(step) \in adapters
    BY <2>1 DEF IInv, PublishedIsNewest, AdaptersFollow
  <2>3. durable <= PolicyStep(pointer, policy)
    BY <2>1, StepValuesHold DEF IInv, DurableIsKept, StepValues
  <2>4. PolicyStep(pointer, policy) <= step /\ PolicyStep(pointer, policy) \in 0..MaxStep
    BY <2>1, PolicyStepValue, AdvancingType DEF IInv
  <2>5. step \in Int /\ durable \in Int /\ MaxStep \in Int
    BY ConstantsType DEF IInv, TypeOK
  <2> QED
    BY <2>2, <2>3, <2>4, <2>5
<1> QED
  BY <1>1, <1>2, AdaptersKept, Invariant, PTL DEF Spec

-----------------------------------------------------------------------------
(* The refinement: every step of the files is a step of DurableTraining or *)
(* leaves its variables alone.                                             *)

LEMMA InitPromise == Init => Promise!Init
<1> SUFFICES ASSUME Init PROVE Promise!Init
  OBVIOUS
<1>1. Advancing = {}
  BY DEF Init, Advancing, NoDir
<1>2. CommittedStep = 0
  BY <1>1 DEF Init, CommittedStep, PolicyStep, StepOf
<1> QED
  BY <1>2 DEF Init, Promise!Init

LEMMA NextPromise == IInv /\ [Next]_vars => [Promise!Next]_(Promise!vars)
<1> SUFFICES ASSUME IInv, [Next]_vars PROVE [Promise!Next]_(Promise!vars)
  OBVIOUS
<1> DEFINE Stutter == /\ CommittedStep' = CommittedStep /\ (phase' = "up") = (phase = "up")
                      /\ phase = "up" => step' = step
<1>1. Stutter => UNCHANGED Promise!vars
  BY DEF Promise!vars
<1> USE DEF Promise!Next, memory, files
<1>2. CASE UNCHANGED vars
  BY <1>1, <1>2 DEF vars, Advancing, CommittedStep, PolicyStep, StepOf
<1>3. CASE Learn
  <2>1. phase = "up" /\ phase' = "up" /\ CommittedStep' = CommittedStep
        /\ step < MaxStep /\ step' = step + 1
    BY <1>3, LearnKeeps DEF Learn
  <2> QED
    BY <2>1 DEF Promise!Learn
<1>4. CASE \/ WriteAdapter \/ Prune \/ LinkAlias \/ Resolve \/ CommitManifest
           \/ CommitTemp \/ CommitPointer \/ CommitPolicy
  <2>1. phase' = phase /\ step' = step
    BY <1>4 DEF WriteAdapter, Prune, LinkAlias, Resolve, CommitManifest, CommitTemp,
                CommitPointer, CommitPolicy
  <2> QED
    BY <1>1, <1>4, <2>1, WriteAdapterKeeps, PruneKeeps, LinkAliasKeeps, ResolveKeeps,
       CommitManifestKeeps, CommitTempKeeps, CommitPointerKeeps, CommitPolicyKeeps
<1>5. ASSUME NEW r \in Ranks, Persist(r) PROVE UNCHANGED Promise!vars
  BY <1>1, <1>5, PersistKeeps DEF Persist
<1>6. CASE CommitRename
  <2>1. /\ phase = "up" /\ phase' = "up" /\ step' = step
        /\ CommittedStep' = published + 1 /\ CommittedStep <= published
        /\ published + 1 <= step
    BY <1>6, CommitRenameKeeps DEF CommitRename, Next1
  <2>2. CommittedStep \in Int /\ published \in Int /\ step \in Int
    BY StepValuesHold, AdvancingType DEF IInv, StepValues, TypeOK, Newest, Generations
  <2>3. CommittedStep' \in CommittedStep + 1..step
    BY <2>1, <2>2
  <2> QED
    BY <2>1, <2>3 DEF Promise!Commit
<1>7. CASE CommitAlias
  <2>1. phase = "up" /\ phase' = "up" /\ step < MaxStep /\ step' = step + 1
        /\ CommittedStep' = step + 1
    BY <1>7, CommitAliasKeeps DEF CommitAlias
  <2> QED
    BY <2>1 DEF Promise!Pass
<1>8. CASE AliasRaises \/ Crash
  <2>1. phase' = "down" /\ CommittedStep' = CommittedStep
    BY <1>8, AliasRaisesKeeps, CrashKeeps DEF AliasRaises
  <2>2. CASE phase = "up"
    BY <2>1, <2>2 DEF Promise!Crash
  <2>3. CASE phase # "up"
    BY <1>1, <2>1, <2>3
  <2> QED
    BY <2>2, <2>3
<1>9. CASE \/ Recover \/ MoveGeneration \/ MoveCheckpoint \/ ResolveResume \/ Quarantine
  <2>1. phase # "up" /\ phase' # "up" /\ CommittedStep' = CommittedStep
    BY <1>9, RecoverKeeps, MoveGenerationKeeps, MoveCheckpointKeeps, ResolveResumeKeeps,
       QuarantineKeeps
       DEF Recover, MoveGeneration, MoveCheckpoint, ResolveResume, Quarantine
  <2> QED
    BY <1>1, <2>1
<1>10. CASE Restart
  <2>1. phase # "up" /\ phase' = "up" /\ CommittedStep' = CommittedStep
        /\ step' = CommittedStep
    BY <1>10, RestartKeeps
  <2> QED
    BY <2>1 DEF Promise!Restart
<1> QED
  BY <1>2, <1>3, <1>4, <1>5, <1>6, <1>7, <1>8, <1>9, <1>10
     DEF Next, CommitStep, ResumeStep

(* The files implement the promise of DurableTraining: a crash loses       *)
(* exactly the steps not committed, and training goes on from the last     *)
(* committed one.  (optimizer_state.py)                                    *)
THEOREM Refines == Spec => PromiseKept
  BY Invariant, InitPromise, NextPromise, PTL DEF Spec, PromiseKept, Promise!Spec


=============================================================================
