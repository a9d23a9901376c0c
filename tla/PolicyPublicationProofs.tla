---------------------- MODULE PolicyPublicationProofs ----------------------
(***************************************************************************)
(* Proofs about PolicyPublication for any workers, any number of steps,    *)
(* any evaluations and any number of failures.                             *)
(*                                                                         *)
(* A rollout that has asked for a step, or waits for it, holds no lease    *)
(* yet, so a prune may pass it by.  What keeps its adapter is the order of *)
(* the serving lock: a prune for step R has it before the publication of   *)
(* R + 1, the learner runs at most two steps ahead of what is served, and  *)
(* the prune of a step is started before the next step is committed.  So   *)
(* while a prune for R waits, whoever is ahead of it has asked for R - 2   *)
(* or later and whoever is behind it for R or later.                       *)
(***************************************************************************)
EXTENDS PolicyPublication, SequenceTheorems, TLAPS

Holders == Workers \cup Tasks

(* Where the holders of the serving lock are in its queue.                 *)
Within(q, p) == \E i \in DOMAIN q : q[i] = p
Before(q, p, r) == \E i, j \in DOMAIN q : i < j /\ q[i] = p /\ q[j] = r

(* Those that the queue has at most once, as far as the proof needs it.    *)
Named == Workers \cup {Pruning} \cup {Publication(s) : s \in Steps}

Kept(t) == t \in engine \/ t < restored
KeptNext(t) == t \in engine' \/ t < restored'

-----------------------------------------------------------------------------
(* The parts of the invariant.                                             *)

LearnerAhead ==
    /\ trainer \in {"preparing", "training"} => latest < MaxStep
    /\ trainer = "training" => latest <= serving + 1
    /\ trainer = "committed" => policy = latest - 1
    /\ trainer \in {"top", "preparing", "training", "done"} => policy = latest

PubsFollow ==
    \A s \in Steps :
       /\ s > latest <=> pub[s] = "none"
       /\ pub[s] = "moving" => s > serving
       /\ pub[s] = "queued" => s = serving + 1
       /\ pub[s] = "served" => s <= serving
       /\ pub[s] \in {"reported", "failed"} => failure

PostFollows ==
    /\ post.pc \in {"prune", "lease"} => post.step = policy
    /\ post.pc = "prune" => policy = latest

(* The evaluations are scheduled in the order of their steps, each with a  *)
(* lease.                                                                  *)
EvalFollows ==
    /\ eval.pc # "idle" => eval.queue # <<>>
    /\ \A i, j \in DOMAIN eval.queue : i < j => eval.queue[i] < eval.queue[j]
    /\ \A i \in DOMAIN eval.queue : <<"scheduled", eval.queue[i]>> \in leases
    /\ post.pc \in {"prune", "lease"} => \A i \in DOMAIN eval.queue : eval.queue[i] < policy

RolloutFollows ==
    \A w \in Workers :
       /\ rollout[w].pc = "running" => <<w, rollout[w].step>> \in leases
       /\ rollout[w].pc \in {"leasing", "running"} => rollout[w].step <= serving

QueueFollows ==
    /\ \A p \in Named : ~Before(serve, p, p)
    /\ \A w \in Workers : Within(serve, w) <=> rollout[w].pc = "asking"
    /\ Within(serve, Pruning) <=> prune.pc = "queued"
    /\ \A s \in Steps : Within(serve, Publication(s)) => pub[s] \in {"queued", "reported"}

(* What is asked of the prune task is never older than what is served.     *)
RequestFollows ==
    prune.request # None =>
       /\ post.pc = "prune" => prune.request < policy
       /\ post.pc \in {"idle", "lease"} => prune.request = policy
       /\ endpoint = "up" =>
             /\ serving <= prune.request
             /\ \A s \in Steps : pub[s] = "queued" => s <= prune.request

(* The prune that waits for the serving lock is for step R.                *)
PruneOf(R) ==
    /\ R <= policy
    /\ post.pc = "prune" => R < policy
    /\ prune.request # None => R < prune.request
    /\ prune.request = None /\ post.pc \in {"idle", "lease"} => policy = R
    /\ Retained(R) \subseteq prune.retain /\ LeasedSteps \subseteq prune.retain
    /\ serving <= R
    /\ \A s \in Steps :
          pub[s] = "queued" /\ Before(serve, Publication(s), Pruning) => s <= R
    /\ \A w \in Workers : rollout[w].pc \in {"asking", "leasing"} => rollout[w].step >= R - 2
    /\ \A w \in Workers : Before(serve, Pruning, w) => rollout[w].step >= R

GuardFollows ==
    endpoint = "up" /\ prune.pc = "queued" => \E R \in Nat : PruneOf(R)

AskFollows ==
    endpoint = "up" =>
      \A w \in Workers :
        /\ rollout[w].pc = "asking" /\ prune.pc = "idle" =>
             /\ prune.request # None \/ post.pc = "prune" => rollout[w].step >= latest - 2
             /\ prune.request = None /\ post.pc \in {"idle", "lease"} =>
                   rollout[w].step = policy
        /\ rollout[w].pc = "waiting" => rollout[w].step >= serving

EngineFollows ==
    /\ Answers =>
          /\ loaded \subseteq engine
          /\ \A t \in policy..serving : Kept(t)
          /\ \A w \in Workers : rollout[w].pc # "idle" /\ rollout[w].step <= serving =>
                Kept(rollout[w].step)
          /\ eval.pc \in {"leasing", "running"} => Evaluated \in engine
    /\ endpoint = "up" /\ manager # "stopped" /\ eval.pc \in {"leasing", "running"} =>
          Evaluated \in exact

StepsFollow == TypeOK /\ LearnerAhead /\ PubsFollow /\ PostFollows
LeasesFollow == EvalFollows /\ RolloutFollows /\ QueueFollows
PrunesFollow == RequestFollows /\ GuardFollows /\ AskFollows

IInv == StepsFollow /\ LeasesFollow /\ PrunesFollow

-----------------------------------------------------------------------------
(* The queue of the serving lock.                                          *)

LEMMA AppendQueue ==
    ASSUME NEW q \in Seq(Holders), NEW p \in Holders
    PROVE  /\ Append(q, p) \in Seq(Holders)
           /\ \A r : Within(Append(q, p), r) <=> Within(q, r) \/ r = p
           /\ \A r, u : Before(Append(q, p), r, u) <=>
                           Before(q, r, u) \/ (Within(q, r) /\ u = p)
<1> DEFINE a == Append(q, p)
<1>1. /\ a \in Seq(Holders) /\ Len(a) = Len(q) + 1 /\ Len(q) \in Nat
      /\ \A i \in 1..Len(q) : a[i] = q[i]
      /\ a[Len(q) + 1] = p
      /\ DOMAIN q = 1..Len(q) /\ DOMAIN a = 1..Len(a)
  BY AppendProperties, LenProperties
<1> HIDE DEF a
<1>2. \A r : Within(a, r) <=> Within(q, r) \/ r = p
  BY <1>1 DEF Within
<1>3. \A r, u : Before(a, r, u) => Before(q, r, u) \/ (Within(q, r) /\ u = p)
  BY <1>1 DEF Within, Before
<1>4. \A r, u : Before(q, r, u) => Before(a, r, u)
  BY <1>1 DEF Before
<1>5. \A r : Within(q, r) => Before(a, r, p)
  BY <1>1 DEF Within, Before
<1> QED
  BY <1>1, <1>2, <1>3, <1>4, <1>5 DEF a

LEMMA TailQueue ==
    ASSUME NEW q \in Seq(Holders), q # <<>>
    PROVE  /\ Tail(q) \in Seq(Holders) /\ Head(q) \in Holders /\ Within(q, Head(q))
           /\ \A r : Within(Tail(q), r) => Within(q, r)
           /\ \A r : Within(q, r) /\ r # Head(q) =>
                        Within(Tail(q), r) /\ Before(q, Head(q), r)
           /\ ~Before(q, Head(q), Head(q)) => ~Within(Tail(q), Head(q))
           /\ \A r, u : Before(Tail(q), r, u) => Before(q, r, u)
<1> DEFINE t == Tail(q)
<1>1. /\ t \in Seq(Holders) /\ Len(t) = Len(q) - 1 /\ Len(q) \in Nat /\ Len(q) > 0
      /\ \A i \in 1..Len(t) : t[i] = q[i + 1]
      /\ Head(q) = q[1] /\ Head(q) \in Holders
      /\ DOMAIN q = 1..Len(q) /\ DOMAIN t = 1..Len(t)
  BY HeadTailProperties, LenProperties, EmptySeq
<1> HIDE DEF t
<1>2. \A i \in DOMAIN q : i # 1 => i - 1 \in DOMAIN t /\ t[i - 1] = q[i]
  BY <1>1
<1>3. \A i \in DOMAIN t : i + 1 \in DOMAIN q /\ t[i] = q[i + 1] /\ i + 1 > 1
  BY <1>1
<1>4. 1 \in DOMAIN q /\ \A i \in DOMAIN q : i # 1 => 1 < i
  BY <1>1
<1>5. \A r : Within(t, r) => Within(q, r)
  BY <1>3 DEF Within
<1>6. \A r : Within(q, r) /\ r # Head(q) => Within(t, r) /\ Before(q, Head(q), r)
  BY <1>1, <1>2, <1>4 DEF Within, Before
<1>7. Within(t, Head(q)) => Before(q, Head(q), Head(q))
  BY <1>1, <1>3, <1>4 DEF Within, Before
<1>8. \A r, u : Before(t, r, u) => Before(q, r, u)
  <2> SUFFICES ASSUME NEW r, NEW u, NEW i \in DOMAIN t, NEW j \in DOMAIN t,
                      i < j, t[i] = r, t[j] = u
               PROVE  Before(q, r, u)
    BY DEF Before
  <2>1. i + 1 < j + 1
    BY <1>1
  <2> QED
    BY <1>3, <2>1 DEF Before
<1> QED
  BY <1>1, <1>4, <1>5, <1>6, <1>7, <1>8 DEF t, Within

(* The names of the tasks are different ones.                              *)
LEMMA TasksDiffer ==
    /\ Pruning \in Tasks /\ Recovery \in Tasks /\ Evaluation \in Tasks
    /\ Pruning # Recovery /\ Pruning # Evaluation
    /\ Recovery \notin Named /\ Evaluation \notin Named
    /\ \A w \in Workers : w \notin Tasks
    /\ \A s \in Steps : /\ Publication(s) \in Tasks /\ Publication(s) \in Named
                        /\ Publication(s) # Pruning
                        /\ \A s2 \in Steps : Publication(s) = Publication(s2) => s = s2
<1>1. /\ Pruning[1] = "pruning" /\ Recovery[1] = "recovery" /\ Evaluation[1] = "evaluation"
      /\ \A s : Publication(s)[1] = "publication" /\ Publication(s)[2] = s
  BY DEF Pruning, Recovery, Evaluation, Publication
<1>2. \A w \in Workers : w \notin Tasks
  BY HoldersAssumption
<1>3. /\ Pruning \in Tasks /\ Recovery \in Tasks /\ Evaluation \in Tasks
      /\ \A s \in Steps : Publication(s) \in Tasks /\ Publication(s) \in Named
  BY DEF Tasks, Named
<1>4. Pruning # Recovery /\ Pruning # Evaluation /\ \A s : Publication(s) # Pruning
  BY <1>1
<1>5. \A s : Publication(s) # Recovery /\ Publication(s) # Evaluation
  BY <1>1
<1>6. Recovery \notin Named /\ Evaluation \notin Named
  BY <1>2, <1>3, <1>4, <1>5 DEF Named
<1> QED
  BY <1>1, <1>2, <1>3, <1>4, <1>6

-----------------------------------------------------------------------------
(* What a step leaves alone stays.                                         *)

Service == <<failure, serving, endpoint, manager, engine, loaded, exact, restored>>

(* The queue changes only where nobody that is named is.                   *)
QuietQueue ==
    /\ serve' \in Seq(Holders)
    /\ \A r \in Named :
          /\ Within(serve', r) <=> Within(serve, r)
          /\ \A p : Before(serve', p, r) => Before(serve, p, r)

LEMMA TypeFacts ==
    ASSUME TypeOK
    PROVE  /\ latest \in Nat /\ policy \in Nat /\ serving \in Nat /\ restored \in Nat
           /\ MaxStep \in Nat /\ Window \in Nat
           /\ policy <= latest /\ latest <= policy + 1 /\ serving <= latest
           /\ latest <= MaxStep /\ latest <= serving + 2
           /\ serve \in Seq(Holders)
           /\ \A w \in Workers : rollout[w].step \in Nat /\ rollout[w].step <= policy
           /\ prune.request \in Nat \cup {None}
           /\ \A s \in Steps : s \in Nat /\ s >= 1 /\ s <= MaxStep
           /\ eval.queue \in Seq(0..policy)
           /\ DOMAIN eval.queue = 1..Len(eval.queue) /\ Len(eval.queue) \in Nat
           /\ \A i \in DOMAIN eval.queue : eval.queue[i] \in 0..policy
<1>1. MaxStep \in Nat /\ Window \in Nat
  BY PublicationAssumption
<1>2. /\ latest \in Nat /\ policy \in Nat /\ serving \in Nat /\ restored \in Nat
      /\ policy <= latest /\ latest <= policy + 1 /\ serving <= latest
      /\ latest <= MaxStep /\ latest <= serving + 2
  BY <1>1 DEF TypeOK
<1>3. \A w \in Workers : rollout[w].step \in Nat /\ rollout[w].step <= policy
  BY <1>2 DEF TypeOK
<1>4. prune.request \in Nat \cup {None} /\ serve \in Seq(Holders)
  BY <1>2 DEF TypeOK, Holders
<1>5. \A s \in Steps : s \in Nat /\ s >= 1 /\ s <= MaxStep
  BY <1>1 DEF Steps
<1>6. /\ eval.queue \in Seq(0..policy)
      /\ DOMAIN eval.queue = 1..Len(eval.queue) /\ Len(eval.queue) \in Nat
      /\ \A i \in DOMAIN eval.queue : eval.queue[i] \in 0..policy
  <2>1. eval.queue \in Seq(0..policy)
    BY DEF TypeOK
  <2> QED
    BY <2>1, LenProperties, ElementOfSeq
<1> QED
  BY <1>1, <1>2, <1>3, <1>4, <1>5, <1>6

LEMMA EvalType ==
    ASSUME TypeOK
    PROVE  eval \in [pc : {"idle", "asking", "waiting", "acquiring", "leasing", "running",
                          "releasing", "unscheduling"},
                    queue : Seq(0..policy)]
BY DEF TypeOK

(* The types, after a step that leaves what bounds them as it is.          *)
LEMMA TypeStays ==
    ASSUME TypeOK,
           UNCHANGED <<trainer, latest, policy, post, train, pub, written, failure, serving,
                       endpoint, manager, restored, rollout, faults>>,
           prune' \in [pc : {"idle", "queued"}, request : 0..policy \cup {None},
                      retain : SUBSET (0..policy), failed : BOOLEAN],
           loaded' \cup exact' \cup engine' \subseteq 0..latest,
           leases' \subseteq (Workers \cup {"scheduled", "eval"}) \X (0..policy),
           serve' \in Seq(Workers \cup Tasks),
           eval' \in [pc : {"idle", "asking", "waiting", "acquiring", "leasing", "running",
                           "releasing", "unscheduling"},
                     queue : Seq(0..policy)]
    PROVE  TypeOK'
BY DEF TypeOK

LEMMA QueueIsQuiet ==
    ASSUME TypeOK,
           \/ UNCHANGED serve
           \/ \E p \in {Recovery, Evaluation} : serve' = Append(serve, p)
           \/ \E p \in {Recovery, Evaluation} : Holds(serve, p) /\ serve' = Tail(serve)
           \/ Holds(serve, Evaluation) /\ serve' = Append(Tail(serve), Evaluation)
    PROVE  QuietQueue
<1>1. serve \in Seq(Holders) /\ {Recovery, Evaluation} \subseteq Holders
  BY TypeFacts, TasksDiffer DEF Holders
<1>2. {Recovery, Evaluation} \cap Named = {}
  BY TasksDiffer
<1>3. CASE UNCHANGED serve
  BY <1>1, <1>3 DEF QuietQueue
<1>4. CASE \E p \in {Recovery, Evaluation} : serve' = Append(serve, p)
  BY <1>1, <1>2, <1>4, AppendQueue DEF QuietQueue
<1>5. CASE \E p \in {Recovery, Evaluation} : Holds(serve, p) /\ serve' = Tail(serve)
  BY <1>1, <1>2, <1>5, TailQueue DEF QuietQueue, Holds
<1>6. CASE Holds(serve, Evaluation) /\ serve' = Append(Tail(serve), Evaluation)
  <2>1. /\ Tail(serve) \in Seq(Holders) /\ serve # <<>> /\ Head(serve) = Evaluation
        /\ \A r \in Named : /\ Within(Tail(serve), r) <=> Within(serve, r)
                            /\ \A p : Before(Tail(serve), p, r) => Before(serve, p, r)
    BY <1>1, <1>2, <1>6, TailQueue DEF Holds
  <2> QED
    BY <1>1, <1>2, <1>6, <2>1, AppendQueue DEF QuietQueue
<1> QED
  BY <1>3, <1>4, <1>5, <1>6

LEMMA StepsStay ==
    ASSUME StepsFollow, UNCHANGED <<trainer, latest, policy, post, pub, failure, serving>>
    PROVE  LearnerAhead' /\ PubsFollow' /\ PostFollows'
  BY DEF StepsFollow, LearnerAhead, PubsFollow, PostFollows

LEMMA EvalStays ==
    ASSUME EvalFollows, UNCHANGED <<eval, leases, policy, post>>
    PROVE  EvalFollows'
  BY DEF EvalFollows

LEMMA RolloutStays ==
    ASSUME RolloutFollows, UNCHANGED <<rollout, leases, serving>>
    PROVE  RolloutFollows'
  BY DEF RolloutFollows

LEMMA QueueStays ==
    ASSUME QueueFollows, QuietQueue, UNCHANGED rollout, prune'.pc = prune.pc, UNCHANGED pub
    PROVE  QueueFollows'
  BY TasksDiffer DEF QueueFollows, QuietQueue, Named

LEMMA RequestStays ==
    ASSUME RequestFollows, UNCHANGED <<policy, post, serving>>,
           prune'.request = prune.request, endpoint' = "up" => endpoint = "up",
           \A s \in Steps : pub'[s] = "queued" => pub[s] = "queued"
    PROVE  RequestFollows'
  BY DEF RequestFollows

LEMMA GuardStays ==
    ASSUME GuardFollows, QuietQueue, UNCHANGED <<policy, post, serving, leases, rollout, prune>>,
           endpoint' = "up" => endpoint = "up",
           \A s \in Steps : pub'[s] = "queued" => pub[s] = "queued"
    PROVE  GuardFollows'
<1> SUFFICES ASSUME endpoint' = "up", prune.pc = "queued"
             PROVE  \E R \in Nat : PruneOf(R)'
  BY DEF GuardFollows
<1>1. PICK R \in Nat : PruneOf(R)
  BY DEF GuardFollows
<1>2. LeasedSteps' = LeasedSteps /\ Retained(R)' = Retained(R)
  BY DEF LeasedSteps, Retained
<1>3. \A s \in Steps : Before(serve', Publication(s), Pruning) =>
         Before(serve, Publication(s), Pruning)
  BY DEF QuietQueue, Named
<1>4. \A w \in Workers : Before(serve', Pruning, w) => Before(serve, Pruning, w)
  BY DEF QuietQueue, Named
<1>5. PruneOf(R)'
  BY <1>1, <1>2, <1>3, <1>4 DEF PruneOf
<1> QED
  BY <1>5

LEMMA AskStays ==
    ASSUME AskFollows, UNCHANGED <<rollout, prune, post, latest, policy, serving>>,
           endpoint' = "up" => endpoint = "up"
    PROVE  AskFollows'
  BY DEF AskFollows

LEMMA EngineStays ==
    ASSUME EngineFollows, UNCHANGED <<Service, policy, rollout, eval>>
    PROVE  EngineFollows'
<1>1. /\ UNCHANGED <<serving, endpoint, manager, engine, loaded, exact, restored>>
      /\ Evaluated' = Evaluated
  BY DEF Service, Evaluated
<1>2. Answers' = Answers /\ \A t : Kept(t)' = Kept(t)
  BY <1>1 DEF Answers, Kept
<1> QED
  BY <1>1, <1>2 DEF EngineFollows

(* The leases and the prunes of a step that is about none of them.         *)
LEMMA RestStays ==
    ASSUME IInv, QuietQueue,
           UNCHANGED <<policy, post, pub, serving, leases, rollout, eval, prune>>,
           endpoint' = "up" => endpoint = "up"
    PROVE  LeasesFollow' /\ RequestFollows' /\ GuardFollows'
  BY EvalStays, RolloutStays, QueueStays, RequestStays, GuardStays
     DEF IInv, LeasesFollow, PrunesFollow


LEMMA AllStays ==
    ASSUME IInv, TypeOK', LearnerAhead', QuietQueue,
           UNCHANGED <<latest, policy, post, pub, failure, serving, leases, rollout, eval, prune>>,
           endpoint' = "up" => endpoint = "up"
    PROVE  IInv'
<1>1. LeasesFollow' /\ RequestFollows' /\ GuardFollows'
  BY RestStays
<1>2. AskFollows'
  BY AskStays DEF IInv, PrunesFollow
<1>3. PubsFollow' /\ PostFollows'
  BY DEF IInv, StepsFollow, PubsFollow, PostFollows
<1> QED
  BY <1>1, <1>2, <1>3 DEF IInv, StepsFollow, PrunesFollow

-----------------------------------------------------------------------------
(* The trainer.                                                            *)

LEMMA TrainerMoves ==
    ASSUME IInv, UNCHANGED <<latest, policy, post, pub, serviceVars, serve, clientVars>>,
           trainer' \in {"top", "preparing", "training", "committed", "done", "failed"},
           train' \in {"trainer", "recovery", None}, faults' \in 0..MaxFaults,
           written' \subseteq 0..latest, LearnerAhead'
    PROVE  IInv'
<1>1. QuietQueue
  BY QueueIsQuiet DEF IInv, StepsFollow
<1>2. TypeOK'
  BY DEF IInv, StepsFollow, TypeOK, serviceVars, clientVars
<1> QED
  BY <1>1, <1>2, AllStays DEF serviceVars, clientVars

(* The training that raises what a prune met is the last.                  *)
LEMMA TrainRaisesKeeps ==
    ASSUME IInv, trainer' = "failed", prune' = [prune EXCEPT !.failed = FALSE],
           UNCHANGED <<latest, policy, post, pub, written, serviceVars, train, serve,
                       leases, rollout, eval, faults>>
    PROVE  IInv'
<1>1. TypeOK /\ LearnerAhead /\ PubsFollow /\ PostFollows /\ QueueFollows /\ AskFollows
      /\ EvalFollows /\ RolloutFollows /\ RequestFollows /\ GuardFollows
  BY DEF IInv, StepsFollow, LeasesFollow, PrunesFollow
<1>2. /\ UNCHANGED <<latest, policy, train, post, pub, written, failure, serving,
                     endpoint, serve, leases, rollout, eval, faults>>
      /\ UNCHANGED Service /\ trainer' = "failed"
  BY DEF serviceVars, Service
<1>3. /\ prune'.pc = prune.pc /\ prune'.retain = prune.retain
      /\ prune'.request = prune.request
      /\ prune' \in [pc : {"idle", "queued"}, request : 0..policy \cup {None},
                     retain : SUBSET (0..policy), failed : BOOLEAN]
  BY <1>1 DEF TypeOK
<1>4. TypeOK'
  <2>1. policy' = policy /\ latest' = latest /\ serving' = serving
    BY <1>2 DEF Service
  <2>2. prune' \in [pc : {"idle", "queued"}, request : 0..policy' \cup {None},
                    retain : SUBSET (0..policy'), failed : BOOLEAN]
    BY <1>3, <2>1
  <2> QED
    BY <1>1, <1>2, <2>1, <2>2 DEF TypeOK, Service
<1>5. LearnerAhead' /\ PostFollows' /\ PubsFollow'
  BY <1>1, <1>2 DEF LearnerAhead, PostFollows, PubsFollow
<1>6. EvalFollows' /\ RolloutFollows' /\ QueueFollows'
  BY <1>1, <1>2, <1>3 DEF EvalFollows, RolloutFollows, QueueFollows
<1>7. RequestFollows' /\ AskFollows'
  BY <1>1, <1>2, <1>3 DEF RequestFollows, AskFollows
<1>8. GuardFollows'
  <2> SUFFICES ASSUME endpoint' = "up", prune'.pc = "queued"
               PROVE  \E R \in Nat : PruneOf(R)'
    BY DEF GuardFollows
  <2>1. PICK R \in Nat : PruneOf(R)
    BY <1>1, <1>2, <1>3 DEF GuardFollows
  <2>2. LeasedSteps' = LeasedSteps /\ Retained(R)' = Retained(R)
    BY <1>2 DEF LeasedSteps, Retained
  <2>3. PruneOf(R)'
    BY <1>2, <1>3, <2>1, <2>2 DEF PruneOf
  <2> QED
    BY <2>3
<1> QED
  BY <1>4, <1>5, <1>6, <1>7, <1>8 DEF IInv, StepsFollow, LeasesFollow, PrunesFollow

LEMMA TrainStartKeeps ==
    ASSUME IInv, TrainStart
    PROVE  IInv'
<1>1. CASE prune.failed
  BY <1>1, TrainRaisesKeeps DEF TrainStart
<1>2. CASE ~prune.failed
  <2>1. TypeOK /\ LearnerAhead
    BY DEF IInv, StepsFollow
  <2>2. LearnerAhead'
    BY <1>2, <2>1 DEF LearnerAhead, TrainStart, serviceVars
  <2>3. /\ trainer' \in {"top", "preparing", "training", "committed", "done", "failed"}
        /\ train' \in {"trainer", "recovery", None} /\ faults' \in 0..MaxFaults
        /\ written' \subseteq 0..latest
        /\ UNCHANGED <<latest, policy, post, pub, serviceVars, serve, clientVars>>
    BY <1>2, <2>1 DEF TypeOK, TrainStart, clientVars
  <2> QED
    BY <2>2, <2>3, TrainerMoves
<1> QED
  BY <1>1, <1>2

(* The step two before is served, or the trainer fails with its publication.*)
LEMMA TrainPreparedKeeps ==
    ASSUME IInv, TrainPrepared
    PROVE  IInv'
<1>1. TypeOK /\ LearnerAhead /\ PubsFollow
  BY DEF IInv, StepsFollow
<1>2. ~failure => latest <= serving + 1
  <2>1. CASE latest > 1 /\ ~failure
    <3>1. Settled(latest - 1)
      BY <2>1 DEF TrainPrepared
    <3>2. ~(latest - 1 \in Steps /\ pub[latest - 1] \in {"reported", "failed"})
      BY <1>1, <2>1 DEF PubsFollow
    <3>3. latest - 1 <= serving
      BY <3>1, <3>2 DEF Settled
    <3> QED
      BY <1>1, <3>3, TypeFacts
  <2>2. CASE latest <= 1
    BY <1>1, <2>2, TypeFacts
  <2> QED
    BY <1>1, <2>1, <2>2, TypeFacts
<1>3. LearnerAhead'
  BY <1>1, <1>2 DEF LearnerAhead, TrainPrepared, serviceVars
<1>4. /\ trainer' \in {"top", "preparing", "training", "committed", "done", "failed"}
      /\ train' \in {"trainer", "recovery", None} /\ faults' \in 0..MaxFaults
      /\ written' \subseteq 0..latest
      /\ UNCHANGED <<latest, policy, post, pub, serviceVars, serve, clientVars>>
  BY <1>1 DEF TypeOK, TrainPrepared
<1> QED
  BY <1>3, <1>4, TrainerMoves

LEMMA TrainFailsKeeps ==
    ASSUME IInv, TrainFails
    PROVE  IInv'
<1>1. TypeOK /\ LearnerAhead /\ MaxFaults \in Nat
  BY PublicationAssumption DEF IInv, StepsFollow
<1>2. LearnerAhead'
  BY <1>1 DEF LearnerAhead, TrainFails, serviceVars
<1>3. /\ trainer' \in {"top", "preparing", "training", "committed", "done", "failed"}
      /\ train' \in {"trainer", "recovery", None} /\ faults' \in 0..MaxFaults
      /\ written' \subseteq 0..latest
      /\ UNCHANGED <<latest, policy, post, pub, serviceVars, serve, clientVars>>
  BY <1>1 DEF TypeOK, TrainFails
<1> QED
  BY <1>2, <1>3, TrainerMoves

LEMMA TrainEndsKeeps ==
    ASSUME IInv, TrainEnds
    PROVE  IInv'
<1>1. TypeOK /\ LearnerAhead
  BY DEF IInv, StepsFollow
<1>2. LearnerAhead'
  BY <1>1 DEF LearnerAhead, TrainEnds, serviceVars
<1>3. /\ trainer' \in {"top", "preparing", "training", "committed", "done", "failed"}
      /\ train' \in {"trainer", "recovery", None} /\ faults' \in 0..MaxFaults
      /\ written' \subseteq 0..latest
      /\ UNCHANGED <<latest, policy, post, pub, serviceVars, serve, clientVars>>
  BY <1>1 DEF TypeOK, TrainEnds
<1> QED
  BY <1>2, <1>3, TrainerMoves

LEMMA WriteKeeps ==
    ASSUME IInv, NEW s \in Steps, Write(s)
    PROVE  IInv'
<1>1. TypeOK /\ LearnerAhead
  BY DEF IInv, StepsFollow
<1>2. LearnerAhead'
  BY <1>1 DEF LearnerAhead, Write, serviceVars, pipelineVars
<1>3. /\ trainer' \in {"top", "preparing", "training", "committed", "done", "failed"}
      /\ train' \in {"trainer", "recovery", None} /\ faults' \in 0..MaxFaults
      /\ UNCHANGED <<latest, policy, post, pub, serviceVars, serve, clientVars>>
  BY <1>1 DEF TypeOK, Write, pipelineVars
<1>4. written' \subseteq 0..latest
  <2>1. written \subseteq 0..latest /\ s \in 0..latest /\ written' = written \cup {s}
    BY <1>1, TypeFacts DEF TypeOK, Write
  <2> QED
    BY <2>1
<1> QED
  BY <1>2, <1>3, <1>4, TrainerMoves

(* A step is committed while no request is left and no prune is to come.   *)
LEMMA TrainCommitsKeeps ==
    ASSUME IInv, TrainCommits
    PROVE  IInv'
<1>1. TypeOK /\ LearnerAhead /\ PubsFollow /\ PostFollows /\ QueueFollows /\ AskFollows
      /\ EvalFollows /\ RolloutFollows /\ RequestFollows /\ GuardFollows
  BY DEF IInv, StepsFollow, LeasesFollow, PrunesFollow
<1>2. /\ trainer = "training" /\ trainer' = "committed" /\ train' = None
      /\ latest' = latest + 1
      /\ pub' = [pub EXCEPT ![latest'] = "moving"]
      /\ UNCHANGED <<policy, post, written, failure, serving, endpoint, serve, leases,
                     rollout, eval, prune>>
      /\ UNCHANGED <<Service, faults>>
  BY DEF TrainCommits, serviceVars, clientVars, Service
<1>3. post.pc # "prune" /\ (prune.pc = "idle" => prune.request = None)
  BY <1>2 DEF TrainCommits, Ready
<1>4. /\ latest + 1 \in Steps /\ latest <= serving + 1 /\ policy = latest
      /\ latest \in Nat /\ serving \in Nat /\ serving <= latest /\ MaxStep \in Nat
      /\ latest + 1 <= MaxStep
  BY <1>1, <1>2, TypeFacts DEF LearnerAhead, Steps
<1>5. \A s \in Steps : /\ s # latest + 1 => pub'[s] = pub[s]
                       /\ s = latest + 1 => pub'[s] = "moving" /\ pub[s] = "none"
  BY <1>1, <1>2, <1>4, TypeFacts DEF TypeOK, PubsFollow
<1>6. TypeOK'
  <2>1. /\ latest' \in 0..MaxStep /\ policy' \in {latest' - 1, latest'} \cap Nat
        /\ latest' <= serving' + 2 /\ written' \subseteq 0..latest' /\ serving' \in 0..latest'
        /\ loaded' \cup exact' \cup engine' \subseteq 0..latest'
    BY <1>1, <1>2, <1>4 DEF TypeOK, Service
  <2>2. pub' \in [Steps -> {"none", "moving", "queued", "served",
                            "failing", "reported", "failed"}]
    BY <1>1, <1>2 DEF TypeOK
  <2> QED
    BY <1>1, <1>2, <2>1, <2>2 DEF TypeOK, Service
<1>7. LearnerAhead' /\ PostFollows'
  BY <1>1, <1>2, <1>3, <1>4 DEF LearnerAhead, PostFollows
<1>8. PubsFollow'
  BY <1>1, <1>2, <1>4, <1>5, TypeFacts DEF PubsFollow
<1>9. EvalFollows' /\ RolloutFollows'
  BY <1>1, <1>2, EvalStays, RolloutStays
<1>10. QuietQueue
  BY <1>1, <1>2, QueueIsQuiet
<1>11. QueueFollows'
  BY <1>1, <1>2, <1>5 DEF QueueFollows
<1>12. RequestFollows' /\ GuardFollows'
  BY <1>1, <1>2, <1>5, <1>10, RequestStays, GuardStays
<1>13. AskFollows'
  BY <1>1, <1>2, <1>3 DEF AskFollows
<1> QED
  BY <1>6, <1>7, <1>8, <1>9, <1>11, <1>12, <1>13
     DEF IInv, StepsFollow, LeasesFollow, PrunesFollow

LEMMA TrainReturnsKeeps ==
    ASSUME IInv, TrainReturns
    PROVE  IInv'
<1>1. TypeOK /\ LearnerAhead /\ PubsFollow /\ PostFollows /\ QueueFollows /\ AskFollows
      /\ EvalFollows /\ RolloutFollows /\ RequestFollows /\ GuardFollows
  BY DEF IInv, StepsFollow, LeasesFollow, PrunesFollow
<1>2. CASE post.pc = "failed"
  <2>1. LearnerAhead'
    BY <1>1, <1>2 DEF LearnerAhead, TrainReturns, serviceVars
  <2>2. /\ trainer' \in {"top", "preparing", "training", "committed", "done", "failed"}
        /\ train' \in {"trainer", "recovery", None} /\ faults' \in 0..MaxFaults
        /\ written' \subseteq 0..latest
        /\ UNCHANGED <<latest, policy, post, pub, serviceVars, serve, clientVars>>
    BY <1>1, <1>2 DEF TypeOK, TrainReturns
  <2> QED
    BY <2>1, <2>2, TrainerMoves
<1>3. CASE post.pc = "idle"
  <2>1. /\ trainer = "committed" /\ trainer' = "top" /\ policy' = latest
        /\ post' = [pc |-> "prune", step |-> latest]
        /\ UNCHANGED <<latest, pub, written, failure, serving, endpoint, serve, leases,
                       rollout, eval, prune, train, faults>>
        /\ UNCHANGED Service
    BY <1>3 DEF TrainReturns, serviceVars, clientVars, Service
  <2>2. /\ policy = latest - 1 /\ latest \in Nat /\ policy \in Nat /\ latest <= MaxStep
        /\ policy < policy' /\ post'.pc = "prune" /\ post'.step = latest
    BY <1>1, <2>1, TypeFacts DEF LearnerAhead
  <2>3. TypeOK'
    <3>1. /\ post' \in [pc : {"idle", "prune", "lease", "failed"}, step : 0..MaxStep]
          /\ policy' \in {latest' - 1, latest'} \cap Nat
      BY <2>1, <2>2, TypeFacts, <1>1
    <3>2. 0..policy \subseteq 0..policy'
      BY <2>2, <2>1
    <3>3. leases' \subseteq (Workers \cup {"scheduled", "eval"}) \X (0..policy')
      BY <1>1, <2>1, <3>2 DEF TypeOK
    <3>4. rollout' \in [Workers -> [pc : {"idle", "asking", "waiting", "leasing", "running"},
                                    step : 0..policy']]
      BY <1>1, <2>1, <3>2 DEF TypeOK
    <3>5. eval' \in [pc : {"idle", "asking", "waiting", "acquiring", "leasing", "running",
                           "releasing", "unscheduling"},
                     queue : Seq(0..policy')]
      <4>1. eval.queue \in Seq(0..policy')
        BY <1>1, <3>2, SeqMonotonic DEF TypeOK
      <4> QED
        BY <1>1, <2>1, <4>1 DEF TypeOK
    <3>6. prune' \in [pc : {"idle", "queued"}, request : 0..policy' \cup {None},
                      retain : SUBSET (0..policy'), failed : BOOLEAN]
      BY <1>1, <2>1, <3>2 DEF TypeOK
    <3> QED
      BY <1>1, <2>1, <3>1, <3>3, <3>4, <3>5, <3>6 DEF TypeOK, Service
  <2>4. LearnerAhead' /\ PostFollows' /\ PubsFollow'
    BY <1>1, <2>1, <2>2 DEF LearnerAhead, PostFollows, PubsFollow
  <2>5. EvalFollows'
    <3>1. ASSUME NEW i \in DOMAIN eval.queue PROVE eval.queue[i] < policy'
      <4>1. eval.queue[i] \in 0..policy /\ policy' \in Nat
        BY <1>1, <2>1, <2>2, TypeFacts
      <4> QED
        BY <2>2, <4>1
    <3> QED
      BY <1>1, <2>1, <3>1 DEF EvalFollows
  <2>6. RolloutFollows' /\ QueueFollows'
    BY <1>1, <2>1 DEF RolloutFollows, QueueFollows
  <2>7. RequestFollows'
    <3>1. prune.request # None => prune.request < policy'
      BY <1>1, <1>3, <2>2 DEF RequestFollows
    <3> QED
      BY <1>1, <2>1, <2>2, <3>1 DEF RequestFollows
  <2>8. GuardFollows'
    <3> SUFFICES ASSUME endpoint' = "up", prune'.pc = "queued"
                 PROVE  \E R \in Nat : PruneOf(R)'
      BY DEF GuardFollows
    <3>1. PICK R \in Nat : PruneOf(R)
      BY <1>1, <2>1 DEF GuardFollows
    <3>2. LeasedSteps' = LeasedSteps /\ Retained(R)' = Retained(R)
      BY <2>1 DEF LeasedSteps, Retained
    <3>3. R < policy' /\ R <= policy'
      BY <3>1, <2>2, <2>1 DEF PruneOf
    <3>4. PruneOf(R)'
      BY <2>1, <2>2, <3>1, <3>2, <3>3 DEF PruneOf
    <3> QED
      BY <3>4
  <2>9. AskFollows'
    <3> SUFFICES ASSUME endpoint = "up", NEW w \in Workers
                 PROVE  /\ rollout[w].pc = "asking" /\ prune.pc = "idle" =>
                              rollout[w].step >= latest - 2
                        /\ rollout[w].pc = "waiting" => rollout[w].step >= serving
      BY <2>1, <2>2 DEF AskFollows
    <3>1. rollout[w].pc = "asking" /\ prune.pc = "idle" => rollout[w].step >= latest - 2
      <4>1. CASE prune.request # None
        BY <1>1, <4>1 DEF AskFollows
      <4>2. CASE prune.request = None
        BY <1>1, <1>3, <2>2, <4>2 DEF AskFollows
      <4> QED
        BY <4>1, <4>2
    <3> QED
      BY <1>1, <3>1 DEF AskFollows
  <2> QED
    BY <2>3, <2>4, <2>5, <2>6, <2>7, <2>8, <2>9
       DEF IInv, StepsFollow, LeasesFollow, PrunesFollow
<1> QED
  BY <1>2, <1>3 DEF TrainReturns

(* The post-train task asks for a prune, and schedules the evaluation.     *)
LEMMA PostPruneKeeps ==
    ASSUME IInv, PostPrune
    PROVE  IInv'
<1>1. TypeOK /\ LearnerAhead /\ PubsFollow /\ PostFollows /\ QueueFollows /\ AskFollows
      /\ EvalFollows /\ RolloutFollows /\ RequestFollows /\ GuardFollows
  BY DEF IInv, StepsFollow, LeasesFollow, PrunesFollow
<1>2. /\ post.pc = "prune" /\ post.step = policy /\ policy = latest
      /\ UNCHANGED <<trainer, latest, policy, train, pub, written, failure, serving,
                     endpoint, serve, leases, rollout, eval, faults>>
      /\ UNCHANGED Service
      /\ prune'.pc = prune.pc /\ prune'.retain = prune.retain /\ prune'.failed \in BOOLEAN
      /\ \/ post'.pc = "failed" /\ prune'.request = prune.request
         \/ post'.pc \in {"lease", "idle"} /\ prune'.request = policy
      /\ post'.pc = "lease" => post'.step = policy
  <2>1. /\ post.pc = "prune" /\ post.step = policy /\ policy = latest
        /\ UNCHANGED <<trainer, latest, policy, train, pub, written, failure, serving,
                       endpoint, serve, leases, rollout, eval, faults>>
        /\ UNCHANGED Service
    BY <1>1 DEF PostPrune, PostFollows, serviceVars, Service
  <2>2. /\ prune \in [pc : {"idle", "queued"}, request : 0..policy \cup {None},
                      retain : SUBSET (0..policy), failed : BOOLEAN]
        /\ post \in [pc : {"idle", "prune", "lease", "failed"}, step : 0..MaxStep]
    BY <1>1 DEF TypeOK
  <2>3. CASE prune.failed
    <3>1. /\ post' = [post EXCEPT !.pc = "failed"]
          /\ prune' = [prune EXCEPT !.failed = FALSE]
      BY <2>3 DEF PostPrune
    <3> QED
      BY <2>1, <2>2, <3>1
  <2>4. CASE ~prune.failed
    <3>1. /\ prune' = [prune EXCEPT !.request = post.step]
          /\ post' = [post EXCEPT !.pc = "lease"] \/ post' = Idle
      BY <2>4 DEF PostPrune
    <3> QED
      BY <2>1, <2>2, <3>1 DEF Idle
  <2> QED
    BY <2>3, <2>4
<1>3. /\ policy \in Nat /\ latest \in Nat /\ serving \in Nat /\ serving <= latest
      /\ policy # None /\ None \notin Nat
  BY <1>1, TypeFacts, PublicationAssumption
<1>4. TypeOK'
  <2>1. post' \in [pc : {"idle", "prune", "lease", "failed"}, step : 0..MaxStep]
    <3>1. \/ post' = [post EXCEPT !.pc = "failed"]
          \/ post' = [post EXCEPT !.pc = "lease"] \/ post' = Idle
      BY DEF PostPrune
    <3>2. post \in [pc : {"idle", "prune", "lease", "failed"}, step : 0..MaxStep]
          /\ 0 \in 0..MaxStep
      BY <1>1, PublicationAssumption DEF TypeOK
    <3> QED
      BY <3>1, <3>2 DEF Idle
  <2>2. prune' \in [pc : {"idle", "queued"}, request : 0..policy \cup {None},
                    retain : SUBSET (0..policy), failed : BOOLEAN]
    BY <1>1, <1>2, <1>3 DEF TypeOK, PostPrune
  <2> QED
    BY <1>1, <1>2, <2>1, <2>2 DEF TypeOK, Service
<1>5. LearnerAhead' /\ PostFollows' /\ PubsFollow'
  BY <1>1, <1>2 DEF LearnerAhead, PostFollows, PubsFollow
<1>6. EvalFollows' /\ RolloutFollows' /\ QueueFollows'
  BY <1>1, <1>2 DEF EvalFollows, RolloutFollows, QueueFollows
<1>7. RequestFollows'
  <2>1. \A s \in Steps : pub[s] = "queued" => s <= policy
    BY <1>1, <1>2, <1>3, TypeFacts DEF PubsFollow
  <2> QED
    BY <1>1, <1>2, <1>3, <2>1 DEF RequestFollows
<1>8. GuardFollows'
  <2> SUFFICES ASSUME endpoint' = "up", prune'.pc = "queued"
               PROVE  \E R \in Nat : PruneOf(R)'
    BY DEF GuardFollows
  <2>1. PICK R \in Nat : PruneOf(R)
    BY <1>1, <1>2 DEF GuardFollows
  <2>2. LeasedSteps' = LeasedSteps /\ Retained(R)' = Retained(R)
    BY <1>2 DEF LeasedSteps, Retained
  <2>3. PruneOf(R)'
    BY <1>2, <1>3, <2>1, <2>2 DEF PruneOf
  <2> QED
    BY <2>3
<1>9. AskFollows'
  BY <1>1, <1>2, <1>3 DEF AskFollows
<1> QED
  BY <1>4, <1>5, <1>6, <1>7, <1>8, <1>9 DEF IInv, StepsFollow, LeasesFollow, PrunesFollow

LEMMA PostSchedulesKeeps ==
    ASSUME IInv, PostSchedules
    PROVE  IInv'
<1>1. TypeOK /\ LearnerAhead /\ PubsFollow /\ PostFollows /\ QueueFollows /\ AskFollows
      /\ EvalFollows /\ RolloutFollows /\ RequestFollows /\ GuardFollows
  BY DEF IInv, StepsFollow, LeasesFollow, PrunesFollow
<1>2. /\ post.pc = "lease" /\ post.step = policy /\ prune.pc # "queued"
      /\ UNCHANGED <<trainer, latest, policy, train, pub, written, failure, serving,
                     endpoint, serve, rollout, prune, faults>>
      /\ UNCHANGED Service
      /\ leases' = leases \cup {<<"scheduled", policy>>}
      /\ eval'.pc = eval.pc /\ eval'.queue = Append(eval.queue, policy)
      /\ post'.pc = "idle" /\ post' = Idle
  BY <1>1 DEF PostSchedules, PostFollows, serviceVars, Service, Idle, TypeOK, Guarded
<1>3. policy \in Nat /\ policy \in 0..policy /\ 0 \in 0..MaxStep
  BY <1>1, TypeFacts
<1>4. /\ eval'.queue \in Seq(0..policy)
      /\ DOMAIN eval.queue = 1..Len(eval.queue) /\ Len(eval.queue) \in Nat
      /\ DOMAIN eval'.queue = 1..(Len(eval.queue) + 1)
      /\ \A i \in DOMAIN eval.queue : /\ eval'.queue[i] = eval.queue[i]
                                      /\ eval.queue[i] \in 0..policy
      /\ eval'.queue[Len(eval.queue) + 1] = policy
  <2> DEFINE q == eval.queue
             a == Append(q, policy)
  <2>1. /\ q \in Seq(0..policy) /\ DOMAIN q = 1..Len(q) /\ Len(q) \in Nat
        /\ \A i \in DOMAIN q : q[i] \in 0..policy
    BY <1>1, TypeFacts
  <2>2. /\ a \in Seq(0..policy) /\ Len(a) = Len(q) + 1
        /\ \A i \in 1..Len(q) : a[i] = q[i]
        /\ a[Len(q) + 1] = policy
    BY <1>3, <2>1, AppendProperties
  <2>3. DOMAIN a = 1..Len(a)
    BY <2>2, LenProperties
  <2>4. eval'.queue = a
    BY <1>2
  <2> HIDE DEF a
  <2> QED
    BY <2>1, <2>2, <2>3, <2>4
<1>5. TypeOK'
  <2>1. post' \in [pc : {"idle", "prune", "lease", "failed"}, step : 0..MaxStep]
    BY <1>2, <1>3 DEF Idle
  <2>2. eval' \in [pc : {"idle", "asking", "waiting", "acquiring", "leasing", "running",
                         "releasing", "unscheduling"},
                   queue : Seq(0..policy)]
    BY <1>1, <1>2, <1>4 DEF TypeOK, PostSchedules
  <2>3. leases' \subseteq (Workers \cup {"scheduled", "eval"}) \X (0..policy)
    BY <1>1, <1>2, <1>3 DEF TypeOK
  <2> QED
    BY <1>1, <1>2, <2>1, <2>2, <2>3 DEF TypeOK, Service
<1>6. LearnerAhead' /\ PostFollows' /\ PubsFollow'
  BY <1>1, <1>2 DEF LearnerAhead, PostFollows, PubsFollow
<1>7. EvalFollows'
  <2>1. eval'.pc # "idle" => eval'.queue # <<>>
    BY <1>1, <1>2, <1>4, EmptySeq DEF EvalFollows
  <2>2. ASSUME NEW i \in DOMAIN eval'.queue
        PROVE  /\ \A j \in DOMAIN eval'.queue : i < j => eval'.queue[i] < eval'.queue[j]
               /\ <<"scheduled", eval'.queue[i]>> \in leases'
    <3>1. CASE i = Len(eval.queue) + 1
      BY <1>2, <1>4, <3>1
    <3>2. CASE i # Len(eval.queue) + 1
      <4>1. i \in DOMAIN eval.queue
        BY <1>4, <3>2
      <4>2. eval.queue[i] < policy /\ <<"scheduled", eval.queue[i]>> \in leases
        BY <1>1, <1>2, <4>1 DEF EvalFollows
      <4>3. \A j \in DOMAIN eval.queue : i < j => eval.queue[i] < eval.queue[j]
        BY <1>1, <4>1 DEF EvalFollows
      <4>4. \A j \in DOMAIN eval'.queue : j \in DOMAIN eval.queue \/ j = Len(eval.queue) + 1
        BY <1>4
      <4> QED
        BY <1>2, <1>4, <4>1, <4>2, <4>3, <4>4
    <3> QED
      BY <3>1, <3>2
  <2> QED
    BY <1>2, <2>1, <2>2 DEF EvalFollows
<1>8. RolloutFollows' /\ QueueFollows'
  BY <1>1, <1>2 DEF RolloutFollows, QueueFollows
<1>9. RequestFollows' /\ GuardFollows' /\ AskFollows'
  BY <1>1, <1>2 DEF RequestFollows, GuardFollows, AskFollows
<1> QED
  BY <1>5, <1>6, <1>7, <1>8, <1>9 DEF IInv, StepsFollow, LeasesFollow, PrunesFollow

-----------------------------------------------------------------------------
(* The publication of a step.                                              *)

LEMMA PubFails ==
    ASSUME IInv, NEW s \in Steps, pub[s] \in {"moving", "served"},
           pub' = [pub EXCEPT ![s] = "failing"], faults' \in 0..MaxFaults,
           UNCHANGED <<pipelineVars, written, serviceVars, serve, clientVars>>
    PROVE  IInv'
<1>1. TypeOK /\ LearnerAhead /\ PubsFollow /\ PostFollows /\ QueueFollows /\ AskFollows
      /\ EvalFollows /\ RolloutFollows /\ RequestFollows /\ GuardFollows
  BY DEF IInv, StepsFollow, LeasesFollow, PrunesFollow
<1>2. /\ UNCHANGED <<trainer, latest, policy, post, train, written, failure, serving,
                     endpoint, serve, leases, rollout, eval, prune>>
      /\ UNCHANGED Service
  BY DEF pipelineVars, serviceVars, clientVars, Service
<1>3. pub'[s] = "failing" /\ \A s2 \in Steps : s2 # s => pub'[s2] = pub[s2]
  BY <1>1 DEF TypeOK
<1>4. TypeOK'
  <2>1. pub' \in [Steps -> {"none", "moving", "queued", "served",
                            "failing", "reported", "failed"}]
    BY <1>1 DEF TypeOK
  <2> QED
    BY <1>1, <1>2, <2>1 DEF TypeOK, Service
<1>5. LearnerAhead' /\ PostFollows' /\ PubsFollow'
  BY <1>1, <1>2, <1>3 DEF LearnerAhead, PostFollows, PubsFollow
<1>6. EvalFollows' /\ RolloutFollows' /\ AskFollows'
  BY <1>1, <1>2 DEF EvalFollows, RolloutFollows, AskFollows
<1>7. QueueFollows'
  BY <1>1, <1>2, <1>3 DEF QueueFollows
<1>8. \A s2 \in Steps : pub'[s2] = "queued" => pub[s2] = "queued"
  BY <1>3
<1>9. QuietQueue
  BY <1>1, <1>2, QueueIsQuiet
<1>10. RequestFollows' /\ GuardFollows'
  BY <1>1, <1>2, <1>8, <1>9, RequestStays, GuardStays
<1> QED
  BY <1>4, <1>5, <1>6, <1>7, <1>10 DEF IInv, StepsFollow, LeasesFollow, PrunesFollow

LEMMA PubLosesKeeps ==
    ASSUME IInv, NEW s \in Steps, PubLoses(s)
    PROVE  IInv'
<1>1. faults' \in 0..MaxFaults
  BY PublicationAssumption DEF IInv, StepsFollow, TypeOK, PubLoses
<1> QED
  BY <1>1, PubFails DEF PubLoses, Advance

LEMMA PubUndurableKeeps ==
    ASSUME IInv, NEW s \in Steps, PubUndurable(s)
    PROVE  IInv'
<1>1. faults' \in 0..MaxFaults
  BY DEF IInv, StepsFollow, TypeOK, PubUndurable
<1> QED
  BY <1>1, PubFails DEF PubUndurable, Advance

(* A step is activated once the one before is served.  No request is left  *)
(* then unless a prune waits, and what is asked next is later than that.   *)
LEMMA PubActivatesKeeps ==
    ASSUME IInv, NEW s \in Steps, PubActivates(s)
    PROVE  IInv'
<1>1. TypeOK /\ LearnerAhead /\ PubsFollow /\ PostFollows /\ QueueFollows /\ AskFollows
      /\ EvalFollows /\ RolloutFollows /\ RequestFollows /\ GuardFollows
  BY DEF IInv, StepsFollow, LeasesFollow, PrunesFollow
<1>2. CASE failure
  <2>1. faults' \in 0..MaxFaults
    BY <1>1 DEF TypeOK, PubActivates
  <2> QED
    BY <1>2, <2>1, PubFails DEF PubActivates, Advance
<1>3. CASE ~failure
  <2>1. /\ UNCHANGED <<trainer, latest, policy, post, train, written, failure, serving,
                       endpoint, leases, rollout, eval, prune, faults>>
        /\ UNCHANGED Service
        /\ pub[s] = "moving" /\ Settled(s - 1)
        /\ pub' = [pub EXCEPT ![s] = "queued"]
        /\ serve' = Append(serve, Publication(s))
    BY <1>3 DEF PubActivates, Advance, pipelineVars, serviceVars, clientVars, Service
  <2>2. /\ pub'[s] = "queued" /\ \A s2 \in Steps : s2 # s => pub'[s2] = pub[s2]
        /\ s \in Nat /\ serving \in Nat /\ policy \in Nat
    BY <1>1, <2>1, TypeFacts DEF TypeOK
  <2>3. s = serving + 1
    <3>1. s > serving
      BY <1>1, <2>1 DEF PubsFollow
    <3>2. ~(s - 1 \in Steps /\ pub[s - 1] \in {"reported", "failed"})
      BY <1>1, <1>3 DEF PubsFollow
    <3>3. s - 1 <= serving
      BY <2>1, <3>2 DEF Settled
    <3> QED
      BY <2>2, <3>1, <3>3
  <2>4. /\ Publication(s) \in Holders /\ Publication(s) \in Named
        /\ Publication(s) # Pruning /\ Publication(s) \notin Workers
        /\ \A s2 \in Steps : Publication(s) = Publication(s2) => s = s2
    BY TasksDiffer DEF Holders
  <2>5. /\ serve' \in Seq(Holders)
        /\ \A r : Within(serve', r) <=> Within(serve, r) \/ r = Publication(s)
        /\ \A r, u : Before(serve', r, u) <=>
                        Before(serve, r, u) \/ (Within(serve, r) /\ u = Publication(s))
    BY <1>1, <2>1, <2>4, TypeFacts, AppendQueue
  <2>6. ~Within(serve, Publication(s))
    BY <1>1, <2>1 DEF QueueFollows
  <2>7. TypeOK'
    <3>1. pub' \in [Steps -> {"none", "moving", "queued", "served",
                              "failing", "reported", "failed"}]
      BY <1>1, <2>1 DEF TypeOK
    <3> QED
      BY <1>1, <2>1, <2>5, <3>1 DEF TypeOK, Service, Holders
  <2>8. LearnerAhead' /\ PostFollows'
    BY <1>1, <2>1 DEF LearnerAhead, PostFollows
  <2>9. PubsFollow'
    BY <1>1, <2>1, <2>2, <2>3 DEF PubsFollow
  <2>10. EvalFollows' /\ RolloutFollows' /\ AskFollows'
    BY <1>1, <2>1 DEF EvalFollows, RolloutFollows, AskFollows
  <2>11. QueueFollows'
    <3>1. \A p \in Named : ~Before(serve', p, p)
      BY <1>1, <2>5, <2>6 DEF QueueFollows
    <3>2. \A w \in Workers : Within(serve', w) <=> rollout'[w].pc = "asking"
      BY <1>1, <2>1, <2>4, <2>5 DEF QueueFollows
    <3>3. Within(serve', Pruning) <=> prune'.pc = "queued"
      BY <1>1, <2>1, <2>4, <2>5 DEF QueueFollows
    <3>4. \A s2 \in Steps : Within(serve', Publication(s2)) => pub'[s2] \in {"queued", "reported"}
      BY <1>1, <2>2, <2>4, <2>5 DEF QueueFollows
    <3> QED
      BY <3>1, <3>2, <3>3, <3>4 DEF QueueFollows
  <2>12. RequestFollows'
    <3>1. ASSUME endpoint = "up", prune.request # None
          PROVE  s <= prune.request
      <4>1. prune.pc = "queued"
        BY <1>1, <2>1, <3>1 DEF PubActivates, Ready, TypeOK
      <4>2. PICK R \in Nat : PruneOf(R)
        BY <1>1, <3>1, <4>1 DEF GuardFollows
      <4>3. serving <= R /\ R < prune.request /\ prune.request \in Nat
        BY <1>1, <3>1, <4>2, TypeFacts DEF PruneOf
      <4> QED
        BY <2>2, <2>3, <4>3
    <3> QED
      BY <1>1, <2>1, <2>2, <3>1 DEF RequestFollows
  <2>13. GuardFollows'
    <3> SUFFICES ASSUME endpoint = "up", prune.pc = "queued"
                 PROVE  \E R \in Nat : PruneOf(R)'
      BY <2>1 DEF GuardFollows
    <3>1. PICK R \in Nat : PruneOf(R)
      BY <1>1 DEF GuardFollows
    <3>2. LeasedSteps' = LeasedSteps /\ Retained(R)' = Retained(R)
      BY <2>1 DEF LeasedSteps, Retained
    <3>3. \A s2 \in Steps : pub'[s2] = "queued" /\ Before(serve', Publication(s2), Pruning) =>
             s2 # s /\ pub[s2] = "queued" /\ Before(serve, Publication(s2), Pruning)
      <4>1. ~Before(serve, Publication(s), Pruning)
        BY <2>6 DEF Before, Within
      <4> QED
        BY <2>2, <2>4, <2>5, <4>1
    <3>4. \A w \in Workers : Before(serve', Pruning, w) => Before(serve, Pruning, w)
      BY <2>4, <2>5
    <3>5. PruneOf(R)'
      BY <2>1, <3>1, <3>2, <3>3, <3>4 DEF PruneOf
    <3> QED
      BY <3>5
  <2> QED
    BY <2>7, <2>8, <2>9, <2>10, <2>11, <2>12, <2>13
       DEF IInv, StepsFollow, LeasesFollow, PrunesFollow
<1> QED
  BY <1>2, <1>3

(* The step served is the next one, and no prune for an earlier step waits.*)
LEMMA PubServesKeeps ==
    ASSUME IInv, NEW s \in Steps, PubServes(s)
    PROVE  IInv'
<1>1. TypeOK /\ LearnerAhead /\ PubsFollow /\ PostFollows /\ QueueFollows /\ AskFollows
      /\ EvalFollows /\ RolloutFollows /\ RequestFollows /\ GuardFollows
  BY DEF IInv, StepsFollow, LeasesFollow, PrunesFollow
<1>2. /\ UNCHANGED <<trainer, latest, policy, post, train, written, failure, endpoint,
                     manager, exact, restored, leases, rollout, eval, prune, faults>>
      /\ pub[s] = "queued" /\ serve # <<>> /\ Head(serve) = Publication(s)
      /\ endpoint = "up" => ~Ready
      /\ pub' = [pub EXCEPT ![s] = "served"]
      /\ serve' = Tail(serve) /\ serving' = s
      /\ loaded' \subseteq loaded \cup {s} /\ engine' \subseteq engine \cup {s}
  BY DEF PubServes, Advance, Holds, pipelineVars, clientVars
<1>3. /\ pub'[s] = "served" /\ \A s2 \in Steps : s2 # s => pub'[s2] = pub[s2]
      /\ s = serving + 1 /\ s <= latest /\ s \in Nat /\ serving \in Nat /\ latest \in Nat
      /\ \A s2 \in Steps : s2 \in Nat
  <2>1. DOMAIN pub = Steps
    BY <1>1 DEF TypeOK
  <2>2. pub'[s] = "served" /\ \A s2 \in Steps : s2 # s => pub'[s2] = pub[s2]
    BY <1>2, <2>1
  <2>3. serving \in Nat /\ latest \in Nat /\ \A s2 \in Steps : s2 \in Nat
    BY <1>1, TypeFacts
  <2>4. s = serving + 1 /\ s <= latest
    BY <1>1, <1>2, <2>3 DEF PubsFollow
  <2> QED
    BY <2>2, <2>3, <2>4
<1>4. /\ Publication(s) \in Named /\ Publication(s) # Pruning
      /\ Publication(s) \notin Workers
      /\ \A s2 \in Steps : /\ Publication(s2) \in Named
                           /\ Publication(s) = Publication(s2) => s = s2
  BY TasksDiffer
<1>5. /\ serve' \in Seq(Holders)
      /\ \A r : Within(serve', r) => Within(serve, r)
      /\ \A r : Within(serve, r) /\ r # Publication(s) =>
                   Within(serve', r) /\ Before(serve, Publication(s), r)
      /\ ~Within(serve', Publication(s))
      /\ \A r, u : Before(serve', r, u) => Before(serve, r, u)
  <2>1. serve \in Seq(Holders) /\ ~Before(serve, Publication(s), Publication(s))
    BY <1>1, <1>4, TypeFacts DEF QueueFollows
  <2> QED
    BY <1>2, <2>1, TailQueue
<1>6. TypeOK'
  <2>1. pub' \in [Steps -> {"none", "moving", "queued", "served",
                            "failing", "reported", "failed"}]
    BY <1>1, <1>2 DEF TypeOK
  <2>2. /\ latest <= serving' + 2 /\ serving' \in 0..latest
        /\ loaded' \cup exact' \cup engine' \subseteq 0..latest /\ restored \in 0..serving'
    BY <1>1, <1>2, <1>3 DEF TypeOK
  <2>3. serve' \in Seq(Workers \cup Tasks)
    BY <1>5 DEF Holders
  <2> QED
    BY <1>1, <1>2, <2>1, <2>2, <2>3 DEF TypeOK
<1>7. LearnerAhead' /\ PostFollows'
  BY <1>1, <1>2, <1>3 DEF LearnerAhead, PostFollows
<1>8. PubsFollow'
  BY <1>1, <1>2, <1>3 DEF PubsFollow
<1>9. EvalFollows'
  BY <1>1, <1>2 DEF EvalFollows
<1>10. RolloutFollows'
  <2>1. \A w \in Workers : rollout[w].step \in Nat
    BY <1>1, TypeFacts
  <2> QED
    BY <1>1, <1>2, <1>3, <2>1 DEF RolloutFollows
<1>11. QueueFollows'
  <2>1. \A p \in Named : ~Before(serve', p, p)
    BY <1>1, <1>5 DEF QueueFollows
  <2>2. \A w \in Workers : Within(serve', w) <=> rollout'[w].pc = "asking"
    BY <1>1, <1>2, <1>4, <1>5 DEF QueueFollows
  <2>3. Within(serve', Pruning) <=> prune'.pc = "queued"
    BY <1>1, <1>2, <1>4, <1>5 DEF QueueFollows
  <2>4. \A s2 \in Steps : Within(serve', Publication(s2)) => pub'[s2] \in {"queued", "reported"}
    BY <1>1, <1>3, <1>4, <1>5 DEF QueueFollows
  <2> QED
    BY <2>1, <2>2, <2>3, <2>4 DEF QueueFollows
<1>12. RequestFollows'
  BY <1>1, <1>2, <1>3 DEF RequestFollows
<1>13. GuardFollows'
  <2> SUFFICES ASSUME endpoint = "up", prune.pc = "queued"
               PROVE  \E R \in Nat : PruneOf(R)'
    BY <1>2 DEF GuardFollows
  <2>1. PICK R \in Nat : PruneOf(R)
    BY <1>1 DEF GuardFollows
  <2>2. LeasedSteps' = LeasedSteps /\ Retained(R)' = Retained(R)
    BY <1>2 DEF LeasedSteps, Retained
  <2>3. Before(serve, Publication(s), Pruning)
    BY <1>1, <1>4, <1>5 DEF QueueFollows
  <2>4. s <= R
    BY <1>2, <2>1, <2>3 DEF PruneOf
  <2>5. \A s2 \in Steps : pub'[s2] = "queued" /\ Before(serve', Publication(s2), Pruning) =>
           pub[s2] = "queued" /\ Before(serve, Publication(s2), Pruning)
    BY <1>3, <1>5
  <2>6. \A w \in Workers : Before(serve', Pruning, w) => Before(serve, Pruning, w)
    BY <1>5
  <2>7. PruneOf(R)'
    BY <1>2, <2>1, <2>2, <2>4, <2>5, <2>6 DEF PruneOf
  <2> QED
    BY <2>7
<1>14. AskFollows'
  <2>1. ASSUME endpoint = "up", NEW w \in Workers, rollout[w].pc = "waiting"
        PROVE  rollout[w].step >= s
    <3>1. ~Settled(rollout[w].step)
      BY <1>2, <2>1 DEF Ready
    <3>2. rollout[w].step > serving /\ rollout[w].step \in Nat
      BY <1>1, <1>3, <3>1, TypeFacts DEF Settled
    <3> QED
      BY <1>3, <3>2
  <2> QED
    BY <1>1, <1>2, <2>1 DEF AskFollows
<1> QED
  BY <1>6, <1>7, <1>8, <1>9, <1>10, <1>11, <1>12, <1>13, <1>14
     DEF IInv, StepsFollow, LeasesFollow, PrunesFollow

(* The service is torn down, and nothing is asked of the engine any more.  *)
LEMMA PubStops ==
    ASSUME IInv, NEW s \in Steps, NEW pc \in {"failing", "failed"},
           pc = "failed" => failure,
           pub[s] \in {"queued", "reported"}, Holds(serve, Publication(s)),
           pub' = [pub EXCEPT ![s] = pc], serve' = Tail(serve), Cleared,
           faults' \in 0..MaxFaults,
           UNCHANGED <<pipelineVars, written, failure, serving, restored, clientVars>>
    PROVE  IInv'
<1>1. TypeOK /\ LearnerAhead /\ PubsFollow /\ PostFollows /\ QueueFollows
      /\ EvalFollows /\ RolloutFollows /\ RequestFollows
  BY DEF IInv, StepsFollow, LeasesFollow, PrunesFollow
<1>2. /\ UNCHANGED <<trainer, latest, policy, post, train, written, failure, serving,
                     restored, leases, rollout, eval, prune>>
      /\ endpoint' = "cleared" /\ manager' = "stopped"
      /\ engine' = {} /\ loaded' = {} /\ exact' = {}
      /\ serve # <<>> /\ Head(serve) = Publication(s)
  BY DEF pipelineVars, clientVars, Cleared, Holds
<1>3. pub'[s] = pc /\ \A s2 \in Steps : s2 # s => pub'[s2] = pub[s2]
  BY <1>1 DEF TypeOK
<1>4. /\ Publication(s) \in Named /\ Publication(s) # Pruning
      /\ Publication(s) \notin Workers
      /\ \A s2 \in Steps : Publication(s) = Publication(s2) => s = s2
  BY TasksDiffer
<1>5. /\ serve' \in Seq(Holders)
      /\ \A r : Within(serve', r) => Within(serve, r)
      /\ \A r : Within(serve, r) /\ r # Publication(s) => Within(serve', r)
      /\ ~Within(serve', Publication(s))
      /\ \A r, u : Before(serve', r, u) => Before(serve, r, u)
  <2>1. serve \in Seq(Holders) /\ ~Before(serve, Publication(s), Publication(s))
    BY <1>1, <1>4, TypeFacts DEF QueueFollows
  <2> QED
    BY <1>2, <2>1, TailQueue
<1>6. TypeOK'
  <2>1. pub' \in [Steps -> {"none", "moving", "queued", "served",
                            "failing", "reported", "failed"}]
    BY <1>1 DEF TypeOK
  <2>2. serve' \in Seq(Workers \cup Tasks)
    BY <1>5 DEF Holders
  <2> QED
    BY <1>1, <1>2, <2>1, <2>2 DEF TypeOK
<1>7. LearnerAhead' /\ PostFollows' /\ PubsFollow'
  BY <1>1, <1>2, <1>3 DEF LearnerAhead, PostFollows, PubsFollow
<1>8. EvalFollows' /\ RolloutFollows'
  BY <1>1, <1>2 DEF EvalFollows, RolloutFollows
<1>9. QueueFollows'
  <2>1. \A p \in Named : ~Before(serve', p, p)
    BY <1>1, <1>5 DEF QueueFollows
  <2>2. \A w \in Workers : Within(serve', w) <=> rollout'[w].pc = "asking"
    BY <1>1, <1>2, <1>4, <1>5 DEF QueueFollows
  <2>3. Within(serve', Pruning) <=> prune'.pc = "queued"
    BY <1>1, <1>2, <1>4, <1>5 DEF QueueFollows
  <2>4. \A s2 \in Steps : Within(serve', Publication(s2)) => pub'[s2] \in {"queued", "reported"}
    BY <1>1, <1>3, <1>4, <1>5 DEF QueueFollows
  <2> QED
    BY <2>1, <2>2, <2>3, <2>4 DEF QueueFollows
<1>10. RequestFollows' /\ GuardFollows' /\ AskFollows'
  BY <1>1, <1>2 DEF RequestFollows, GuardFollows, AskFollows
<1> QED
  BY <1>6, <1>7, <1>8, <1>9, <1>10 DEF IInv, StepsFollow, LeasesFollow, PrunesFollow

LEMMA PubRefusedKeeps ==
    ASSUME IInv, NEW s \in Steps, PubRefused(s)
    PROVE  IInv'
<1>1. faults' \in 0..MaxFaults
  BY PublicationAssumption DEF IInv, StepsFollow, TypeOK, PubRefused
<1> QED
  BY <1>1, PubStops DEF PubRefused, Advance

LEMMA PubTearsDownKeeps ==
    ASSUME IInv, NEW s \in Steps, PubTearsDown(s)
    PROVE  IInv'
<1>1. faults' \in 0..MaxFaults
  BY DEF IInv, StepsFollow, TypeOK, PubTearsDown
<1>2. pub[s] = "reported" /\ failure
  BY DEF IInv, StepsFollow, TypeOK, PubsFollow, PubTearsDown
<1> QED
  BY <1>1, <1>2, PubStops DEF PubTearsDown, Advance

LEMMA PubReportsKeeps ==
    ASSUME IInv, NEW s \in Steps, PubReports(s)
    PROVE  IInv'
<1>1. TypeOK /\ LearnerAhead /\ PubsFollow /\ PostFollows /\ QueueFollows /\ AskFollows
      /\ EvalFollows /\ RolloutFollows /\ RequestFollows /\ GuardFollows
  BY DEF IInv, StepsFollow, LeasesFollow, PrunesFollow
<1>2. /\ UNCHANGED <<trainer, latest, policy, post, train, written, serving, endpoint,
                     manager, engine, loaded, exact, restored, leases, rollout, eval,
                     prune, faults>>
      /\ failure' = TRUE /\ pub[s] = "failing"
      /\ pub' = [pub EXCEPT ![s] = "reported"]
      /\ serve' = Append(serve, Publication(s))
  BY DEF PubReports, Advance, pipelineVars, clientVars
<1>3. pub'[s] = "reported" /\ \A s2 \in Steps : s2 # s => pub'[s2] = pub[s2]
  BY <1>1, <1>2 DEF TypeOK
<1>4. /\ Publication(s) \in Holders /\ Publication(s) \in Named
      /\ Publication(s) # Pruning /\ Publication(s) \notin Workers
      /\ \A s2 \in Steps : Publication(s) = Publication(s2) => s = s2
  BY TasksDiffer DEF Holders
<1>5. /\ serve' \in Seq(Holders)
      /\ \A r : Within(serve', r) <=> Within(serve, r) \/ r = Publication(s)
      /\ \A r, u : Before(serve', r, u) <=>
                      Before(serve, r, u) \/ (Within(serve, r) /\ u = Publication(s))
  BY <1>1, <1>2, <1>4, TypeFacts, AppendQueue
<1>6. ~Within(serve, Publication(s))
  BY <1>1, <1>2 DEF QueueFollows
<1>7. TypeOK'
  <2>1. pub' \in [Steps -> {"none", "moving", "queued", "served",
                            "failing", "reported", "failed"}]
    BY <1>1, <1>2 DEF TypeOK
  <2> QED
    BY <1>1, <1>2, <1>5, <2>1 DEF TypeOK, Holders
<1>8. LearnerAhead' /\ PostFollows' /\ PubsFollow'
  BY <1>1, <1>2, <1>3 DEF LearnerAhead, PostFollows, PubsFollow
<1>9. EvalFollows' /\ RolloutFollows' /\ AskFollows'
  BY <1>1, <1>2 DEF EvalFollows, RolloutFollows, AskFollows
<1>10. QueueFollows'
  <2>1. \A p \in Named : ~Before(serve', p, p)
    BY <1>1, <1>5, <1>6 DEF QueueFollows
  <2>2. \A w \in Workers : Within(serve', w) <=> rollout'[w].pc = "asking"
    BY <1>1, <1>2, <1>4, <1>5 DEF QueueFollows
  <2>3. Within(serve', Pruning) <=> prune'.pc = "queued"
    BY <1>1, <1>2, <1>4, <1>5 DEF QueueFollows
  <2>4. \A s2 \in Steps : Within(serve', Publication(s2)) => pub'[s2] \in {"queued", "reported"}
    BY <1>1, <1>3, <1>4, <1>5 DEF QueueFollows
  <2> QED
    BY <2>1, <2>2, <2>3, <2>4 DEF QueueFollows
<1>11. \A s2 \in Steps : pub'[s2] = "queued" => pub[s2] = "queued"
  BY <1>3
<1>12. RequestFollows'
  BY <1>1, <1>2, <1>11, RequestStays
<1>13. GuardFollows'
  <2> SUFFICES ASSUME endpoint = "up", prune.pc = "queued"
               PROVE  \E R \in Nat : PruneOf(R)'
    BY <1>2 DEF GuardFollows
  <2>1. PICK R \in Nat : PruneOf(R)
    BY <1>1 DEF GuardFollows
  <2>2. LeasedSteps' = LeasedSteps /\ Retained(R)' = Retained(R)
    BY <1>2 DEF LeasedSteps, Retained
  <2>3. \A s2 \in Steps : Before(serve', Publication(s2), Pruning) =>
           Before(serve, Publication(s2), Pruning)
    BY <1>4, <1>5
  <2>4. \A w \in Workers : Before(serve', Pruning, w) => Before(serve, Pruning, w)
    BY <1>4, <1>5
  <2>5. PruneOf(R)'
    BY <1>2, <1>11, <2>1, <2>2, <2>3, <2>4 DEF PruneOf
  <2> QED
    BY <2>5
<1> QED
  BY <1>7, <1>8, <1>9, <1>10, <1>12, <1>13
     DEF IInv, StepsFollow, LeasesFollow, PrunesFollow

-----------------------------------------------------------------------------
(* The replica.                                                            *)

LEMMA ReplicaMoves ==
    ASSUME IInv, QuietQueue,
           UNCHANGED <<trainer, latest, policy, post, pub, written, failure, serving,
                       leases, rollout, eval, prune>>,
           endpoint' \in {endpoint, "unpublished"},
           manager' \in {"ready", "quarantined", "stopped"},
           loaded' \cup exact' \cup engine' \subseteq 0..latest, restored' \in 0..serving,
           train' \in {"trainer", "recovery", None}, faults' \in 0..MaxFaults
    PROVE  IInv'
<1>1. TypeOK /\ LearnerAhead
  BY DEF IInv, StepsFollow
<1>2. TypeOK'
  <2>1. serve' \in Seq(Workers \cup Tasks)
    BY DEF QuietQueue, Holders
  <2> QED
    BY <1>1, <2>1 DEF TypeOK
<1>3. LearnerAhead'
  BY <1>1 DEF LearnerAhead
<1> QED
  BY <1>2, <1>3, AllStays

LEMMA ReplicaFailsKeeps ==
    ASSUME IInv, ReplicaFails
    PROVE  IInv'
<1>1. TypeOK /\ MaxFaults \in Nat
  BY PublicationAssumption DEF IInv, StepsFollow
<1>2. /\ UNCHANGED <<trainer, latest, policy, post, train, pub, written, failure, serving,
                     endpoint, loaded, exact, restored, serve, leases, rollout, eval, prune>>
      /\ manager' = "quarantined" /\ engine' = {} /\ faults < MaxFaults /\ faults' = faults + 1
  BY DEF ReplicaFails, pipelineVars, clientVars
<1>3. QuietQueue
  BY <1>1, <1>2, QueueIsQuiet
<1>4. /\ loaded' \cup exact' \cup engine' \subseteq 0..latest /\ restored' \in 0..serving
      /\ train' \in {"trainer", "recovery", None} /\ faults' \in 0..MaxFaults
  BY <1>1, <1>2 DEF TypeOK
<1> QED
  BY <1>2, <1>3, <1>4, ReplicaMoves

LEMMA RecoverStartKeeps ==
    ASSUME IInv, RecoverStart
    PROVE  IInv'
<1>1. TypeOK
  BY DEF IInv, StepsFollow
<1>2. /\ UNCHANGED <<trainer, latest, policy, post, pub, written, failure, serving,
                     endpoint, manager, engine, loaded, exact, restored, leases, rollout,
                     eval, prune, faults>>
      /\ serve' = Append(serve, Recovery) /\ train' = "recovery"
  BY DEF RecoverStart, serviceVars, clientVars
<1>3. QuietQueue
  BY <1>1, <1>2, QueueIsQuiet
<1>4. /\ loaded' \cup exact' \cup engine' \subseteq 0..latest /\ restored' \in 0..serving
      /\ manager' \in {"ready", "quarantined", "stopped"} /\ faults' \in 0..MaxFaults
  BY <1>1, <1>2 DEF TypeOK
<1> QED
  BY <1>2, <1>3, <1>4, ReplicaMoves

LEMMA RecoverSkipsKeeps ==
    ASSUME IInv, RecoverSkips
    PROVE  IInv'
<1>1. TypeOK
  BY DEF IInv, StepsFollow
<1>2. /\ UNCHANGED <<trainer, latest, policy, post, pub, written, failure, serving,
                     endpoint, manager, engine, loaded, exact, restored, leases, rollout,
                     eval, prune, faults>>
      /\ Holds(serve, Recovery) /\ serve' = Tail(serve) /\ train' = None
  BY DEF RecoverSkips, serviceVars, clientVars
<1>3. QuietQueue
  BY <1>1, <1>2, QueueIsQuiet
<1>4. /\ loaded' \cup exact' \cup engine' \subseteq 0..latest /\ restored' \in 0..serving
      /\ manager' \in {"ready", "quarantined", "stopped"} /\ faults' \in 0..MaxFaults
  BY <1>1, <1>2 DEF TypeOK
<1> QED
  BY <1>2, <1>3, <1>4, ReplicaMoves

LEMMA RecoverRestartsKeeps ==
    ASSUME IInv, RecoverRestarts
    PROVE  IInv'
<1>1. TypeOK
  BY DEF IInv, StepsFollow
<1>2. /\ UNCHANGED <<trainer, latest, policy, post, pub, written, failure, serving,
                     endpoint, exact, leases, rollout, eval, prune, faults>>
      /\ Holds(serve, Recovery) /\ serve' = Tail(serve) /\ train' = None
      /\ manager' = "ready" /\ engine' = {serving} \cup exact /\ loaded' = {serving}
      /\ restored' = serving
  BY DEF RecoverRestarts, clientVars
<1>3. QuietQueue
  BY <1>1, <1>2, QueueIsQuiet
<1>4. /\ loaded' \cup exact' \cup engine' \subseteq 0..latest /\ restored' \in 0..serving
      /\ manager' \in {"ready", "quarantined", "stopped"} /\ faults' \in 0..MaxFaults
  BY <1>1, <1>2 DEF TypeOK
<1> QED
  BY <1>2, <1>3, <1>4, ReplicaMoves

LEMMA RecoverFailsKeeps ==
    ASSUME IInv, RecoverFails
    PROVE  IInv'
<1>1. TypeOK /\ MaxFaults \in Nat
  BY PublicationAssumption DEF IInv, StepsFollow
<1>2. /\ UNCHANGED <<trainer, latest, policy, post, pub, written, failure, serving,
                     engine, restored, leases, rollout, eval, prune>>
      /\ Holds(serve, Recovery) /\ serve' = Tail(serve) /\ train' = None
      /\ manager' = "stopped" /\ endpoint' = "unpublished" /\ loaded' = {} /\ exact' = {}
      /\ faults' = faults \/ (faults < MaxFaults /\ faults' = faults + 1)
  BY DEF RecoverFails, clientVars
<1>3. QuietQueue
  BY <1>1, <1>2, QueueIsQuiet
<1>4. /\ loaded' \cup exact' \cup engine' \subseteq 0..latest /\ restored' \in 0..serving
      /\ manager' \in {"ready", "quarantined", "stopped"} /\ faults' \in 0..MaxFaults
  BY <1>1, <1>2 DEF TypeOK
<1> QED
  BY <1>2, <1>3, <1>4, ReplicaMoves

-----------------------------------------------------------------------------
(* The rollouts.                                                           *)

(* The serving lock after a step of worker w.                              *)
QueueOf(w, pc) ==
    /\ serve' \in Seq(Holders)
    /\ \A r \in Named \ {w} : /\ Within(serve', r) <=> Within(serve, r)
                              /\ \A p : Before(serve', p, r) => Before(serve, p, r)
    /\ Within(serve', w) <=> pc = "asking"
    /\ ~Before(serve', w, w)

LEMMA RolloutMoves ==
    ASSUME IInv, NEW w \in Workers,
           NEW pc \in {"idle", "asking", "waiting", "leasing", "running"},
           NEW step \in 0..policy,
           rollout' = [rollout EXCEPT ![w] = [pc |-> pc, step |-> step]],
           UNCHANGED <<pipelineVars, pub, written, serviceVars, eval, prune, faults>>,
           leases' \subseteq leases \cup {<<w, step>>},
           leases \subseteq leases' \cup {<<w, rollout[w].step>>},
           pc = "running" => <<w, step>> \in leases',
           prune.pc = "queued" => leases' = leases,
           pc \in {"leasing", "running"} => step <= serving,
           pc = "waiting" => step >= serving,
           pc = "asking" => step = policy,
           QueueOf(w, pc),
           endpoint = "up" /\ prune.pc = "queued" =>
              \A R \in Nat : PruneOf(R) /\ pc = "leasing" => step >= R - 2
    PROVE  IInv'
<1>1. TypeOK /\ LearnerAhead /\ PubsFollow /\ PostFollows /\ QueueFollows /\ AskFollows
      /\ EvalFollows /\ RolloutFollows /\ RequestFollows /\ GuardFollows
  BY DEF IInv, StepsFollow, LeasesFollow, PrunesFollow
<1>2. /\ UNCHANGED <<trainer, latest, policy, post, train, pub, written, failure, serving,
                     endpoint, eval, prune, faults>>
      /\ UNCHANGED Service
  BY DEF pipelineVars, serviceVars, Service
<1>3. /\ rollout'[w].pc = pc /\ rollout'[w].step = step
      /\ \A v \in Workers : v # w => rollout'[v] = rollout[v]
      /\ policy \in Nat /\ step \in Nat /\ serving \in Nat /\ latest \in Nat
      /\ step <= policy /\ policy <= latest /\ latest <= policy + 1
  BY <1>1, TypeFacts DEF TypeOK
<1>4. /\ w \notin Tasks /\ w \in Named /\ Pruning \in Named \ {w}
      /\ \A s \in Steps : Publication(s) \in Named \ {w}
      /\ \A v \in Workers : v # w => v \in Named \ {w}
  BY TasksDiffer DEF Named
<1>5. TypeOK'
  <2>1. rollout' \in [Workers -> [pc : {"idle", "asking", "waiting", "leasing", "running"},
                                  step : 0..policy]]
    BY <1>1 DEF TypeOK
  <2>2. leases' \subseteq (Workers \cup {"scheduled", "eval"}) \X (0..policy)
    BY <1>1 DEF TypeOK
  <2>3. serve' \in Seq(Workers \cup Tasks)
    BY DEF QueueOf, Holders
  <2> QED
    BY <1>1, <1>2, <2>1, <2>2, <2>3 DEF TypeOK, Service
<1>6. LearnerAhead' /\ PostFollows' /\ PubsFollow'
  BY <1>1, <1>2 DEF LearnerAhead, PostFollows, PubsFollow
<1>7. EvalFollows'
  <2>1. \A t : <<"scheduled", t>> \in leases => <<"scheduled", t>> \in leases'
    BY PublicationAssumption
  <2> QED
    BY <1>1, <1>2, <2>1 DEF EvalFollows
<1>8. RolloutFollows'
  BY <1>1, <1>2, <1>3 DEF RolloutFollows
<1>9. QueueFollows'
  <2>1. \A p \in Named : ~Before(serve', p, p)
    BY <1>1 DEF QueueFollows, QueueOf
  <2>2. \A v \in Workers : Within(serve', v) <=> rollout'[v].pc = "asking"
    BY <1>1, <1>3, <1>4 DEF QueueFollows, QueueOf
  <2>3. Within(serve', Pruning) <=> prune'.pc = "queued"
    BY <1>1, <1>2, <1>4 DEF QueueFollows, QueueOf
  <2>4. \A s \in Steps : Within(serve', Publication(s)) => pub'[s] \in {"queued", "reported"}
    BY <1>1, <1>2, <1>4 DEF QueueFollows, QueueOf
  <2> QED
    BY <2>1, <2>2, <2>3, <2>4 DEF QueueFollows
<1>10. RequestFollows'
  BY <1>1, <1>2 DEF RequestFollows
<1>11. GuardFollows'
  <2> SUFFICES ASSUME endpoint = "up", prune.pc = "queued"
               PROVE  \E R \in Nat : PruneOf(R)'
    BY <1>2 DEF GuardFollows
  <2>1. PICK R \in Nat : PruneOf(R)
    BY <1>1 DEF GuardFollows
  <2>2. LeasedSteps' = LeasedSteps /\ Retained(R)' = Retained(R)
    BY <1>2 DEF LeasedSteps, Retained
  <2>3. \A s \in Steps : Before(serve', Publication(s), Pruning) =>
           Before(serve, Publication(s), Pruning)
    BY <1>4 DEF QueueOf
  <2>4. R <= policy
    BY <2>1 DEF PruneOf
  <2>5. \A v \in Workers : rollout'[v].pc \in {"asking", "leasing"} =>
           rollout'[v].step >= R - 2
    BY <1>3, <2>1, <2>4 DEF PruneOf
  <2>6. \A v \in Workers : Before(serve', Pruning, v) => rollout'[v].step >= R
    <3>1. ASSUME Before(serve', Pruning, w) PROVE pc = "asking"
      BY <3>1 DEF QueueOf, Before, Within
    <3>2. \A v \in Workers : v # w /\ Before(serve', Pruning, v) => Before(serve, Pruning, v)
      BY <1>4 DEF QueueOf
    <3> QED
      BY <1>3, <2>1, <2>4, <3>1, <3>2 DEF PruneOf
  <2>7. PruneOf(R)'
    BY <1>2, <2>1, <2>2, <2>3, <2>5, <2>6 DEF PruneOf
  <2> QED
    BY <2>7
<1>12. AskFollows'
  BY <1>1, <1>2, <1>3 DEF AskFollows
<1> QED
  BY <1>5, <1>6, <1>7, <1>8, <1>9, <1>10, <1>11, <1>12
     DEF IInv, StepsFollow, LeasesFollow, PrunesFollow

(* The queue of a worker that does not ask, did not, or leaves its head.   *)
LEMMA QueueStaysOf ==
    ASSUME IInv, NEW w \in Workers, rollout[w].pc # "asking", UNCHANGED serve,
           NEW pc, pc # "asking"
    PROVE  QueueOf(w, pc)
<1>1. TypeOK /\ QueueFollows /\ w \in Named
  BY TasksDiffer DEF IInv, StepsFollow, LeasesFollow, Named
<1> QED
  BY <1>1, TypeFacts DEF QueueFollows, QueueOf

(* A rollout asks for the policy, and has the lease of it when it is       *)
(* served and the lock is free.                                            *)
LEMMA RolloutStartKeeps ==
    ASSUME IInv, NEW w \in Workers, RolloutStart(w)
    PROVE  IInv'
<1>1. /\ TypeOK /\ QueueFollows /\ w \in Named /\ w \in Holders
      /\ policy \in 0..policy /\ policy \in Nat /\ serving \in Nat /\ serve \in Seq(Holders)
      /\ rollout[w].pc = "idle"
      /\ UNCHANGED <<pipelineVars, pub, written, serviceVars, eval, prune, faults>>
  BY TypeFacts DEF IInv, StepsFollow, LeasesFollow, Named, Holders, RolloutStart
<1>2. CASE serve = <<>>
  <2>1. prune.pc # "queued" /\ UNCHANGED serve
    BY <1>1, <1>2 DEF QueueFollows, Within, RolloutStart
  <2>2. CASE policy <= serving
    <3>1. /\ rollout' = [rollout EXCEPT ![w] = [pc |-> "running", step |-> policy]]
          /\ leases' = leases \cup {<<w, policy>>}
      BY <1>2, <2>1, <2>2 DEF RolloutStart, Ask, TakeLease, Guarded
    <3>2. QueueOf(w, "running")
      BY <1>1, <2>1, QueueStaysOf
    <3> QED
      BY <1>1, <2>1, <2>2, <3>1, <3>2, RolloutMoves
  <2>3. CASE policy > serving
    <3>1. /\ rollout' = [rollout EXCEPT ![w] = [pc |-> "waiting", step |-> policy]]
          /\ UNCHANGED leases
      BY <1>1, <1>2, <2>1, <2>3 DEF RolloutStart, Ask
    <3>2. QueueOf(w, "waiting")
      BY <1>1, <2>1, QueueStaysOf
    <3>3. policy >= serving
      BY <1>1, <2>3
    <3> QED
      BY <1>1, <2>1, <3>1, <3>2, <3>3, RolloutMoves
  <2> QED
    BY <1>1, <2>2, <2>3
<1>3. CASE serve # <<>>
  <2>1. /\ rollout' = [rollout EXCEPT ![w] = [pc |-> "asking", step |-> policy]]
        /\ serve' = Append(serve, w) /\ UNCHANGED leases
    BY <1>3 DEF RolloutStart
  <2>2. QueueOf(w, "asking")
    <3>1. /\ serve' \in Seq(Holders)
          /\ \A r : Within(serve', r) <=> Within(serve, r) \/ r = w
          /\ \A r, u : Before(serve', r, u) <=> Before(serve, r, u) \/ (Within(serve, r) /\ u = w)
      BY <1>1, <2>1, AppendQueue
    <3>2. ~Within(serve, w) /\ ~Before(serve, w, w)
      BY <1>1 DEF QueueFollows
    <3> QED
      BY <1>1, <3>1, <3>2 DEF QueueOf
  <2> QED
    BY <1>1, <2>1, <2>2, RolloutMoves
<1> QED
  BY <1>2, <1>3

(* The worker is at the head of the lock.                                  *)
LEMMA RolloutAskedKeeps ==
    ASSUME IInv, NEW w \in Workers, RolloutAsked(w)
    PROVE  IInv'
<1> DEFINE step == rollout[w].step
<1>1. /\ TypeOK /\ QueueFollows /\ w \in Named
      /\ step \in 0..policy /\ step \in Nat /\ serving \in Nat /\ serve \in Seq(Holders)
      /\ rollout[w].pc = "asking"
      /\ UNCHANGED <<pipelineVars, pub, written, serviceVars, eval, prune, faults>>
  BY TypeFacts DEF IInv, StepsFollow, LeasesFollow, Named, RolloutAsked, TypeOK
<1>2. \A pc : pc # "asking" => QueueOf(w, pc)
  <2>1. serve # <<>> /\ Head(serve) = w /\ serve' = Tail(serve) /\ ~Before(serve, w, w)
    BY <1>1 DEF RolloutAsked, Holds, QueueFollows
  <2>2. /\ serve' \in Seq(Holders)
        /\ \A r : Within(serve', r) => Within(serve, r)
        /\ \A r : Within(serve, r) /\ r # w => Within(serve', r)
        /\ ~Within(serve', w)
        /\ \A r, u : Before(serve', r, u) => Before(serve, r, u)
    BY <1>1, <2>1, TailQueue
  <2> QED
    BY <1>1, <2>1, <2>2 DEF QueueOf
<1>3. CASE step > serving
  <2>1. /\ rollout' = [rollout EXCEPT ![w] = [pc |-> "waiting", step |-> step]]
        /\ UNCHANGED leases
    BY <1>1, <1>3 DEF RolloutAsked, Ask
  <2>2. QueueOf(w, "waiting")
    BY <1>2
  <2>3. step >= serving
    BY <1>1, <1>3
  <2> HIDE DEF step
  <2>4. leases' \subseteq leases \cup {<<w, step>>}
        /\ leases \subseteq leases' \cup {<<w, rollout[w].step>>}
    BY <2>1
  <2> QED
    BY <1>1, <2>1, <2>2, <2>3, <2>4, RolloutMoves
<1>4. CASE step <= serving /\ prune.pc = "queued"
  <2>1. /\ rollout' = [rollout EXCEPT ![w] = [pc |-> "leasing", step |-> step]]
        /\ UNCHANGED leases
    BY <1>1, <1>4 DEF RolloutAsked, Ask, TakeLease, Guarded
  <2>2. QueueOf(w, "leasing")
    BY <1>2
  <2>3. \A R \in Nat : PruneOf(R) => step >= R - 2
    BY <1>1 DEF PruneOf
  <2> HIDE DEF step
  <2> QED
    BY <1>1, <1>4, <2>1, <2>2, <2>3, RolloutMoves
<1>5. CASE step <= serving /\ prune.pc # "queued"
  <2>1. /\ rollout' = [rollout EXCEPT ![w] = [pc |-> "running", step |-> step]]
        /\ leases' = leases \cup {<<w, step>>}
    BY <1>1, <1>5 DEF RolloutAsked, Ask, TakeLease, Guarded
  <2>2. QueueOf(w, "running")
    BY <1>2
  <2> HIDE DEF step
  <2> QED
    BY <1>1, <1>5, <2>1, <2>2, RolloutMoves
<1> QED
  BY <1>1, <1>3, <1>4, <1>5

(* What it waits for is served, or the service has failed.                 *)
LEMMA RolloutWakesKeeps ==
    ASSUME IInv, NEW w \in Workers, RolloutWakes(w)
    PROVE  IInv'
<1> DEFINE step == rollout[w].step
<1>1. /\ TypeOK /\ PubsFollow /\ AskFollows
      /\ step \in 0..policy /\ step \in Nat /\ serving \in Nat
      /\ rollout[w].pc = "waiting" /\ Settled(step)
      /\ UNCHANGED <<pipelineVars, pub, written, serviceVars, serve, eval, prune, faults>>
      /\ rollout[w] = [pc |-> rollout[w].pc, step |-> step]
  BY TypeFacts DEF IInv, StepsFollow, LeasesFollow, PrunesFollow, RolloutWakes, TypeOK
<1>2. /\ QueueOf(w, "idle") /\ QueueOf(w, "leasing") /\ QueueOf(w, "running")
  BY <1>1, QueueStaysOf
<1>3. CASE failure
  <2>1. /\ rollout' = [rollout EXCEPT ![w] = [pc |-> "idle", step |-> step]]
        /\ UNCHANGED leases
    BY <1>1, <1>3 DEF RolloutWakes, SetRollout, TypeOK
  <2> HIDE DEF step
  <2> QED
    BY <1>1, <1>2, <2>1, RolloutMoves
<1>4. CASE ~failure
  <2>1. step <= serving
    <3>1. ~(step \in Steps /\ pub[step] \in {"reported", "failed"})
      BY <1>1, <1>4 DEF PubsFollow
    <3> QED
      BY <1>1, <3>1 DEF Settled
  <2>2. CASE prune.pc = "queued"
    <3>1. /\ rollout' = [rollout EXCEPT ![w] = [pc |-> "leasing", step |-> step]]
          /\ UNCHANGED leases
      BY <1>4, <2>2 DEF RolloutWakes, TakeLease, Guarded
    <3>2. ASSUME endpoint = "up", NEW R \in Nat, PruneOf(R) PROVE step >= R - 2
      <4>1. step >= serving
        BY <1>1, <3>2 DEF AskFollows
      <4>2. R <= policy /\ policy <= latest /\ latest <= serving + 2
            /\ policy \in Nat /\ latest \in Nat
        BY <1>1, <3>2, TypeFacts DEF PruneOf
      <4> HIDE DEF step
      <4> QED
        BY <1>1, <4>1, <4>2
    <3> HIDE DEF step
    <3> QED
      BY <1>1, <1>2, <2>1, <2>2, <3>1, <3>2, RolloutMoves
  <2>3. CASE prune.pc # "queued"
    <3>1. /\ rollout' = [rollout EXCEPT ![w] = [pc |-> "running", step |-> step]]
          /\ leases' = leases \cup {<<w, step>>}
      BY <1>4, <2>3 DEF RolloutWakes, TakeLease, Guarded
    <3> HIDE DEF step
    <3> QED
      BY <1>1, <1>2, <2>1, <2>3, <3>1, RolloutMoves
  <2> QED
    BY <2>2, <2>3
<1> QED
  BY <1>3, <1>4

LEMMA RolloutLeasesKeeps ==
    ASSUME IInv, NEW w \in Workers, RolloutLeases(w)
    PROVE  IInv'
<1> DEFINE step == rollout[w].step
<1>1. /\ TypeOK /\ RolloutFollows
      /\ step \in 0..policy /\ step <= serving
      /\ rollout[w].pc = "leasing" /\ prune.pc # "queued"
      /\ UNCHANGED <<pipelineVars, pub, written, serviceVars, serve, eval, prune, faults>>
      /\ rollout' = [rollout EXCEPT ![w] = [pc |-> "running", step |-> step]]
      /\ leases' = leases \cup {<<w, step>>}
  BY DEF IInv, StepsFollow, LeasesFollow, RolloutFollows, RolloutLeases, TypeOK,
         TakeLease, Guarded
<1>2. QueueOf(w, "running")
  BY <1>1, QueueStaysOf
<1> HIDE DEF step
<1> QED
  BY <1>1, <1>2, RolloutMoves

LEMMA RolloutEndsKeeps ==
    ASSUME IInv, NEW w \in Workers, RolloutEnds(w)
    PROVE  IInv'
<1>1. /\ TypeOK /\ 0 \in 0..policy
      /\ rollout[w].pc = "running" /\ prune.pc # "queued"
      /\ UNCHANGED <<pipelineVars, pub, written, serviceVars, serve, eval, prune, faults>>
      /\ rollout' = [rollout EXCEPT ![w] = [pc |-> "idle", step |-> 0]]
      /\ leases' = leases \ {<<w, rollout[w].step>>}
  BY TypeFacts DEF IInv, StepsFollow, RolloutEnds, Guarded, Idle
<1>2. QueueOf(w, "idle")
  BY <1>1, QueueStaysOf
<1> QED
  BY <1>1, <1>2, RolloutMoves

-----------------------------------------------------------------------------
(* The evaluations.                                                        *)

LEMMA EvalMoves ==
    ASSUME IInv, QuietQueue, eval.queue # <<>>,
           NEW pc \in {"asking", "waiting", "acquiring", "leasing", "running", "releasing",
                       "unscheduling"},
           eval' = [eval EXCEPT !.pc = pc],
           UNCHANGED <<pipelineVars, pub, written, failure, serving, endpoint, manager,
                       loaded, restored, rollout, prune, faults>>,
           exact' \cup engine' \subseteq 0..latest,
           leases' \subseteq (Workers \cup {"scheduled", "eval"}) \X (0..policy),
           \A p, t : p # "eval" => (<<p, t>> \in leases' <=> <<p, t>> \in leases),
           prune.pc = "queued" => leases' = leases
    PROVE  IInv'
<1>1. TypeOK /\ LearnerAhead /\ PubsFollow /\ PostFollows /\ QueueFollows /\ AskFollows
      /\ EvalFollows /\ RolloutFollows /\ RequestFollows /\ GuardFollows
  BY DEF IInv, StepsFollow, LeasesFollow, PrunesFollow
<1>2. /\ UNCHANGED <<trainer, latest, policy, post, train, pub, written, failure, serving,
                     endpoint, manager, loaded, restored, rollout, prune, faults>>
      /\ eval'.queue = eval.queue
  BY <1>1 DEF pipelineVars, TypeOK
<1>3. TypeOK'
  <2>1. eval' \in [pc : {"idle", "asking", "waiting", "acquiring", "leasing", "running",
                         "releasing", "unscheduling"},
                   queue : Seq(0..policy)]
    BY <1>1 DEF TypeOK
  <2>2. serve' \in Seq(Workers \cup Tasks)
    BY DEF QuietQueue, Holders
  <2>3. /\ loaded' \cup exact' \cup engine' \subseteq 0..latest
        /\ prune' \in [pc : {"idle", "queued"}, request : 0..policy \cup {None},
                      retain : SUBSET (0..policy), failed : BOOLEAN]
    BY <1>1, <1>2 DEF TypeOK
  <2> QED
    BY <1>1, <1>2, <2>1, <2>2, <2>3, TypeStays
<1>4. LearnerAhead' /\ PostFollows' /\ PubsFollow'
  BY <1>1, <1>2 DEF LearnerAhead, PostFollows, PubsFollow
<1>5. EvalFollows'
  BY <1>1, <1>2 DEF EvalFollows
<1>6. RolloutFollows'
  <2>1. \A w \in Workers : w # "eval"
    BY PublicationAssumption
  <2> QED
    BY <1>1, <1>2, <2>1 DEF RolloutFollows
<1>7. QueueFollows'
  BY <1>1, <1>2, QueueStays
<1>8. RequestFollows'
  BY <1>1, <1>2 DEF RequestFollows
<1>9. GuardFollows'
  <2>1. CASE prune.pc = "queued"
    BY <1>1, <1>2, <2>1, GuardStays
  <2>2. CASE prune.pc # "queued"
    BY <1>2, <2>2 DEF GuardFollows
  <2> QED
    BY <2>1, <2>2
<1>10. AskFollows'
  BY <1>1, <1>2 DEF AskFollows
<1> QED
  BY <1>3, <1>4, <1>5, <1>6, <1>7, <1>8, <1>9, <1>10
     DEF IInv, StepsFollow, LeasesFollow, PrunesFollow

LEMMA EvalFacts ==
    ASSUME IInv
    PROVE  /\ TypeOK
           /\ eval.pc # "idle" => eval.queue # <<>>
           /\ eval.queue # <<>> => Evaluated \in 0..policy /\ Evaluated \in 0..latest
           /\ exact \cup engine \subseteq 0..latest
           /\ leases \subseteq (Workers \cup {"scheduled", "eval"}) \X (0..policy)
<1>1. TypeOK /\ EvalFollows
  BY DEF IInv, StepsFollow, LeasesFollow
<1>2. ASSUME eval.queue # <<>>
      PROVE  Evaluated \in 0..policy /\ Evaluated \in 0..latest
  <2>1. eval.queue \in Seq(0..policy)
    BY <1>1, TypeFacts
  <2>2. Evaluated \in 0..policy
    BY <1>2, <2>1, HeadTailProperties DEF Evaluated
  <2>3. policy <= latest /\ policy \in Nat /\ latest \in Nat
    BY <1>1, TypeFacts
  <2> QED
    BY <2>2, <2>3
<1> QED
  BY <1>1, <1>2 DEF TypeOK, EvalFollows

(* The evaluation moves with the leases and adapters as they are.          *)
LEMMA EvalStartKeeps ==
    ASSUME IInv, EvalStart
    PROVE  IInv'
<1>1. TypeOK /\ exact' \cup engine' \subseteq 0..latest /\ eval.queue # <<>>
      /\ leases' \subseteq (Workers \cup {"scheduled", "eval"}) \X (0..policy)
      /\ UNCHANGED <<pipelineVars, pub, written, failure, serving, endpoint, manager,
                     loaded, restored, rollout, prune, faults, leases>>
  BY EvalFacts DEF EvalStart, serviceVars
<1>2. QuietQueue
  BY <1>1, QueueIsQuiet DEF EvalStart
<1>3. PICK pc \in {"asking", "unscheduling"} : eval' = [eval EXCEPT !.pc = pc]
  BY DEF EvalStart, SetEval
<1> QED
  BY <1>1, <1>2, <1>3, EvalMoves

LEMMA EvalAskedKeeps ==
    ASSUME IInv, EvalAsked
    PROVE  IInv'
<1>1. TypeOK /\ exact' \cup engine' \subseteq 0..latest /\ eval.queue # <<>>
      /\ leases' \subseteq (Workers \cup {"scheduled", "eval"}) \X (0..policy)
      /\ UNCHANGED <<pipelineVars, pub, written, failure, serving, endpoint, manager,
                     loaded, restored, rollout, prune, faults, leases>>
  BY EvalFacts DEF EvalAsked, serviceVars
<1>2. QuietQueue
  BY <1>1, QueueIsQuiet DEF EvalAsked
<1>3. PICK pc \in {"acquiring", "waiting"} : eval' = [eval EXCEPT !.pc = pc]
  BY DEF EvalAsked, SetEval
<1> QED
  BY <1>1, <1>2, <1>3, EvalMoves

LEMMA EvalWakesKeeps ==
    ASSUME IInv, EvalWakes
    PROVE  IInv'
<1>1. TypeOK /\ exact' \cup engine' \subseteq 0..latest /\ eval.queue # <<>>
      /\ leases' \subseteq (Workers \cup {"scheduled", "eval"}) \X (0..policy)
      /\ UNCHANGED <<pipelineVars, pub, written, failure, serving, endpoint, manager,
                     loaded, restored, rollout, prune, faults, leases>>
  BY EvalFacts DEF EvalWakes, serviceVars
<1>2. QuietQueue
  BY <1>1, QueueIsQuiet DEF EvalWakes
<1>3. PICK pc \in {"acquiring", "unscheduling"} : eval' = [eval EXCEPT !.pc = pc]
  BY DEF EvalWakes, SetEval
<1> QED
  BY <1>1, <1>2, <1>3, EvalMoves

LEMMA EvalAcquiresKeeps ==
    ASSUME IInv, EvalAcquires
    PROVE  IInv'
<1>1. TypeOK /\ exact \cup engine \cup {Evaluated} \subseteq 0..latest /\ eval.queue # <<>>
      /\ leases' \subseteq (Workers \cup {"scheduled", "eval"}) \X (0..policy)
      /\ UNCHANGED <<pipelineVars, pub, written, failure, serving, endpoint, manager,
                     loaded, restored, rollout, prune, faults, leases>>
  BY EvalFacts DEF EvalAcquires
<1>2. exact' \cup engine' \subseteq 0..latest
  BY <1>1 DEF EvalAcquires
<1>3. QuietQueue
  BY <1>1, QueueIsQuiet DEF EvalAcquires
<1>4. PICK pc \in {"leasing", "unscheduling"} : eval' = [eval EXCEPT !.pc = pc]
  BY DEF EvalAcquires, SetEval
<1> QED
  BY <1>1, <1>2, <1>3, <1>4, EvalMoves

LEMMA EvalLeasesKeeps ==
    ASSUME IInv, EvalLeases
    PROVE  IInv'
<1>1. TypeOK /\ exact' \cup engine' \subseteq 0..latest /\ eval.queue # <<>>
      /\ leases \cup {<<"eval", Evaluated>>}
            \subseteq (Workers \cup {"scheduled", "eval"}) \X (0..policy)
      /\ UNCHANGED <<pipelineVars, pub, written, failure, serving, endpoint, manager,
                     loaded, restored, rollout, prune, faults, serve>>
      /\ prune.pc # "queued"
  BY EvalFacts DEF EvalLeases, serviceVars, Guarded
<1>2. QuietQueue
  BY <1>1, QueueIsQuiet
<1>3. leases' = leases \cup {<<"eval", Evaluated>>} /\ eval' = [eval EXCEPT !.pc = "running"]
  BY DEF EvalLeases, SetEval
<1> QED
  BY <1>1, <1>2, <1>3, EvalMoves

LEMMA EvalEndsKeeps ==
    ASSUME IInv, EvalEnds
    PROVE  IInv'
<1>1. TypeOK /\ exact' \cup engine' \subseteq 0..latest /\ eval.queue # <<>>
      /\ leases \subseteq (Workers \cup {"scheduled", "eval"}) \X (0..policy)
      /\ UNCHANGED <<pipelineVars, pub, written, failure, serving, endpoint, manager,
                     loaded, restored, rollout, prune, faults>>
      /\ prune.pc # "queued"
  BY EvalFacts DEF EvalEnds, serviceVars, Guarded
<1>2. QuietQueue
  BY <1>1, QueueIsQuiet DEF EvalEnds
<1>3. leases' = leases \ {<<"eval", Evaluated>>} /\ eval' = [eval EXCEPT !.pc = "releasing"]
  BY DEF EvalEnds, SetEval
<1> QED
  BY <1>1, <1>2, <1>3, EvalMoves

LEMMA EvalReleasesKeeps ==
    ASSUME IInv, EvalReleases
    PROVE  IInv'
<1>1. TypeOK /\ exact \cup engine \subseteq 0..latest /\ eval.queue # <<>>
      /\ leases' \subseteq (Workers \cup {"scheduled", "eval"}) \X (0..policy)
      /\ UNCHANGED <<pipelineVars, pub, written, failure, serving, endpoint, manager,
                     loaded, restored, rollout, prune, faults, leases, engine>>
  BY EvalFacts DEF EvalReleases
<1>2. exact' \cup engine' \subseteq 0..latest /\ eval' = [eval EXCEPT !.pc = "unscheduling"]
  BY <1>1 DEF EvalReleases, SetEval
<1>3. QuietQueue
  BY <1>1, QueueIsQuiet DEF EvalReleases
<1> QED
  BY <1>1, <1>2, <1>3, EvalMoves

(* The evaluation of the head of the queue is over, with its lease.        *)
LEMMA EvalUnschedulesKeeps ==
    ASSUME IInv, EvalUnschedules
    PROVE  IInv'
<1>1. TypeOK /\ LearnerAhead /\ PubsFollow /\ PostFollows /\ QueueFollows /\ AskFollows
      /\ EvalFollows /\ RolloutFollows /\ RequestFollows /\ GuardFollows
  BY DEF IInv, StepsFollow, LeasesFollow, PrunesFollow
<1>2. /\ UNCHANGED <<trainer, latest, policy, post, train, pub, written, failure, serving,
                     endpoint, manager, engine, loaded, exact, restored, serve, rollout,
                     prune, faults>>
      /\ prune.pc # "queued" /\ eval.queue # <<>>
      /\ leases' = leases \ {<<"scheduled", Evaluated>>}
      /\ eval'.pc = "idle" /\ eval'.queue = Tail(eval.queue)
      /\ eval' = [pc |-> "idle", queue |-> Tail(eval.queue)]
  BY EvalFacts DEF EvalUnschedules, pipelineVars, serviceVars, Guarded
<1>3. /\ eval'.queue \in Seq(0..policy) /\ 1 \in DOMAIN eval.queue
      /\ Evaluated = eval.queue[1]
      /\ DOMAIN eval.queue \subseteq Nat /\ DOMAIN eval'.queue \subseteq Nat
      /\ \A i \in DOMAIN eval'.queue : /\ i + 1 \in DOMAIN eval.queue /\ 1 < i + 1
                                       /\ eval'.queue[i] = eval.queue[i + 1]
  <2> DEFINE q == eval.queue
             t == Tail(q)
  <2>1. /\ q \in Seq(0..policy) /\ DOMAIN q = 1..Len(q) /\ Len(q) \in Nat
    BY <1>1, TypeFacts
  <2>2. /\ t \in Seq(0..policy) /\ Len(t) = Len(q) - 1 /\ Len(q) > 0
        /\ \A i \in 1..Len(t) : t[i] = q[i + 1]
        /\ Head(q) = q[1]
    <3>1. q # <<>>
      BY <1>2
    <3> HIDE DEF q
    <3> QED
      BY <2>1, <3>1, HeadTailProperties, EmptySeq
  <2>3. DOMAIN t = 1..Len(t)
    BY <2>2, LenProperties
  <2>4. eval'.queue = t /\ Evaluated = Head(q)
    BY <1>2 DEF Evaluated
  <2> HIDE DEF t
  <2> QED
    BY <2>1, <2>2, <2>3, <2>4
<1>4. TypeOK'
  <2>1. eval' \in [pc : {"idle", "asking", "waiting", "acquiring", "leasing", "running",
                         "releasing", "unscheduling"},
                   queue : Seq(0..policy)]
    BY <1>2, <1>3
  <2> QED
    BY <1>1, <1>2, <2>1 DEF TypeOK
<1>5. LearnerAhead' /\ PostFollows' /\ PubsFollow'
  BY <1>1, <1>2 DEF LearnerAhead, PostFollows, PubsFollow
<1>6. EvalFollows'
  <2>1. \A i, j \in DOMAIN eval'.queue : i < j => eval'.queue[i] < eval'.queue[j]
    <3> SUFFICES ASSUME NEW i \in DOMAIN eval'.queue, NEW j \in DOMAIN eval'.queue, i < j
                 PROVE  eval.queue[i + 1] < eval.queue[j + 1]
      BY <1>3
    <3>1. i + 1 < j + 1
      BY <1>3
    <3> QED
      BY <1>1, <1>3, <3>1 DEF EvalFollows
  <2>2. ASSUME NEW i \in DOMAIN eval'.queue
        PROVE  <<"scheduled", eval'.queue[i]>> \in leases'
    <3>1. /\ eval.queue[1] < eval.queue[i + 1]
          /\ <<"scheduled", eval.queue[i + 1]>> \in leases
      BY <1>1, <1>3 DEF EvalFollows
    <3>2. eval.queue[1] # eval.queue[i + 1]
      <4>1. eval.queue[1] \in 0..policy /\ eval.queue[i + 1] \in 0..policy
        BY <1>1, <1>3, TypeFacts
      <4> QED
        BY <3>1, <4>1
    <3> QED
      BY <1>2, <1>3, <3>1, <3>2
  <2>3. post.pc \in {"prune", "lease"} =>
           \A i \in DOMAIN eval'.queue : eval'.queue[i] < policy
    BY <1>1, <1>3 DEF EvalFollows
  <2> QED
    BY <1>2, <2>1, <2>2, <2>3 DEF EvalFollows
<1>7. RolloutFollows'
  <2>1. \A w \in Workers : w # "scheduled"
    BY PublicationAssumption
  <2> QED
    BY <1>1, <1>2, <2>1 DEF RolloutFollows
<1>8. QueueFollows' /\ RequestFollows' /\ GuardFollows' /\ AskFollows'
  BY <1>1, <1>2 DEF QueueFollows, RequestFollows, GuardFollows, AskFollows
<1> QED
  BY <1>4, <1>5, <1>6, <1>7, <1>8 DEF IInv, StepsFollow, LeasesFollow, PrunesFollow

-----------------------------------------------------------------------------
(* The prunes.                                                             *)

(* A prune starts for the step requested, when nobody waits for a lease.   *)
LEMMA PruneStartsKeeps ==
    ASSUME IInv, PruneStarts
    PROVE  IInv'
<1>1. TypeOK /\ LearnerAhead /\ PubsFollow /\ PostFollows /\ QueueFollows /\ AskFollows
      /\ EvalFollows /\ RolloutFollows /\ RequestFollows /\ GuardFollows
  BY DEF IInv, StepsFollow, LeasesFollow, PrunesFollow
<1> DEFINE R == prune.request
<1>2. /\ UNCHANGED <<trainer, latest, policy, post, train, pub, written, failure, serving,
                     endpoint, manager, engine, loaded, exact, restored, leases, rollout,
                     eval, faults>>
      /\ prune.pc = "idle" /\ R # None /\ ~LeaseWaiters
      /\ prune'.pc = "queued" /\ prune'.request = None
      /\ prune'.retain = Retained(R) \cup LeasedSteps /\ prune'.failed = prune.failed
      /\ prune' = [prune EXCEPT !.pc = "queued", !.request = None,
                                !.retain = Retained(R) \cup LeasedSteps]
      /\ serve' = Append(serve, Pruning)
  BY <1>1 DEF PruneStarts, pipelineVars, serviceVars, TypeOK
<1>3. /\ R \in Nat /\ R <= policy /\ R \in 0..policy /\ policy \in Nat /\ latest \in Nat
      /\ policy <= latest
      /\ \A w \in Workers : rollout[w].step \in Nat
  <2>1. /\ policy \in Nat /\ latest \in Nat /\ policy <= latest
        /\ \A w \in Workers : rollout[w].step \in Nat
    BY <1>1, TypeFacts
  <2>2. prune.request \in 0..policy \cup {None}
    BY <1>1 DEF TypeOK
  <2> QED
    BY <1>2, <2>1, <2>2
<1>4. /\ Pruning \in Holders /\ Pruning \in Named
      /\ \A s \in Steps : Publication(s) # Pruning
      /\ \A w \in Workers : w # Pruning
  BY TasksDiffer DEF Holders, Named
<1>5. /\ serve' \in Seq(Holders)
      /\ \A r : Within(serve', r) <=> Within(serve, r) \/ r = Pruning
      /\ \A r, u : Before(serve', r, u) <=>
                      Before(serve, r, u) \/ (Within(serve, r) /\ u = Pruning)
  BY <1>1, <1>2, <1>4, TypeFacts, AppendQueue
<1>6. ~Within(serve, Pruning)
  BY <1>1, <1>2 DEF QueueFollows
<1>7. TypeOK'
  <2>1. Retained(R) \subseteq 0..policy
    BY <1>3 DEF Retained
  <2>2. LeasedSteps \subseteq 0..policy
    BY <1>1 DEF LeasedSteps, TypeOK
  <2>3. prune' \in [pc : {"idle", "queued"}, request : 0..policy \cup {None},
                    retain : SUBSET (0..policy), failed : BOOLEAN]
    <3>1. Retained(R) \cup LeasedSteps \in SUBSET (0..policy)
      BY <2>1, <2>2
    <3> QED
      BY <1>1, <1>2, <3>1 DEF TypeOK
  <2>4. serve' \in Seq(Workers \cup Tasks)
    BY <1>5 DEF Holders
  <2>5. /\ UNCHANGED <<trainer, latest, policy, post, train, pub, written, failure, serving,
                       endpoint, manager, restored, rollout, faults>>
        /\ UNCHANGED <<engine, loaded, exact, leases, eval>>
    BY <1>2
  <2>6. /\ loaded \cup exact \cup engine \subseteq 0..latest
        /\ leases \subseteq (Workers \cup {"scheduled", "eval"}) \X (0..policy)
    BY <1>1 DEF TypeOK
  <2> QED
    BY <1>1, <2>3, <2>4, <2>5, <2>6, EvalType, TypeStays
<1>8. LearnerAhead' /\ PostFollows' /\ PubsFollow'
  BY <1>1, <1>2 DEF LearnerAhead, PostFollows, PubsFollow
<1>9. EvalFollows' /\ RolloutFollows'
  BY <1>1, <1>2 DEF EvalFollows, RolloutFollows
<1>10. QueueFollows'
  <2>1. \A p \in Named : ~Before(serve', p, p)
    BY <1>1, <1>5, <1>6 DEF QueueFollows
  <2>2. \A w \in Workers : Within(serve', w) <=> rollout'[w].pc = "asking"
    BY <1>1, <1>2, <1>4, <1>5 DEF QueueFollows
  <2>3. Within(serve', Pruning) <=> prune'.pc = "queued"
    BY <1>2, <1>5
  <2>4. \A s \in Steps : Within(serve', Publication(s)) => pub'[s] \in {"queued", "reported"}
    BY <1>1, <1>2, <1>4, <1>5 DEF QueueFollows
  <2> QED
    BY <2>1, <2>2, <2>3, <2>4 DEF QueueFollows
<1>11. RequestFollows'
  BY <1>2 DEF RequestFollows
<1>12. ASSUME endpoint = "up", NEW r \in Nat, r = R PROVE PruneOf(r)'
  <2>1. /\ r <= policy
        /\ post.pc = "prune" => r < policy
        /\ post.pc \in {"idle", "lease"} => policy = r
        /\ serving <= r
        /\ \A s \in Steps : pub[s] = "queued" => s <= r
    BY <1>1, <1>2, <1>3, <1>12 DEF RequestFollows
  <2>2. LeasedSteps' = LeasedSteps /\ Retained(r)' = Retained(r)
    BY <1>2 DEF LeasedSteps, Retained
  <2>3. Retained(r) \subseteq prune'.retain /\ LeasedSteps \subseteq prune'.retain
    BY <1>2, <1>12
  <2>4. \A w \in Workers : rollout[w].pc \in {"asking", "leasing"} => rollout[w].step >= r - 2
    <3>1. ASSUME NEW w \in Workers, rollout[w].pc = "asking" PROVE rollout[w].step >= r - 2
      <4>1. rollout[w].step >= latest - 2
        BY <1>1, <1>2, <1>12, <3>1 DEF AskFollows
      <4> QED
        BY <1>3, <1>12, <2>1, <4>1
    <3>2. \A w \in Workers : rollout[w].pc # "leasing"
      BY <1>2 DEF LeaseWaiters
    <3> QED
      BY <3>1, <3>2
  <2>5. \A w \in Workers : ~Before(serve', Pruning, w)
    <3>1. ASSUME NEW w \in Workers PROVE ~Before(serve, Pruning, w)
      BY <1>6 DEF Before, Within
    <3> QED
      BY <1>4, <1>5, <3>1
  <2> HIDE DEF R
  <2> QED
    BY <1>2, <2>1, <2>2, <2>3, <2>4, <2>5 DEF PruneOf
<1>13. GuardFollows'
  BY <1>2, <1>3, <1>12 DEF GuardFollows
<1>14. AskFollows'
  BY <1>1, <1>2 DEF AskFollows
<1> QED
  BY <1>7, <1>8, <1>9, <1>10, <1>11, <1>13, <1>14
     DEF IInv, StepsFollow, LeasesFollow, PrunesFollow


(* Whoever still asks when the prune is over was behind it.                *)
LEMMA PruneUnloadsKeeps ==
    ASSUME IInv, PruneUnloads
    PROVE  IInv'
<1>1. TypeOK /\ LearnerAhead /\ PubsFollow /\ PostFollows /\ QueueFollows /\ AskFollows
      /\ EvalFollows /\ RolloutFollows /\ RequestFollows /\ GuardFollows
  BY DEF IInv, StepsFollow, LeasesFollow, PrunesFollow
<1>2. /\ UNCHANGED <<trainer, latest, policy, post, train, pub, written, failure, serving,
                     endpoint, manager, exact, restored, leases, rollout, eval, faults>>
      /\ prune.pc = "queued" /\ serve # <<>> /\ Head(serve) = Pruning
      /\ prune'.pc = "idle" /\ prune'.request = prune.request
      /\ prune' \in [pc : {"idle", "queued"}, request : 0..policy \cup {None},
                      retain : SUBSET (0..policy), failed : BOOLEAN]
      /\ engine' \subseteq engine /\ loaded' \subseteq loaded
      /\ serve' = Tail(serve)
  <2>1. /\ UNCHANGED <<trainer, latest, policy, post, train, pub, written, failure, serving,
                       endpoint, manager, exact, restored, leases, rollout, eval, faults>>
        /\ prune.pc = "queued" /\ serve # <<>> /\ Head(serve) = Pruning
        /\ engine' \subseteq engine /\ loaded' \subseteq loaded
        /\ serve' = Tail(serve)
    BY DEF PruneUnloads, Holds, pipelineVars
  <2>2. prune \in [pc : {"idle", "queued"}, request : 0..policy \cup {None},
                   retain : SUBSET (0..policy), failed : BOOLEAN]
    BY <1>1 DEF TypeOK
  <2>3. CASE prune' = [prune EXCEPT !.pc = "idle", !.retain = {}, !.failed = TRUE]
    BY <2>1, <2>2, <2>3
  <2>4. CASE prune' = [prune EXCEPT !.pc = "idle", !.retain = {}]
    BY <2>1, <2>2, <2>4
  <2> QED
    BY <2>3, <2>4 DEF PruneUnloads
<1>3. Pruning \in Named /\ \A w \in Workers : w # Pruning /\ w \in Named
  BY TasksDiffer DEF Named
<1>4. /\ serve' \in Seq(Holders)
      /\ \A r : Within(serve', r) => Within(serve, r)
      /\ \A r : Within(serve, r) /\ r # Pruning =>
                   Within(serve', r) /\ Before(serve, Pruning, r)
      /\ ~Within(serve', Pruning)
      /\ \A r, u : Before(serve', r, u) => Before(serve, r, u)
  <2>1. serve \in Seq(Holders) /\ ~Before(serve, Pruning, Pruning)
    BY <1>1, <1>3, TypeFacts DEF QueueFollows
  <2> QED
    BY <1>2, <2>1, TailQueue
<1>5. TypeOK'
  <2>1. serve' \in Seq(Workers \cup Tasks)
    BY <1>4 DEF Holders
  <2> QED
    BY <1>1, <1>2, <2>1 DEF TypeOK
<1>6. LearnerAhead' /\ PostFollows' /\ PubsFollow'
  BY <1>1, <1>2 DEF LearnerAhead, PostFollows, PubsFollow
<1>7. EvalFollows' /\ RolloutFollows'
  BY <1>1, <1>2 DEF EvalFollows, RolloutFollows
<1>8. QueueFollows'
  <2>1. \A p \in Named : ~Before(serve', p, p)
    BY <1>1, <1>4 DEF QueueFollows
  <2>2. \A w \in Workers : Within(serve', w) <=> rollout'[w].pc = "asking"
    BY <1>1, <1>2, <1>3, <1>4 DEF QueueFollows
  <2>3. Within(serve', Pruning) <=> prune'.pc = "queued"
    BY <1>2, <1>4
  <2>4. \A s \in Steps : Within(serve', Publication(s)) => pub'[s] \in {"queued", "reported"}
    BY <1>1, <1>2, <1>4 DEF QueueFollows
  <2> QED
    BY <2>1, <2>2, <2>3, <2>4 DEF QueueFollows
<1>9. RequestFollows' /\ GuardFollows'
  BY <1>1, <1>2 DEF RequestFollows, GuardFollows
<1>10. AskFollows'
  <2> SUFFICES ASSUME endpoint = "up", NEW w \in Workers
               PROVE  /\ rollout[w].pc = "asking" =>
                            /\ prune.request # None \/ post.pc = "prune" =>
                                  rollout[w].step >= latest - 2
                            /\ prune.request = None /\ post.pc \in {"idle", "lease"} =>
                                  rollout[w].step = policy
                      /\ rollout[w].pc = "waiting" => rollout[w].step >= serving
    BY <1>2 DEF AskFollows
  <2>1. PICK R \in Nat : PruneOf(R)
    BY <1>1, <1>2 DEF GuardFollows
  <2>2. rollout[w].pc = "asking" => rollout[w].step >= R
    <3>1. rollout[w].pc = "asking" => Before(serve, Pruning, w)
      BY <1>1, <1>3, <1>4 DEF QueueFollows
    <3> QED
      BY <2>1, <3>1 DEF PruneOf
  <2>3. /\ serving <= R /\ latest <= serving + 2 /\ rollout[w].step <= policy
        /\ serving \in Nat /\ latest \in Nat /\ policy \in Nat /\ rollout[w].step \in Nat
    BY <1>1, <2>1, TypeFacts DEF PruneOf
  <2>4. prune.request = None /\ post.pc \in {"idle", "lease"} => policy = R
    BY <2>1 DEF PruneOf
  <2>5. rollout[w].pc = "waiting" => rollout[w].step >= serving
    BY <1>1 DEF AskFollows
  <2> QED
    BY <2>2, <2>3, <2>4, <2>5
<1> QED
  BY <1>5, <1>6, <1>7, <1>8, <1>9, <1>10
     DEF IInv, StepsFollow, LeasesFollow, PrunesFollow

-----------------------------------------------------------------------------
(* The invariant.                                                          *)

LEMMA InitHolds == Init => IInv
<1> SUFFICES ASSUME Init PROVE IInv
  OBVIOUS
<1>1. /\ trainer = "top" /\ latest = 0 /\ policy = 0 /\ post = [pc |-> "idle", step |-> 0]
      /\ pub = [s \in Steps |-> "none"] /\ written = {0}
      /\ failure = FALSE /\ serving = 0 /\ endpoint = "up" /\ manager = "ready"
      /\ engine = {0} /\ loaded = {0} /\ exact = {} /\ restored = 0
      /\ train = None /\ serve = <<>>
      /\ rollout = [w \in Workers |-> [pc |-> "idle", step |-> 0]]
      /\ prune = [pc |-> "idle", request |-> None, retain |-> {}, failed |-> FALSE]
      /\ faults = 0
  BY DEF Init, Idle
<1>2. /\ eval.pc = "idle"
      /\ \/ eval = [pc |-> "idle", queue |-> <<0>>] /\ leases = {<<"scheduled", 0>>}
         \/ eval = [pc |-> "idle", queue |-> <<>>] /\ leases = {}
  BY DEF Init
<1>3. MaxStep \in Nat /\ MaxFaults \in Nat /\ \A s \in Steps : s \in Nat /\ s > 0
  BY PublicationAssumption DEF Steps
<1>4. TypeOK
  <2>1. serve \in Seq(Workers \cup Tasks)
    BY <1>1
  <2>2. eval \in [pc : {"idle", "asking", "waiting", "acquiring", "leasing", "running",
                        "releasing", "unscheduling"},
                  queue : Seq(0..policy)]
    <3>1. <<>> \in Seq(0..policy) /\ <<0>> \in Seq(0..policy)
      BY <1>1
    <3>2. CASE eval = [pc |-> "idle", queue |-> <<0>>]
      BY <3>1, <3>2
    <3>3. CASE eval = [pc |-> "idle", queue |-> <<>>]
      BY <3>1, <3>3
    <3> QED
      BY <1>2, <3>2, <3>3
  <2>3. leases \subseteq (Workers \cup {"scheduled", "eval"}) \X (0..policy)
    BY <1>1, <1>2
  <2>4. /\ pub \in [Steps -> {"none", "moving", "queued", "served",
                             "failing", "reported", "failed"}]
        /\ rollout \in [Workers -> [pc : {"idle", "asking", "waiting", "leasing", "running"},
                                    step : 0..policy]]
    BY <1>1
  <2>5. /\ latest \in 0..MaxStep /\ policy \in {latest - 1, latest} \cap Nat
        /\ latest <= serving + 2 /\ written \subseteq 0..latest /\ serving \in 0..latest
        /\ loaded \cup exact \cup engine \subseteq 0..latest /\ restored \in 0..serving
        /\ faults \in 0..MaxFaults
        /\ post \in [pc : {"idle", "prune", "lease", "failed"}, step : 0..MaxStep]
    BY <1>1, <1>3
  <2>6. prune \in [pc : {"idle", "queued"}, request : 0..policy \cup {None},
                   retain : SUBSET (0..policy), failed : BOOLEAN]
    BY <1>1
  <2> QED
    BY <1>1, <2>1, <2>2, <2>3, <2>4, <2>5, <2>6 DEF TypeOK
<1>5. LearnerAhead /\ PubsFollow /\ PostFollows
  BY <1>1, <1>3 DEF LearnerAhead, PubsFollow, PostFollows
<1>6. EvalFollows
  <2>1. /\ \A i, j \in DOMAIN eval.queue : ~(i < j)
        /\ \A i \in DOMAIN eval.queue : eval.queue[i] = 0 /\ <<"scheduled", 0>> \in leases
    BY <1>2
  <2> QED
    BY <1>1, <1>2, <2>1 DEF EvalFollows
<1>7. RolloutFollows /\ RequestFollows /\ GuardFollows /\ AskFollows
  BY <1>1 DEF RolloutFollows, RequestFollows, GuardFollows, AskFollows
<1>8. QueueFollows
  <2>1. DOMAIN serve = {}
    BY <1>1
  <2>2. \A p : ~Within(serve, p) /\ ~Before(serve, p, p)
    BY <2>1 DEF Within, Before
  <2> QED
    BY <1>1, <2>2 DEF QueueFollows
<1> QED
  BY <1>4, <1>5, <1>6, <1>7, <1>8 DEF IInv, StepsFollow, LeasesFollow, PrunesFollow

LEMMA NextKeeps == IInv /\ [Next]_vars => IInv'
<1> SUFFICES ASSUME IInv, [Next]_vars PROVE IInv'
  OBVIOUS
<1>1. CASE UNCHANGED vars
  <2>1. /\ UNCHANGED <<trainer, latest, policy, post, train, pub, written, failure, serving,
                       endpoint, manager, engine, loaded, exact, restored, serve, leases,
                       rollout, eval, prune, faults>>
    BY <1>1 DEF vars, pipelineVars, serviceVars, clientVars
  <2>2. TypeOK' /\ LearnerAhead'
    BY <2>1 DEF IInv, StepsFollow, TypeOK, LearnerAhead
  <2>3. QuietQueue
    BY <2>1, QueueIsQuiet DEF IInv, StepsFollow
  <2> QED
    BY <2>1, <2>2, <2>3, AllStays
<1>2. CASE TrainStep
  BY <1>2, TrainStartKeeps, TrainPreparedKeeps, TrainCommitsKeeps, TrainReturnsKeeps,
     TrainEndsKeeps DEF TrainStep
<1>3. CASE TrainFails
  BY <1>3, TrainFailsKeeps
<1>4. CASE PostStep
  BY <1>4, PostPruneKeeps, PostSchedulesKeeps DEF PostStep
<1>5. CASE \E s \in Steps : Write(s) \/ PubStep(s)
  BY <1>5, WriteKeeps, PubLosesKeeps, PubActivatesKeeps, PubServesKeeps, PubRefusedKeeps,
     PubUndurableKeeps, PubReportsKeeps, PubTearsDownKeeps DEF PubStep
<1>6. CASE ReplicaFails
  BY <1>6, ReplicaFailsKeeps
<1>7. CASE RecoverStep
  BY <1>7, RecoverStartKeeps, RecoverSkipsKeeps, RecoverRestartsKeeps, RecoverFailsKeeps
     DEF RecoverStep
<1>8. CASE \E w \in Workers : RolloutStart(w) \/ RolloutStep(w)
  BY <1>8, RolloutStartKeeps, RolloutAskedKeeps, RolloutWakesKeeps, RolloutLeasesKeeps,
     RolloutEndsKeeps DEF RolloutStep
<1>9. CASE EvalStep
  BY <1>9, EvalStartKeeps, EvalAskedKeeps, EvalWakesKeeps, EvalAcquiresKeeps,
     EvalLeasesKeeps, EvalEndsKeeps, EvalReleasesKeeps, EvalUnschedulesKeeps DEF EvalStep
<1>10. CASE PruneStep
  BY <1>10, PruneStartsKeeps, PruneUnloadsKeeps DEF PruneStep
<1> QED
  BY <1>1, <1>2, <1>3, <1>4, <1>5, <1>6, <1>7, <1>8, <1>9, <1>10 DEF Next

(* The invariant above holds of every behaviour of the specification: the  *)
(* order in which the publication tasks, the prune task and the rollouts   *)
(* have the serving lock keeps the steps they are about apart.             *)
THEOREM Invariant == Spec => []IInv
<1> QED
  BY InitHolds, NextKeeps, PTL DEF Spec

(* Types are correct, the learner is at most two steps ahead of what is    *)
(* served (_run_train_job awaits the serving of the step two before) and   *)
(* the pipeline at most one step behind the learner.                       *)
THEOREM TypeCorrect == Spec => []TypeOK
<1>1. IInv => TypeOK
  BY DEF IInv, StepsFollow
<1> QED
  BY <1>1, Invariant, PTL

(* Steps are served one after the other: no step is skipped, and none is   *)
(* served twice or after a later one, whatever transfers, loads, jobs and  *)
(* replicas fail (_publish_generation, _schedule_publication).             *)
THEOREM ServesInOrder == Spec => ServedInOrder
<1>1. ASSUME IInv, [Next]_vars
      PROVE  [serving' \in {serving, serving + 1}]_vars
  <2>1. ASSUME NEW s \in Steps, PubServes(s) PROVE serving' = serving + 1
    BY <1>1, <2>1 DEF IInv, StepsFollow, PubsFollow, PubServes
  <2>2. CASE UNCHANGED vars
    BY <2>2
  <2>3. CASE \E s \in Steps : Write(s) \/ PubStep(s)
    BY <2>1, <2>3 DEF PubStep, Write, PubLoses, PubActivates, PubRefused, PubUndurable,
                      PubReports, PubTearsDown, serviceVars
  <2>4. CASE TrainStep \/ TrainFails \/ PostStep
    BY <2>4 DEF TrainStep, TrainFails, PostStep, TrainStart, TrainPrepared, TrainCommits,
                TrainReturns, TrainEnds, PostPrune, PostSchedules, serviceVars
  <2>5. CASE ReplicaFails \/ RecoverStep
    BY <2>5 DEF ReplicaFails, RecoverStep, RecoverStart, RecoverSkips, RecoverRestarts,
                RecoverFails, serviceVars
  <2>6. CASE \E w \in Workers : RolloutStart(w) \/ RolloutStep(w)
    BY <2>6 DEF RolloutStart, RolloutStep, RolloutAsked, RolloutWakes, RolloutLeases,
                RolloutEnds, serviceVars
  <2>7. CASE EvalStep \/ PruneStep
    BY <2>7 DEF EvalStep, PruneStep, EvalStart, EvalAsked, EvalWakes, EvalAcquires,
                EvalLeases, EvalEnds, EvalReleases, EvalUnschedules, PruneStarts,
                PruneUnloads, serviceVars
  <2> QED
    BY <1>1, <2>2, <2>3, <2>4, <2>5, <2>6, <2>7 DEF Next
<1> QED
  BY <1>1, Invariant, PTL DEF Spec, ServedInOrder

-----------------------------------------------------------------------------
(* The adapters in the engine.                                             *)

(* Whoever is new to a step asks for one that is kept, and an evaluation   *)
(* that holds its adapter held it before.                                  *)
LEMMA EngineMoves ==
    ASSUME IInv, EngineFollows, policy' \in Nat, policy' >= policy,
           UNCHANGED <<serving, endpoint, manager, engine, loaded, exact, restored>>,
           \A w \in Workers : rollout'[w].pc # "idle" =>
              \/ rollout[w].pc # "idle" /\ rollout'[w].step = rollout[w].step
              \/ rollout'[w].step = policy,
           eval'.pc \in {"leasing", "running"} =>
              eval.pc \in {"leasing", "running"} /\ Evaluated' = Evaluated
    PROVE  EngineFollows'
<1>1. policy \in Nat /\ serving \in Nat /\ policy' \in Nat
  BY TypeFacts DEF IInv, StepsFollow
<1>2. policy'..serving \subseteq policy..serving
        /\ (policy <= serving => policy \in policy..serving)
  BY <1>1
<1>3. Answers' = Answers /\ \A t : Kept(t)' = Kept(t)
  BY DEF Answers, Kept
<1>4. Answers =>
         /\ loaded \subseteq engine
         /\ \A t \in policy'..serving : Kept(t)
         /\ \A w \in Workers : rollout'[w].pc # "idle" /\ rollout'[w].step <= serving =>
               Kept(rollout'[w].step)
         /\ eval'.pc \in {"leasing", "running"} => Evaluated' \in engine
  BY <1>1, <1>2 DEF EngineFollows
<1>5. endpoint = "up" /\ manager # "stopped" /\ eval'.pc \in {"leasing", "running"} =>
          Evaluated' \in exact
  BY DEF EngineFollows
<1> QED
  BY <1>3, <1>4, <1>5 DEF EngineFollows

LEMMA EngineOfTrainer ==
    ASSUME IInv, EngineFollows, TrainStep \/ TrainFails \/ PostStep
    PROVE  EngineFollows'
<1>1. TypeOK /\ policy \in Nat /\ latest \in Nat /\ policy <= latest /\ EvalFollows
  BY TypeFacts DEF IInv, StepsFollow, LeasesFollow
<1>2. /\ UNCHANGED <<serving, endpoint, manager, engine, loaded, exact, restored>>
      /\ UNCHANGED rollout /\ eval'.pc = eval.pc
      /\ policy' \in {policy, latest}
  BY <1>1 DEF TrainStep, TrainFails, PostStep, TrainStart, TrainPrepared, TrainCommits,
              TrainReturns, TrainEnds, PostPrune, PostSchedules, serviceVars, clientVars,
              TypeOK
<1>3. policy' \in Nat /\ policy' >= policy
  BY <1>1, <1>2
<1>4. eval.pc # "idle" => Evaluated' = Evaluated
  <2>1. ASSUME PostSchedules, eval.pc # "idle" PROVE Evaluated' = Evaluated
    <3>1. eval.queue # <<>> /\ eval.queue \in Seq(0..policy) /\ post.step \in Nat
      BY <1>1, <2>1, TypeFacts, PublicationAssumption DEF EvalFollows, TypeOK
    <3>2. eval.queue \in Seq(Nat)
      BY <1>1, <3>1, SeqMonotonic
    <3>3. Head(Append(eval.queue, post.step)) = Head(eval.queue)
      BY <3>1, <3>2, AppendProperties, HeadTailProperties, EmptySeq, LenProperties
    <3>4. eval'.queue = Append(eval.queue, post.step)
      BY <1>1, <2>1 DEF PostSchedules, TypeOK
    <3> QED
      BY <3>3, <3>4 DEF Evaluated
  <2>2. CASE ~PostSchedules
    <3>1. UNCHANGED eval
      BY <2>2 DEF TrainStep, TrainFails, PostStep, TrainStart, TrainPrepared, TrainCommits,
                  TrainReturns, TrainEnds, PostPrune, clientVars
    <3> QED
      BY <3>1 DEF Evaluated
  <2> QED
    BY <2>1, <2>2
<1> QED
  BY <1>2, <1>3, <1>4, EngineMoves

LEMMA EngineOfPublication ==
    ASSUME IInv, EngineFollows, NEW s \in Steps, Write(s) \/ PubStep(s)
    PROVE  EngineFollows'
<1>1. /\ TypeOK /\ policy \in Nat /\ serving \in Nat /\ s \in Nat
      /\ \A w \in Workers : rollout[w].step \in Nat
  BY TypeFacts DEF IInv, StepsFollow
<1>2. CASE Write(s) \/ PubLoses(s) \/ PubActivates(s) \/ PubUndurable(s) \/ PubReports(s)
  <2>1. UNCHANGED <<serving, endpoint, manager, engine, loaded, exact, restored, policy,
                    rollout, eval>>
    BY <1>2 DEF Write, PubLoses, PubActivates, PubUndurable, PubReports, pipelineVars,
                serviceVars, clientVars
  <2>2. policy' >= policy /\ policy' \in Nat /\ Evaluated' = Evaluated
    BY <1>1, <2>1 DEF Evaluated
  <2> QED
    BY <2>1, <2>2, EngineMoves
<1>3. CASE PubRefused(s) \/ PubTearsDown(s)
  <2>1. endpoint' = "cleared"
    BY <1>3 DEF PubRefused, PubTearsDown, Cleared
  <2> QED
    BY <2>1 DEF EngineFollows, Answers
<1>4. CASE PubServes(s)
  <2>1. s = serving + 1 /\ serving' = s
    BY <1>4 DEF IInv, StepsFollow, PubsFollow, PubServes
  <2>2. /\ UNCHANGED <<endpoint, manager, exact, restored, policy, rollout, eval>>
        /\ endpoint = "up" => engine' = engine \cup {s} /\ loaded' = loaded \cup {s}
    BY <1>4 DEF PubServes, pipelineVars, clientVars
  <2>3. Answers' = Answers /\ Evaluated' = Evaluated
    BY <2>2 DEF Answers, Evaluated
  <2>4. ASSUME Answers
        PROVE  /\ loaded' \subseteq engine'
               /\ \A t \in policy..s : t \in engine' \/ t < restored
               /\ \A w \in Workers : rollout[w].pc # "idle" /\ rollout[w].step <= s =>
                     rollout[w].step \in engine' \/ rollout[w].step < restored
               /\ eval.pc \in {"leasing", "running"} => Evaluated \in engine'
    <3>1. engine' = engine \cup {s} /\ loaded' = loaded \cup {s}
      BY <2>2, <2>4 DEF Answers
    <3>2. \A t \in policy..s : t = s \/ t \in policy..serving
      BY <1>1, <2>1
    <3>3. \A w \in Workers : rollout[w].step <= s =>
             rollout[w].step = s \/ rollout[w].step <= serving
      BY <1>1, <2>1
    <3> QED
      BY <2>4, <3>1, <3>2, <3>3 DEF EngineFollows, Kept
  <2> QED
    BY <2>1, <2>2, <2>3, <2>4 DEF EngineFollows, Kept
<1> QED
  BY <1>2, <1>3, <1>4 DEF PubStep

(* A restart brings back the serving adapter and the exact ones.           *)
LEMMA EngineOfReplica ==
    ASSUME IInv, EngineFollows, ReplicaFails \/ RecoverStep
    PROVE  EngineFollows'
<1>1. /\ TypeOK /\ policy \in Nat /\ serving \in Nat
      /\ \A w \in Workers : rollout[w].step \in Nat
  BY TypeFacts DEF IInv, StepsFollow
<1>2. CASE RecoverStart \/ RecoverSkips
  <2>1. UNCHANGED <<serving, endpoint, manager, engine, loaded, exact, restored, policy,
                    rollout, eval>>
    BY <1>2 DEF RecoverStart, RecoverSkips, serviceVars, clientVars
  <2>2. policy' >= policy /\ policy' \in Nat /\ Evaluated' = Evaluated
    BY <1>1, <2>1 DEF Evaluated
  <2> QED
    BY <2>1, <2>2, EngineMoves
<1>3. CASE ReplicaFails
  <2>1. /\ manager = "ready" /\ manager' = "quarantined"
        /\ UNCHANGED <<endpoint, exact, eval>>
    BY <1>3 DEF ReplicaFails, clientVars
  <2> QED
    BY <2>1 DEF EngineFollows, Answers, Evaluated
<1>4. CASE RecoverRestarts
  <2>1. /\ UNCHANGED <<serving, endpoint, exact, policy, rollout, eval>>
        /\ manager = "quarantined" /\ engine' = {serving} \cup exact /\ loaded' = {serving}
        /\ restored' = serving
    BY <1>4 DEF RecoverRestarts, clientVars
  <2>2. \A t \in Nat : t <= serving => KeptNext(t)
    BY <1>1, <2>1 DEF KeptNext
  <2>3. endpoint = "up" /\ eval.pc \in {"leasing", "running"} => Evaluated \in exact
    BY <2>1 DEF EngineFollows
  <2>4. Evaluated' = Evaluated /\ Answers' => endpoint = "up"
    BY <2>1 DEF Evaluated, Answers
  <2>5. \A t \in policy..serving : KeptNext(t)
    BY <1>1, <2>2
  <2>6. \A w \in Workers : rollout[w].step <= serving => KeptNext(rollout[w].step)
    BY <1>1, <2>2
  <2> QED
    BY <2>1, <2>3, <2>4, <2>5, <2>6 DEF EngineFollows, Evaluated, Answers, Kept, KeptNext
<1>5. CASE RecoverFails
  <2>1. endpoint' = "unpublished"
    BY <1>5 DEF RecoverFails
  <2> QED
    BY <2>1 DEF EngineFollows, Answers
<1> QED
  BY <1>2, <1>3, <1>4, <1>5 DEF RecoverStep

LEMMA EngineOfRollout ==
    ASSUME IInv, EngineFollows, NEW w \in Workers, RolloutStart(w) \/ RolloutStep(w)
    PROVE  EngineFollows'
<1>1. TypeOK /\ policy \in Nat
  BY TypeFacts DEF IInv, StepsFollow
<1>2. UNCHANGED <<serving, endpoint, manager, engine, loaded, exact, restored, policy, eval>>
  BY DEF RolloutStart, RolloutStep, RolloutAsked, RolloutWakes, RolloutLeases, RolloutEnds,
         pipelineVars, serviceVars
<1>3. \A v \in Workers : rollout'[v].pc # "idle" =>
         \/ rollout[v].pc # "idle" /\ rollout'[v].step = rollout[v].step
         \/ rollout'[v].step = policy
  <2>1. \A v \in Workers \ {w} : rollout'[v] = rollout[v]
    BY <1>1 DEF TypeOK, RolloutStart, RolloutStep, RolloutAsked, RolloutWakes, RolloutLeases,
                RolloutEnds, Ask, TakeLease, SetRollout
  <2>2. CASE RolloutStart(w)
    <3>1. \E pc : rollout' = [rollout EXCEPT ![w] = [pc |-> pc, step |-> policy]]
      BY <2>2 DEF RolloutStart, Ask, TakeLease
    <3> QED
      BY <1>1, <2>1, <3>1 DEF TypeOK
  <2>3. CASE RolloutAsked(w) \/ RolloutWakes(w) \/ RolloutLeases(w)
    <3>1. rollout[w].pc # "idle"
      BY <2>3 DEF RolloutAsked, RolloutWakes, RolloutLeases
    <3>2. \/ \E pc : rollout' = [rollout EXCEPT ![w] = [pc |-> pc, step |-> rollout[w].step]]
          \/ rollout' = [rollout EXCEPT ![w].pc = "idle"]
      BY <2>3 DEF RolloutAsked, RolloutWakes, RolloutLeases, Ask, TakeLease, SetRollout
    <3>3. rollout'[w].step = rollout[w].step
      BY <1>1, <3>2 DEF TypeOK
    <3> QED
      BY <2>1, <3>1, <3>3
  <2>4. CASE RolloutEnds(w)
    BY <1>1, <2>1, <2>4 DEF TypeOK, RolloutEnds, Idle
  <2> QED
    BY <2>2, <2>3, <2>4 DEF RolloutStep
<1>4. Evaluated' = Evaluated /\ policy' \in Nat /\ policy' >= policy
  BY <1>1, <1>2 DEF Evaluated
<1> QED
  BY <1>2, <1>3, <1>4, EngineMoves

LEMMA EngineOfEvaluation ==
    ASSUME IInv, EngineFollows, EvalStep
    PROVE  EngineFollows'
<1>1. TypeOK /\ policy \in Nat
  BY TypeFacts DEF IInv, StepsFollow
<1>2. UNCHANGED <<serving, endpoint, manager, loaded, restored, policy, rollout>>
  BY DEF EvalStep, EvalStart, EvalAsked, EvalWakes, EvalAcquires, EvalLeases, EvalEnds,
         EvalReleases, EvalUnschedules, pipelineVars, serviceVars
<1>3. CASE EvalStart \/ EvalAsked \/ EvalWakes \/ EvalEnds \/ EvalReleases \/ EvalUnschedules
  <2>1. eval'.pc \notin {"leasing", "running"} /\ UNCHANGED engine
    <3>1. \/ SetEval("unscheduling") \/ SetEval("asking") \/ SetEval("acquiring")
          \/ SetEval("waiting") \/ SetEval("releasing")
          \/ eval' = [pc |-> "idle", queue |-> Tail(eval.queue)]
      BY <1>3 DEF EvalStart, EvalAsked, EvalWakes, EvalEnds, EvalReleases, EvalUnschedules
    <3>2. \A pc : [eval EXCEPT !.pc = pc].pc = pc
      <4>1. "pc" \in DOMAIN eval
        BY <1>1, EvalType
      <4> QED
        BY <4>1, Zenon
    <3>3. eval'.pc \in {"unscheduling", "asking", "acquiring", "waiting", "releasing", "idle"}
      <4>1. \A pc : SetEval(pc) => eval'.pc = pc
        BY <3>2, Zenon DEF SetEval
      <4>2. eval' = [pc |-> "idle", queue |-> Tail(eval.queue)] => eval'.pc = "idle"
        OBVIOUS
      <4> QED
        BY <3>1, <4>1, <4>2
    <3>4. UNCHANGED engine
      BY <1>3 DEF EvalStart, EvalAsked, EvalWakes, EvalEnds, EvalReleases, EvalUnschedules,
                  serviceVars
    <3> QED
      BY <3>3, <3>4
  <2>2. Answers' = Answers /\ \A t : KeptNext(t) <=> Kept(t)
    BY <1>2, <2>1 DEF Answers, Kept, KeptNext
  <2> QED
    BY <1>2, <2>1, <2>2 DEF EngineFollows, Kept, KeptNext
<1>4. CASE EvalLeases
  <2>1. /\ UNCHANGED <<engine, exact>> /\ eval.pc = "leasing" /\ eval'.queue = eval.queue
    BY <1>1, <1>4 DEF TypeOK, EvalLeases, SetEval, serviceVars
  <2>2. Evaluated' = Evaluated /\ policy' \in Nat /\ policy' >= policy
    BY <1>1, <1>2, <2>1 DEF Evaluated
  <2> QED
    BY <1>2, <2>1, <2>2, EngineMoves
<1>5. CASE EvalAcquires
  <2>1. /\ eval'.queue = eval.queue /\ Evaluated' = Evaluated
        /\ engine \subseteq engine'
    BY <1>1, <1>5 DEF TypeOK, EvalAcquires, SetEval, Evaluated
  <2>2. eval'.pc \in {"leasing", "running"} =>
           /\ Evaluated \in exact'
           /\ Evaluated \in loaded \/ Evaluated \in engine'
    BY <1>1, <1>5 DEF TypeOK, EvalAcquires, SetEval
  <2>3. Answers' = Answers /\ \A t : Kept(t) => KeptNext(t)
    BY <1>2, <2>1 DEF Answers, Kept, KeptNext
  <2>4. Answers =>
           /\ loaded \subseteq engine'
           /\ \A t \in policy..serving : KeptNext(t)
           /\ \A w \in Workers : rollout[w].pc # "idle" /\ rollout[w].step <= serving =>
                 KeptNext(rollout[w].step)
           /\ eval'.pc \in {"leasing", "running"} => Evaluated \in engine'
    BY <2>1, <2>2, <2>3 DEF EngineFollows
  <2> QED
    BY <1>2, <2>1, <2>2, <2>3, <2>4 DEF EngineFollows, Kept, KeptNext
<1> QED
  BY <1>3, <1>4, <1>5 DEF EvalStep

LEMMA LeasedHas == \A p, t : <<p, t>> \in leases => t \in LeasedSteps
<1> SUFFICES ASSUME NEW p, NEW t, <<p, t>> \in leases PROVE \E l \in leases : t = l[2]
  BY DEF LeasedSteps
<1>1. t = <<p, t>>[2]
  OBVIOUS
<1> QED
  BY <1>1

(* What a prune unloads nobody has, asks for or waits for: the window is   *)
(* as wide as the learner runs ahead.                                      *)
LEMMA EngineOfPrune ==
    ASSUME Window >= 2, IInv, EngineFollows, PruneStep
    PROVE  EngineFollows'
<1>1. /\ TypeOK /\ policy \in Nat /\ serving \in Nat /\ Window \in Nat
      /\ \A w \in Workers : rollout[w].step \in Nat
      /\ EvalFollows /\ RolloutFollows /\ GuardFollows /\ AskFollows
  BY TypeFacts DEF IInv, StepsFollow, LeasesFollow, PrunesFollow
<1>2. UNCHANGED <<serving, endpoint, manager, exact, restored, policy, rollout, eval, leases>>
  BY DEF PruneStep, PruneStarts, PruneUnloads, pipelineVars, serviceVars
<1>3. Evaluated' = Evaluated /\ policy' \in Nat /\ policy' >= policy /\ Answers' = Answers
  BY <1>1, <1>2 DEF Evaluated, Answers
<1>4. CASE UNCHANGED <<engine, loaded>>
  BY <1>2, <1>3, <1>4, EngineMoves
<1>5. CASE PruneUnloads /\ Answers /\ engine' = engine \ Pruned /\ loaded' = loaded \ Pruned
  <2>1. PICK R \in Nat : PruneOf(R)
    BY <1>1, <1>5 DEF GuardFollows, PruneUnloads, Answers
  <2>2. R <= policy /\ serving <= R /\ Retained(R) \cup LeasedSteps \cup {serving} \subseteq
                                         prune.retain \cup {serving}
    BY <2>1 DEF PruneOf
  <2>3. \A t : t \in Retained(R) \cup LeasedSteps \cup {serving} => t \notin Pruned
    BY <2>2 DEF Pruned
  <2>4. \A t : Kept(t) /\ t \notin Pruned => KeptNext(t)
    BY <1>2, <1>5 DEF Kept, KeptNext
  <2>5. \A t \in policy..serving : KeptNext(t)
    <3>1. \A t \in policy..serving : t = serving
      BY <1>1, <2>2
    <3> QED
      BY <1>5, <2>3, <2>4, <3>1 DEF EngineFollows
  <2>6. ASSUME NEW w \in Workers, rollout[w].pc # "idle", rollout[w].step <= serving
        PROVE  KeptNext(rollout[w].step)
    <3>1. Kept(rollout[w].step)
      BY <1>5, <2>6 DEF EngineFollows
    <3>2. CASE rollout[w].pc = "running"
      <4>1. rollout[w].step \in LeasedSteps
        BY <1>1, <3>2, LeasedHas DEF RolloutFollows
      <4> QED
        BY <2>3, <2>4, <3>1, <4>1
    <3>3. CASE rollout[w].pc \in {"asking", "leasing"}
      <4>1. rollout[w].step >= R - 2
        BY <2>1, <3>3 DEF PruneOf
      <4>2. rollout[w].step \in Retained(R)
        BY <1>1, <2>2, <2>6, <4>1 DEF Retained
      <4> QED
        BY <2>3, <2>4, <3>1, <4>2
    <3>4. CASE rollout[w].pc = "waiting"
      <4>1. rollout[w].step = serving
        BY <1>1, <1>5, <2>6, <3>4 DEF AskFollows, Answers
      <4> QED
        BY <2>3, <2>4, <3>1, <4>1
    <3> QED
      BY <1>1, <2>6, <3>2, <3>3, <3>4 DEF TypeOK
  <2>7. eval.pc \in {"leasing", "running"} => Evaluated \in engine'
    <3>1. ASSUME eval.pc # "idle" PROVE Evaluated \in LeasedSteps
      <4>1. eval.queue # <<>> /\ eval.queue \in Seq(0..policy)
        BY <1>1, <3>1, TypeFacts DEF EvalFollows
      <4>2. 1 \in DOMAIN eval.queue /\ Evaluated = eval.queue[1]
        BY <4>1, HeadTailProperties, EmptySeq, LenProperties DEF Evaluated
      <4> QED
        BY <1>1, <4>2, LeasedHas DEF EvalFollows
    <3> QED
      BY <1>5, <2>3, <3>1 DEF EngineFollows
  <2>8. loaded' \subseteq engine'
    BY <1>5 DEF EngineFollows
  <2> QED
    BY <1>2, <1>3, <2>5, <2>6, <2>7, <2>8 DEF EngineFollows, Kept, KeptNext
<1>6. CASE ~Answers
  BY <1>2, <1>3, <1>6 DEF EngineFollows
<1> QED
  BY <1>4, <1>5, <1>6 DEF PruneStep, PruneStarts, PruneUnloads, serviceVars

(* A rollout or an evaluation that holds a lease finds its adapter in the  *)
(* engine, but for the rollouts of steps before the one served when the    *)
(* replica was last restarted: pruning, whose list of leases is taken      *)
(* before it waits for the serving lock, never unloads a step that is      *)
(* leased or that somebody is about to lease.  It takes a retention window *)
(* of the two steps the learner may run ahead (adapter_lease, prune_guard, *)
(* prune_loaded_adapters, acquire_exact_adapter, _recover_replica_locked). *)
THEOREM LeasedLoaded == Window >= 2 => (Spec => []LeasedIsLoaded)
<1> SUFFICES ASSUME Window >= 2 PROVE Spec => []LeasedIsLoaded
  OBVIOUS
<1>1. Init => EngineFollows
  <2> SUFFICES ASSUME Init PROVE EngineFollows
    OBVIOUS
  <2>1. /\ policy = 0 /\ serving = 0 /\ engine = {0} /\ loaded = {0} /\ eval.pc = "idle"
        /\ rollout = [w \in Workers |-> Idle]
    BY DEF Init
  <2>2. \A t \in policy..serving : t = 0
    BY <2>1
  <2> QED
    BY <2>1, <2>2 DEF EngineFollows, Kept, Idle
<1>2. IInv /\ EngineFollows /\ [Next]_vars => EngineFollows'
  <2> SUFFICES ASSUME IInv, EngineFollows, [Next]_vars PROVE EngineFollows'
    OBVIOUS
  <2>1. CASE UNCHANGED vars
    <3>1. UNCHANGED <<serving, endpoint, manager, engine, loaded, exact, restored, policy,
                      rollout, eval>>
      BY <2>1 DEF vars, pipelineVars, serviceVars, clientVars
    <3>2. policy' \in Nat /\ policy' >= policy /\ Evaluated' = Evaluated
      BY <3>1, TypeFacts DEF IInv, StepsFollow, Evaluated
    <3> QED
      BY <3>1, <3>2, EngineMoves
  <2> QED
    BY <2>1, EngineOfTrainer, EngineOfPublication, EngineOfReplica, EngineOfRollout,
       EngineOfEvaluation, EngineOfPrune DEF Next
<1>3. IInv /\ EngineFollows => LeasedIsLoaded
  BY DEF IInv, LeasesFollow, RolloutFollows, EngineFollows, LeasedIsLoaded, Kept
<1> QED
  BY <1>1, <1>2, <1>3, Invariant, PTL DEF Spec

=============================================================================
