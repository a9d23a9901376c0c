--------------------- MODULE CheckpointRetentionProofs ---------------------
(***************************************************************************)
(* Proofs about CheckpointRetention for any backends, workers, steps,      *)
(* intervals and lags.                                                     *)
(*                                                                         *)
(* Whether a step is evaluated is decided before the post-train task of    *)
(* the step before has scheduled its own evaluation, so the invariant      *)
(* tells apart what is decided, what is pending and what is scheduled.     *)
(* What a deletion may delete is chosen long before it does; the invariant *)
(* says that what is chosen is out of use, and comes into use no more.     *)
(***************************************************************************)
EXTENDS CheckpointRetention, SequenceTheorems, TLAPS

(* The steps the backend has learned, and those the pipeline trained.      *)
TrainFollows ==
    /\ train.pc \in {"trained", "learned"} => learned = step + 1
    /\ train.pc \notin {"trained", "learned"} => learned = step
    /\ train.pc \in {"collect", "start", "dispatched"} => step < MaxStep
    /\ train.pc = "ended" => cause # None
    /\ cause = "end" => train.pc = "ended"

PostFollows ==
    /\ post.pc # "done" => post.step = step /\ lastEval < step /\ train.pc # "ended"
    /\ lastEval <= step

(* An evaluation that is due is scheduled by the post-train task of its    *)
(* step, which may be pending when the next one is decided.                *)
Deciding == train.pc \in {"start", "dispatched", "trained", "learned"}

PaceFollows ==
    /\ step - lastEval <= EvalEvery
    /\ post.pc = "done" \/ ~post.eval => step - lastEval < EvalEvery
    /\ Deciding /\ ~train.eval => step + 1 - lastEval < EvalEvery
    /\ Deciding /\ train.eval /\ post.pc # "done" => step + 1 - lastEval >= EvalEvery

(* The evaluations scheduled, in the order of their steps.                 *)
AskedFollows ==
    /\ \A i \in DOMAIN asked : asked[i] <= lastEval
    /\ asked # <<>> => lastEval = asked[Len(asked)]
    /\ \A i \in DOMAIN asked : i + 2 \in DOMAIN asked => asked[i + 2] - asked[i] >= EvalEvery
    /\ Deciding /\ train.eval =>
          \A i \in DOMAIN asked : i + 1 = Len(asked) => step + 1 - asked[i] >= EvalEvery
    /\ post.pc # "done" /\ post.eval =>
          \A i \in DOMAIN asked : i + 1 = Len(asked) => step - asked[i] >= EvalEvery

(* Those that wait, and the one that runs, are different ones.             *)
QueueFollows ==
    /\ \A i, j \in DOMAIN evals.queue : i < j => evals.queue[i] < evals.queue[j]
    /\ \A i \in DOMAIN evals.queue :
          /\ evals.queue[i] <= lastEval
          /\ evals.running # None => evals.running < evals.queue[i]
    /\ evals.running # None => evals.running <= lastEval

StageFollows ==
    /\ cause # "failure" /\ run = "stages" =>
          evals.scheduled = ToSet(evals.queue) \cup ({evals.running} \ {None})
    /\ cause = None => evals.stage = "on"
    /\ evals.stage = "over" /\ cause # "failure" => evals.running = None
    /\ evals.stage = "over" /\ cause = "end" => evals.scheduled = {} /\ evals.queue = <<>>
    /\ run = "ended" => train.pc = "ended" /\ post.pc = "done" /\ evals.stage = "over"

(* What a deletion has chosen nobody uses.                                 *)
DeletionFollows ==
    post.pc \in {"listed", "leased", "pruned"} =>
       \A s \in post.listed \ post.keep : s \notin InUse

IInv == /\ TypeOK /\ TrainFollows /\ PostFollows /\ PaceFollows /\ AskedFollows
        /\ QueueFollows /\ StageFollows /\ DeletionFollows
-----------------------------------------------------------------------------
(* Facts the steps share.                                                  *)

LEMMA TypeFacts ==
    ASSUME TypeOK
    PROVE  /\ step \in Nat /\ learned \in Nat /\ lastEval \in Nat /\ written \in Nat
           /\ serving \in Nat /\ MaxStep \in Nat /\ step <= MaxStep
           /\ {EvalEvery, RetainEvery, Lag, Capacity, SaveEvery} \subseteq Nat \ {0}
           /\ asked \in Seq(Nat) /\ evals.queue \in Seq(Nat) /\ evals.queue \in Seq(Steps)
           /\ DOMAIN asked = 1..Len(asked) /\ Len(asked) \in Nat
           /\ DOMAIN evals.queue = 1..Len(evals.queue) /\ Len(evals.queue) \in Nat
           /\ \A i \in DOMAIN asked : asked[i] \in Steps /\ asked[i] \in Nat
           /\ \A i \in DOMAIN evals.queue : evals.queue[i] \in Steps /\ evals.queue[i] \in Nat
           /\ evals.running \in Nat \cup {None}
           /\ Steps \subseteq Nat /\ None \notin Nat
<1>1. /\ MaxStep \in Nat /\ None \notin Nat /\ Steps \subseteq Nat
      /\ {EvalEvery, RetainEvery, Lag, Capacity, SaveEvery} \subseteq Nat \ {0}
  BY RetentionAssumption DEF Steps
<1>2. /\ step \in Nat /\ learned \in Nat /\ lastEval \in Nat /\ written \in Nat
      /\ serving \in Nat /\ step <= MaxStep
  BY <1>1 DEF TypeOK, Steps
<1>3. asked \in Seq(Steps) /\ evals.queue \in Seq(Steps) /\ evals.running \in Steps \cup {None}
  BY DEF TypeOK
<1>4. /\ DOMAIN asked = 1..Len(asked) /\ Len(asked) \in Nat
      /\ DOMAIN evals.queue = 1..Len(evals.queue) /\ Len(evals.queue) \in Nat
      /\ \A i \in DOMAIN asked : asked[i] \in Steps
      /\ \A i \in DOMAIN evals.queue : evals.queue[i] \in Steps
  BY <1>3, LenProperties, ElementOfSeq
<1>5. asked \in Seq(Nat) /\ evals.queue \in Seq(Nat)
  BY <1>1, <1>3, SeqMonotonic
<1> QED
  BY <1>1, <1>2, <1>3, <1>4, <1>5

(* The sets the records range over, by name.                               *)
TrainPcs == {"top", "collect", "start", "dispatched", "trained", "learned", "raising",
             "wrap", "ended"}
TrainStates == [pc : TrainPcs, eval : BOOLEAN]
PostStates == [pc : {"waiting", "listed", "leased", "pruned", "log", "done"},
               step : Steps, eval : BOOLEAN, dispatched : BOOLEAN,
               listed : SUBSET Steps, keep : SUBSET Steps]
EvalStates == [queue : Seq(Steps), scheduled : SUBSET Steps,
               running : Steps \cup {None}, stage : {"on", "over"}]

LEMMA Records ==
    ASSUME TypeOK
    PROVE  train \in TrainStates /\ post \in PostStates /\ evals \in EvalStates
BY DEF TypeOK, TrainStates, TrainPcs, PostStates, EvalStates

LEMMA TrainEdits ==
    ASSUME TypeOK, NEW pc \in TrainPcs
    PROVE  [train EXCEPT !.pc = pc] \in TrainStates
<1>1. train \in TrainStates
  BY Records
<1> QED
  BY <1>1 DEF TrainStates

LEMMA DispatchedType ==
    ASSUME TypeOK
    PROVE  Dispatched \in PostStates
<1>1. post \in PostStates
  BY Records
<1> QED
  BY <1>1 DEF Dispatched, PostStates

(* A step of the training stage that changes only these two records.       *)
LEMMA TrainPostType ==
    ASSUME TypeOK, train' \in TrainStates, post' \in PostStates,
           UNCHANGED <<backend, step, learned, written, serving, files, optimizer, lease,
                       evals, asked, lastEval, cause, run>>
    PROVE  TypeOK'
<1>1. evals' = evals /\ asked' = asked /\ lastEval' = lastEval /\ cause' = cause /\ run' = run
      /\ backend' = backend /\ step' = step /\ learned' = learned /\ written' = written
      /\ serving' = serving /\ files' = files /\ optimizer' = optimizer /\ lease' = lease
  OBVIOUS
<1> QED
  BY <1>1 DEF TypeOK, TrainStates, TrainPcs, PostStates

LEMMA Elements == \A q : ToSet(q) = {q[i] : i \in DOMAIN q}
BY DEF ToSet

Rest == <<step, lease, evals, asked, lastEval, run>>

(* A step of the training stage or of the backend that leaves the post-    *)
(* train task as it is, or lets it go.                                     *)
LEMMA TrainMoves ==
    ASSUME IInv, TypeOK', TrainFollows', UNCHANGED Rest,
           post' \in {post, Dispatched},
           train'.pc = "ended" <=> train.pc = "ended", UNCHANGED cause,
           train'.pc \in {"start", "dispatched", "trained", "learned"} =>
              Deciding /\ train'.eval = train.eval
    PROVE  IInv'
<1>1. /\ TypeOK /\ PostFollows /\ PaceFollows /\ AskedFollows /\ QueueFollows
      /\ StageFollows /\ DeletionFollows
      /\ UNCHANGED <<step, lease, evals, asked, lastEval, cause, run>>
  BY DEF IInv, Rest
<1>2. /\ post'.pc = post.pc /\ post'.step = post.step /\ post'.eval = post.eval
      /\ post'.listed = post.listed /\ post'.keep = post.keep
  BY <1>1 DEF Dispatched, TypeOK
<1>3. Deciding' => Deciding /\ train'.eval = train.eval
  BY DEF Deciding
<1>4. PostFollows' /\ PaceFollows'
  BY <1>1, <1>2, <1>3 DEF PostFollows, PaceFollows
<1>5. AskedFollows'
  BY <1>1, <1>2, <1>3 DEF AskedFollows
<1>6. QueueFollows'
  BY <1>1 DEF QueueFollows
<1>7. StageFollows'
  BY <1>1, <1>2 DEF StageFollows
<1>8. DeletionFollows'
  BY <1>1, <1>2 DEF DeletionFollows, InUse, Leased, Reference
<1> QED
  BY <1>4, <1>5, <1>6, <1>7, <1>8 DEF IInv

LEMMA TrainTopKeeps ==
    ASSUME IInv, TrainTop
    PROVE  IInv'
<1>1. /\ TypeOK /\ TrainFollows /\ train.pc = "top" /\ train'.pc = "collect"
      /\ train' = [train EXCEPT !.pc = "collect"] /\ step < MaxStep
      /\ post' \in {post, Dispatched}
      /\ UNCHANGED <<backend, step, learned, written, serving, files, optimizer, lease, evals,
                     asked, lastEval, cause, run>>
  BY DEF IInv, TrainTop, backendVars, evalVars, TypeOK
<1>2. TypeOK'
  <2>1. train' \in TrainStates
    BY <1>1, TrainEdits DEF TrainPcs
  <2>2. post' \in PostStates
    BY <1>1, Records, DispatchedType
  <2> QED
    BY <1>1, <2>1, <2>2, TrainPostType
<1>3. TrainFollows'
  BY <1>1 DEF TrainFollows
<1> QED
  BY <1>1, <1>2, <1>3, TrainMoves DEF Rest

LEMMA TrainDispatchedKeeps ==
    ASSUME IInv, TrainDispatched
    PROVE  IInv'
<1>1. /\ TypeOK /\ TrainFollows /\ train.pc = "start" /\ train'.pc = "dispatched"
      /\ train' = [train EXCEPT !.pc = "dispatched"] /\ train'.eval = train.eval
      /\ post' = Dispatched
      /\ UNCHANGED <<backend, step, learned, written, serving, files, optimizer, lease, evals,
                     asked, lastEval, cause, run>>
  BY DEF IInv, TrainDispatched, backendVars, evalVars, TypeOK
<1>2. TypeOK'
  <2>1. train' \in TrainStates
    BY <1>1, TrainEdits DEF TrainPcs
  <2>2. post' \in PostStates
    BY <1>1, Records, DispatchedType
  <2> QED
    BY <1>1, <2>1, <2>2, TrainPostType
<1>3. TrainFollows'
  BY <1>1 DEF TrainFollows
<1> QED
  BY <1>1, <1>2, <1>3, TrainMoves DEF Rest, Deciding

LEMMA TrainRaisesKeeps ==
    ASSUME IInv, TrainRaises
    PROVE  IInv'
<1>1. /\ TypeOK /\ TrainFollows /\ train.pc = "start" /\ train'.pc = "raising"
      /\ train' = [train EXCEPT !.pc = "raising"] /\ post' = Dispatched
      /\ UNCHANGED <<backend, step, learned, written, serving, files, optimizer, lease, evals,
                     asked, lastEval, cause, run>>
  BY DEF IInv, TrainRaises, backendVars, evalVars, TypeOK
<1>2. TypeOK'
  <2>1. train' \in TrainStates
    BY <1>1, TrainEdits DEF TrainPcs
  <2>2. post' \in PostStates
    BY <1>1, Records, DispatchedType
  <2> QED
    BY <1>1, <2>1, <2>2, TrainPostType
<1>3. TrainFollows'
  BY <1>1 DEF TrainFollows
<1> QED
  BY <1>1, <1>2, <1>3, TrainMoves DEF Rest

LEMMA TrainCommitsKeeps ==
    ASSUME IInv, TrainCommits
    PROVE  IInv'
<1>1. /\ TypeOK /\ TrainFollows /\ train.pc = "trained" /\ train'.pc = "learned"
      /\ train' = [train EXCEPT !.pc = "learned"] /\ train'.eval = train.eval
      /\ UNCHANGED <<backend, step, post, learned, written, serving, files, optimizer, lease,
                     evals, asked, lastEval, cause, run>>
  BY DEF IInv, TrainCommits, backendVars, evalVars, TypeOK
<1>2. TypeOK'
  <2>1. train' \in TrainStates
    BY <1>1, TrainEdits DEF TrainPcs
  <2>2. post' \in PostStates
    BY <1>1, Records, DispatchedType
  <2> QED
    BY <1>1, <2>1, <2>2, TrainPostType
<1>3. TrainFollows'
  BY <1>1 DEF TrainFollows
<1> QED
  BY <1>1, <1>2, <1>3, TrainMoves DEF Rest, Deciding

LEMMA TrainWrapKeeps ==
    ASSUME IInv, TrainWrap
    PROVE  IInv'
<1>1. /\ TypeOK /\ TrainFollows /\ train.pc \in {"collect", "top"} /\ train'.pc = "wrap"
      /\ train' = [train EXCEPT !.pc = "wrap"] /\ post' = Dispatched
      /\ UNCHANGED <<backend, step, learned, written, serving, files, optimizer, lease, evals,
                     asked, lastEval, cause, run>>
  BY DEF IInv, TrainWrap, backendVars, evalVars, TypeOK
<1>2. TypeOK'
  BY <1>1 DEF TypeOK, Dispatched
<1>3. TrainFollows'
  BY <1>1 DEF TrainFollows
<1> QED
  BY <1>1, <1>2, <1>3, TrainMoves DEF Rest

(* A step is learned, into a checkpoint or a slot of the pool.             *)
LEMMA TrainLearnsKeeps ==
    ASSUME IInv, TrainLearns
    PROVE  IInv'
<1>1. /\ TypeOK /\ TrainFollows /\ train.pc = "dispatched" /\ train'.pc = "trained"
      /\ train' = [train EXCEPT !.pc = "trained"] /\ train'.eval = train.eval
      /\ learned' = step + 1 /\ step < MaxStep /\ learned = step
      /\ UNCHANGED <<backend, step, post, optimizer, lease, evals, asked, lastEval, cause, run>>
  BY DEF IInv, TrainLearns, evalVars, TypeOK, TrainFollows
<1>2. /\ step \in Nat /\ written \in Nat /\ serving \in Nat /\ MaxStep \in Nat
      /\ Capacity \in Nat /\ Capacity > 0
  BY <1>1, TypeFacts
<1>3. /\ learned' \in step'..MaxStep /\ written' \in 0..learned' /\ serving' \in 0..learned'
      /\ learned' - written' <= Capacity /\ files' \subseteq 0..written'
      /\ optimizer' \subseteq 1..written'
  <2>1. CASE backend = "local" /\ written' = step + 1 /\ serving' = step + 1
             /\ files' = files \cup {step + 1}
    BY <1>1, <1>2, <2>1 DEF TypeOK
  <2>2. CASE InFlight < Capacity /\ UNCHANGED <<files, written, serving>>
    <3>1. InFlight >= learned - written /\ InFlight \in Int
      BY <1>1, <1>2 DEF InFlight
    <3> QED
      BY <1>1, <1>2, <2>2, <3>1 DEF TypeOK
  <2> QED
    BY <2>1, <2>2 DEF TrainLearns
<1>4. TypeOK'
  <2>1. train' \in TrainStates
    BY <1>1, TrainEdits DEF TrainPcs
  <2>2. /\ UNCHANGED <<backend, step, post, lease, evals, asked, lastEval, cause, run>>
        /\ TypeOK
    BY <1>1
  <2> QED
    BY <1>3, <2>1, <2>2 DEF TypeOK, TrainStates, TrainPcs
<1>5. TrainFollows'
  BY <1>1 DEF TrainFollows
<1> QED
  BY <1>1, <1>4, <1>5, TrainMoves DEF Rest, Deciding

LEMMA BackendKeeps ==
    ASSUME IInv, BackendStep
    PROVE  IInv'
<1>1. /\ TypeOK /\ TrainFollows
      /\ UNCHANGED <<backend, step, train, post, learned, lease, evals, asked, lastEval,
                     cause, run>>
  BY DEF IInv, BackendStep, WriteAdapter, WriteOptimizer, Serve, trainerVars, evalVars
<1>2. /\ learned \in Nat /\ written \in Nat /\ serving \in Nat /\ step \in Nat
      /\ Capacity \in Nat
  BY <1>1, TypeFacts
<1>3. /\ written' \in 0..learned /\ serving' \in 0..learned
      /\ learned - written' <= Capacity /\ files' \subseteq 0..written'
      /\ optimizer' \subseteq 1..written'
  <2>1. CASE WriteAdapter
    <3>1. /\ written' = written + 1 /\ written < learned /\ files' = files \cup {written + 1}
          /\ UNCHANGED <<serving, optimizer>>
      BY <2>1 DEF WriteAdapter
    <3> QED
      BY <1>1, <1>2, <3>1 DEF TypeOK
  <2>2. CASE WriteOptimizer
    <3>1. /\ written > 0 /\ optimizer' = optimizer \cup {written}
          /\ UNCHANGED <<written, serving, files>>
      BY <2>2 DEF WriteOptimizer, ShardOwed
    <3> QED
      BY <1>1, <1>2, <3>1 DEF TypeOK
  <2>3. CASE Serve
    <3>1. /\ serving < Latest /\ serving' = serving + 1
          /\ UNCHANGED <<written, optimizer, files>>
      BY <2>3 DEF Serve
    <3>2. Latest <= learned /\ Latest \in Int
      BY <1>2 DEF Latest
    <3> QED
      BY <1>1, <1>2, <3>1, <3>2 DEF TypeOK
  <2> QED
    BY <2>1, <2>2, <2>3 DEF BackendStep
<1>4. TypeOK'
  BY <1>1, <1>3 DEF TypeOK
<1>5. TrainFollows'
  BY <1>1 DEF TrainFollows
<1> QED
  BY <1>1, <1>4, <1>5, TrainMoves DEF Rest, Deciding

(* The evaluation of a step is decided: the last one scheduled is EvalEvery *)
(* steps away, or it is not due.                                           *)
LEMMA TrainStartKeeps ==
    ASSUME IInv, TrainStart
    PROVE  IInv'
<1>1. /\ TypeOK /\ TrainFollows /\ PostFollows /\ PaceFollows /\ AskedFollows
      /\ QueueFollows /\ StageFollows /\ DeletionFollows /\ train.pc = "collect"
      /\ train' = [pc |-> "start", eval |-> ShouldEval(step + 1)]
      /\ UNCHANGED <<backend, step, post, learned, written, serving, files, optimizer,
                     lease, evals, asked, lastEval, cause, run>>
  BY DEF IInv, TrainStart, backendVars, evalVars
<1>2. /\ step \in Nat /\ lastEval \in Nat /\ EvalEvery \in Nat
      /\ \A i \in DOMAIN asked : asked[i] \in Nat
  BY <1>1, TypeFacts
<1>3. train'.pc = "start" /\ (train'.eval <=> step + 1 - lastEval >= EvalEvery)
  <2>1. train'.pc = "start"
    BY <1>1
  <2>2. train'.eval = ShouldEval(step + 1)
    BY <1>1
  <2>3. ShouldEval(step + 1) \in BOOLEAN
    BY DEF ShouldEval
  <2>4. train'.eval = TRUE \/ train'.eval = FALSE
    BY <2>2, <2>3, Zenon
  <2>5. train'.eval <=> ShouldEval(step + 1)
    BY <2>2, <2>3, <2>4, Zenon
  <2> QED
    <3>1. ShouldEval(step + 1) <=> step + 1 - lastEval >= EvalEvery
      BY <1>2 DEF ShouldEval
    <3> QED
      BY <2>1, <2>5, <3>1, Zenon
<1>4. TypeOK'
  <2>1. ShouldEval(step + 1) \in BOOLEAN
    BY DEF ShouldEval
  <2> QED
    BY <1>1, <2>1 DEF TypeOK
<1>5. TrainFollows' /\ PostFollows'
  BY <1>1, <1>3 DEF TrainFollows, PostFollows
<1>6. PaceFollows'
  BY <1>1, <1>2, <1>3 DEF PaceFollows
<1>7. AskedFollows'
  <2>1. train'.eval => \A i \in DOMAIN asked : step + 1 - asked[i] >= EvalEvery
    BY <1>1, <1>2, <1>3 DEF AskedFollows
  <2> QED
    BY <1>1, <2>1 DEF AskedFollows
<1>8. QueueFollows'
  BY <1>1 DEF QueueFollows
<1>9. StageFollows'
  BY <1>1 DEF StageFollows
<1>10. DeletionFollows'
  BY <1>1 DEF DeletionFollows, InUse, Leased, Reference
<1> QED
  BY <1>4, <1>5, <1>6, <1>7, <1>8, <1>9, <1>10 DEF IInv

(* The step is published: what was decided for it is now pending.          *)
LEMMA TrainReturnsKeeps ==
    ASSUME IInv, TrainReturns
    PROVE  IInv'
<1>1. /\ TypeOK /\ TrainFollows /\ PostFollows /\ PaceFollows /\ AskedFollows
      /\ QueueFollows /\ StageFollows /\ train.pc = "learned" /\ post.pc = "done"
      /\ step' = learned /\ train' = [train EXCEPT !.pc = "top"]
      /\ post' = [NoPost EXCEPT !.pc = "waiting", !.step = learned,
                                !.eval = train.eval, !.dispatched = FALSE]
      /\ UNCHANGED <<backend, learned, written, serving, files, optimizer,
                     lease, evals, asked, lastEval, cause, run>>
  BY DEF IInv, TrainReturns, backendVars, evalVars
<1>2. /\ step \in Nat /\ lastEval \in Nat /\ EvalEvery \in Nat /\ learned \in Nat
      /\ MaxStep \in Nat /\ learned = step + 1 /\ learned <= MaxStep
      /\ \A i \in DOMAIN asked : asked[i] \in Nat
  BY <1>1, TypeFacts DEF TypeOK, TrainFollows
<1>3. /\ train'.pc = "top" /\ post'.pc = "waiting" /\ post'.step = step + 1
      /\ post'.eval = train.eval /\ step' = step + 1 /\ Deciding /\ ~Deciding'
  BY <1>1, <1>2 DEF TypeOK, NoPost, Deciding
<1>4. TypeOK'
  <2>1. learned \in Steps /\ step' \in Steps
    BY <1>1, <1>2 DEF Steps
  <2>2. post' = [pc |-> "waiting", step |-> learned, eval |-> train.eval, dispatched |-> FALSE,
                 listed |-> {}, keep |-> {}]
    BY <1>1 DEF NoPost
  <2>3. post' \in [pc : {"waiting", "listed", "leased", "pruned", "log", "done"},
                   step : Steps, eval : BOOLEAN, dispatched : BOOLEAN,
                   listed : SUBSET Steps, keep : SUBSET Steps]
    <3>1. train.eval \in BOOLEAN
      BY <1>1 DEF TypeOK
    <3> QED
      BY <2>1, <2>2, <3>1
  <2>4. train' \in TrainStates
    BY <1>1, TrainEdits DEF TrainPcs
  <2>5. learned' \in step'..MaxStep
    BY <1>1, <1>2
  <2>6. UNCHANGED <<backend, learned, written, serving, files, optimizer, lease, evals, asked,
                    lastEval, cause, run>>
        /\ TypeOK
    BY <1>1
  <2> QED
    BY <2>1, <2>3, <2>4, <2>5, <2>6 DEF TypeOK, TrainStates, TrainPcs
<1>5. TrainFollows'
  BY <1>1, <1>2, <1>3 DEF TrainFollows
<1>6. PostFollows' /\ PaceFollows'
  BY <1>1, <1>2, <1>3 DEF PostFollows, PaceFollows
<1>7. AskedFollows'
  BY <1>1, <1>2, <1>3 DEF AskedFollows
<1>8. QueueFollows'
  BY <1>1 DEF QueueFollows
<1>9. StageFollows'
  BY <1>1 DEF StageFollows
<1>10. DeletionFollows'
  BY <1>3 DEF DeletionFollows
<1> QED
  BY <1>4, <1>5, <1>6, <1>7, <1>8, <1>9, <1>10 DEF IInv

LEMMA TrainEndsKeeps ==
    ASSUME IInv, TrainEnds
    PROVE  IInv'
<1>1. /\ TypeOK /\ TrainFollows /\ PostFollows /\ PaceFollows /\ AskedFollows
      /\ QueueFollows /\ StageFollows /\ DeletionFollows
      /\ train.pc \in {"wrap", "raising"} /\ post.pc = "done"
      /\ train' = [train EXCEPT !.pc = "ended"]
      /\ cause' \in {cause, "end", "failure"}
      /\ cause' # "failure" => cause \in {None, cause'}
      /\ UNCHANGED <<backend, step, post, learned, written, serving, files, optimizer,
                     lease, evals, asked, lastEval, run>>
  BY DEF IInv, TrainEnds, RequestStop, done, backendVars, evalVars
<1>2. cause' # None /\ None # "failure"
  BY RetentionAssumption DEF TrainEnds, RequestStop, done
<1>3. train'.pc = "ended" /\ ~Deciding'
  BY <1>1 DEF TypeOK, Deciding
<1>4. TypeOK'
  <2>1. train' \in [pc : {"top", "collect", "start", "dispatched", "trained",
                          "learned", "raising", "wrap", "ended"}, eval : BOOLEAN]
    BY <1>1 DEF TypeOK
  <2>2. cause' \in {None, "end", "signal", "failure"} /\ (cause = "failure" => cause' = "failure")
    BY <1>1, <1>2 DEF TypeOK
  <2> QED
    BY <1>1, <2>1, <2>2 DEF TypeOK
<1>5. TrainFollows'
  BY <1>1, <1>2, <1>3 DEF TrainFollows
<1>6. PostFollows' /\ PaceFollows'
  BY <1>1, <1>3 DEF PostFollows, PaceFollows
<1>7. AskedFollows'
  BY <1>1, <1>3 DEF AskedFollows
<1>8. QueueFollows'
  BY <1>1 DEF QueueFollows
<1>9. StageFollows'
  BY <1>1, <1>2 DEF StageFollows, TrainFollows
<1>10. DeletionFollows'
  BY <1>1 DEF DeletionFollows
<1> QED
  BY <1>4, <1>5, <1>6, <1>7, <1>8, <1>9, <1>10 DEF IInv

(* What nobody uses comes into use no more.                                *)
LEMMA DeletionMoves ==
    ASSUME TypeOK, DeletionFollows, UNCHANGED post,
           \A s \in Steps : s \in InUse' => s \in InUse
    PROVE  DeletionFollows'
<1>1. post.listed \subseteq Steps
  BY DEF TypeOK
<1> QED
  BY <1>1 DEF DeletionFollows

(* Retention chooses what is not protected.                                *)
LEMMA PostRetentionKeeps ==
    ASSUME IInv, PostRetention
    PROVE  IInv'
<1>1. /\ TypeOK /\ TrainFollows /\ PostFollows /\ PaceFollows /\ AskedFollows
      /\ QueueFollows /\ StageFollows /\ post.pc = "waiting"
      /\ UNCHANGED <<backend, step, train, learned, written, serving, files, optimizer,
                     lease, evals, asked, lastEval, cause, run>>
  BY DEF IInv, PostRetention, backendVars, evalVars
<1>2. PICK deleted \in SUBSET (files \ Protected(post.step)) :
         post' = IF deleted = {} THEN [post EXCEPT !.pc = "log"]
                 ELSE [post EXCEPT !.pc = "listed", !.listed = files,
                                   !.keep = files \ deleted]
  BY DEF PostRetention
<1>3. /\ step \in Nat /\ Lag \in Nat /\ files \subseteq Steps
  <2>1. step \in Nat /\ Lag \in Nat /\ learned \in Nat /\ written \in Nat /\ MaxStep \in Nat
    BY <1>1, TypeFacts
  <2> QED
    BY <1>1, <2>1 DEF TypeOK, Steps
<1>4. /\ post'.pc \in {"log", "listed"} /\ post'.eval = post.eval /\ post'.step = post.step
      /\ post'.pc = "listed" => post'.listed = files /\ post'.keep = files \ deleted
  BY <1>1, <1>2 DEF TypeOK
<1>5. TypeOK'
  <2>1. post' \in [pc : {"waiting", "listed", "leased", "pruned", "log", "done"},
                   step : Steps, eval : BOOLEAN, dispatched : BOOLEAN,
                   listed : SUBSET Steps, keep : SUBSET Steps]
    BY <1>1, <1>2, <1>3 DEF TypeOK
  <2> QED
    BY <1>1, <2>1 DEF TypeOK
<1>6. TrainFollows'
  BY <1>1 DEF TrainFollows
<1>7. PostFollows' /\ PaceFollows' /\ AskedFollows'
  BY <1>1, <1>4 DEF PostFollows, PaceFollows, AskedFollows, Deciding
<1>8. QueueFollows' /\ StageFollows'
  <2>1. run # "ended"
    BY <1>1 DEF StageFollows, TypeOK
  <2> QED
    BY <1>1, <2>1 DEF QueueFollows, StageFollows
<1>9. DeletionFollows'
  <2>1. InUse' = InUse
    BY <1>1 DEF InUse, Leased, Reference
  <2>2. InUse \subseteq Protected(post.step)
    <3>1. post.step = step
      BY <1>1 DEF PostFollows
    <3>2. Reference(step) \in KLRange(step)
      BY <1>3 DEF Reference, KLRange
    <3> QED
      BY <3>1, <3>2 DEF InUse, Protected
  <2> QED
    BY <1>2, <1>4, <2>1, <2>2 DEF DeletionFollows
<1> QED
  BY <1>5, <1>6, <1>7, <1>8, <1>9 DEF IInv

(* The leases of the backend only add to what is kept.                     *)
LEMMA PostKeepsMore ==
    ASSUME IInv, PostLease \/ PostPrune
    PROVE  IInv'
<1>1. /\ TypeOK /\ TrainFollows /\ PostFollows /\ PaceFollows /\ AskedFollows
      /\ QueueFollows /\ StageFollows /\ DeletionFollows
      /\ post.pc \in {"listed", "leased"}
      /\ UNCHANGED <<backend, step, train, learned, written, serving, files, optimizer,
                     lease, evals, asked, lastEval, cause, run>>
  BY DEF IInv, PostLease, PostPrune, backendVars, evalVars
<1> DEFINE Kept(k) == /\ \/ post' = [post EXCEPT !.pc = "leased", !.keep = k]
                         \/ post' = [post EXCEPT !.pc = "pruned", !.keep = k]
                      /\ k \subseteq Steps /\ post.keep \subseteq k
<1>2. \E k : Kept(k)
  <2>1. /\ step \in Nat /\ serving \in Nat /\ learned \in Nat /\ MaxStep \in Nat
        /\ written \in Nat
    BY <1>1, TypeFacts
  <2>2. learned <= MaxStep /\ serving <= learned /\ written <= learned
        /\ (train.pc = "trained" => learned = step + 1)
    BY <1>1, <2>1 DEF TypeOK, TrainFollows
  <2>3. {Latest, serving} \subseteq Steps /\ optimizer \subseteq Steps
    BY <1>1, <2>1, <2>2 DEF Latest, Steps, TypeOK
  <2>4. post.keep \subseteq Steps
    BY <1>1 DEF TypeOK
  <2>5. CASE PostLease
    <3> DEFINE more == IF backend = "megatron"
                       THEN post.keep \cup {Latest, serving} ELSE post.keep
    <3>1. post' = [post EXCEPT !.pc = "leased", !.keep = more]
      BY <2>5 DEF PostLease
    <3>2. more \subseteq Steps /\ post.keep \subseteq more
      BY <2>3, <2>4
    <3> HIDE DEF more
    <3>3. Kept(more)
      BY <3>1, <3>2
    <3> QED
      BY <3>3
  <2>6. CASE PostPrune
    <3> DEFINE more == post.keep \cup optimizer
    <3>1. post' = [post EXCEPT !.pc = "pruned", !.keep = more]
      BY <2>6 DEF PostPrune
    <3>2. more \subseteq Steps /\ post.keep \subseteq more
      BY <2>3, <2>4
    <3> HIDE DEF more
    <3>3. Kept(more)
      BY <3>1, <3>2
    <3> QED
      BY <3>3
  <2> QED
    BY <2>5, <2>6
<1>3. PICK kept : Kept(kept)
  BY <1>2
<1>4. /\ post'.pc \in {"leased", "pruned"} /\ post'.eval = post.eval /\ post'.step = post.step
      /\ post'.listed = post.listed /\ post'.keep = kept
  BY <1>1, <1>3 DEF TypeOK
<1>5. TypeOK'
  <2>1. post \in PostStates /\ train \in TrainStates
    BY <1>1, Records
  <2>2. CASE post' = [post EXCEPT !.pc = "leased", !.keep = kept]
    <3>1. post' \in PostStates
      BY <1>3, <2>1, <2>2 DEF PostStates
    <3> QED
      BY <1>1, <2>1, <3>1, TrainPostType
  <2>3. CASE post' = [post EXCEPT !.pc = "pruned", !.keep = kept]
    <3>1. post' \in PostStates
      BY <1>3, <2>1, <2>3 DEF PostStates
    <3> QED
      BY <1>1, <2>1, <3>1, TrainPostType
  <2> QED
    BY <1>3, <2>2, <2>3
<1>6. TrainFollows'
  BY <1>1 DEF TrainFollows
<1>7. PostFollows' /\ PaceFollows' /\ AskedFollows'
  BY <1>1, <1>4 DEF PostFollows, PaceFollows, AskedFollows, Deciding
<1>8. QueueFollows' /\ StageFollows'
  <2>1. run # "ended"
    BY <1>1 DEF StageFollows, TypeOK
  <2> QED
    BY <1>1, <2>1 DEF QueueFollows, StageFollows
<1>9. DeletionFollows'
  BY <1>1, <1>3, <1>4 DEF DeletionFollows, InUse, Leased, Reference
<1> QED
  BY <1>5, <1>6, <1>7, <1>8, <1>9 DEF IInv

LEMMA PostDeleteKeeps ==
    ASSUME IInv, PostDelete
    PROVE  IInv'
<1>1. /\ TypeOK /\ TrainFollows /\ PostFollows /\ PaceFollows /\ AskedFollows
      /\ QueueFollows /\ StageFollows /\ post.pc = "pruned" /\ files' \subseteq files
      /\ post' = [post EXCEPT !.pc = "log", !.listed = {}, !.keep = {}]
      /\ UNCHANGED <<backend, step, train, learned, written, serving, optimizer,
                     lease, evals, asked, lastEval, cause, run>>
  BY DEF IInv, PostDelete, evalVars
<1>2. post'.pc = "log" /\ post'.eval = post.eval /\ post'.step = post.step
  BY <1>1 DEF TypeOK
<1>3. TypeOK'
  <2>1. post' \in [pc : {"waiting", "listed", "leased", "pruned", "log", "done"},
                   step : Steps, eval : BOOLEAN, dispatched : BOOLEAN,
                   listed : SUBSET Steps, keep : SUBSET Steps]
    BY <1>1 DEF TypeOK
  <2>2. files' \subseteq 0..written
    BY <1>1 DEF TypeOK
  <2> QED
    BY <1>1, <2>1, <2>2 DEF TypeOK
<1>4. TrainFollows'
  BY <1>1 DEF TrainFollows
<1>5. PostFollows' /\ PaceFollows' /\ AskedFollows'
  BY <1>1, <1>2 DEF PostFollows, PaceFollows, AskedFollows, Deciding
<1>6. QueueFollows' /\ StageFollows'
  <2>1. run # "ended"
    BY <1>1 DEF StageFollows, TypeOK
  <2> QED
    BY <1>1, <2>1 DEF QueueFollows, StageFollows
<1>7. DeletionFollows'
  BY <1>2 DEF DeletionFollows
<1> QED
  BY <1>3, <1>4, <1>5, <1>6, <1>7 DEF IInv

(* The pending evaluation joins those that are scheduled.                  *)
LEMMA PostScheduleKeeps ==
    ASSUME IInv, PostSchedule
    PROVE  IInv'
<1>1. /\ TypeOK /\ TrainFollows /\ PostFollows /\ PaceFollows /\ AskedFollows
      /\ QueueFollows /\ StageFollows /\ post.pc = "log" /\ post' = NoPost
      /\ UNCHANGED <<backend, step, train, learned, written, serving, files, optimizer,
                     lease, cause, run>>
  BY DEF IInv, PostSchedule, backendVars
<1>2. /\ step \in Nat /\ lastEval \in Nat /\ EvalEvery \in Nat /\ EvalEvery > 0
      /\ asked \in Seq(Nat) /\ asked \in Seq(Steps) /\ evals.queue \in Seq(Nat)
      /\ evals.queue \in Seq(Steps) /\ step \in Steps
      /\ DOMAIN asked = 1..Len(asked) /\ Len(asked) \in Nat
      /\ DOMAIN evals.queue = 1..Len(evals.queue) /\ Len(evals.queue) \in Nat
      /\ \A i \in DOMAIN asked : asked[i] \in Nat
      /\ \A i \in DOMAIN evals.queue : evals.queue[i] \in Nat
      /\ evals.running \in Nat \cup {None} /\ None \notin Nat
  BY <1>1, TypeFacts DEF TypeOK
<1>3. /\ post'.pc = "done" /\ post'.eval = FALSE /\ post'.step = 0 /\ post.step = step
      /\ lastEval < step /\ train.pc # "ended" /\ run # "ended" /\ cause # "end"
  BY <1>1 DEF NoPost, PostFollows, StageFollows, TrainFollows
<1>4. post' \in [pc : {"waiting", "listed", "leased", "pruned", "log", "done"},
                 step : Steps, eval : BOOLEAN, dispatched : BOOLEAN,
                 listed : SUBSET Steps, keep : SUBSET Steps]
  <2>1. 0 \in Steps
    BY <1>2, RetentionAssumption DEF Steps
  <2> QED
    BY <1>1, <2>1 DEF NoPost
<1>5. TrainFollows' /\ DeletionFollows'
  BY <1>1, <1>3 DEF TrainFollows, DeletionFollows
<1>6. CASE ~post.eval
  <2>1. UNCHANGED <<evals, asked, lastEval>>
    BY <1>6 DEF PostSchedule, evalVars
  <2>2. TypeOK'
    BY <1>1, <1>4, <2>1 DEF TypeOK
  <2>3. PostFollows' /\ PaceFollows' /\ AskedFollows'
    BY <1>1, <1>2, <1>3, <1>6, <2>1 DEF PostFollows, PaceFollows, AskedFollows, Deciding
  <2>4. QueueFollows' /\ StageFollows'
    BY <1>1, <1>3, <2>1 DEF QueueFollows, StageFollows
  <2> QED
    BY <1>5, <2>2, <2>3, <2>4 DEF IInv
<1>7. CASE post.eval
  <2> DEFINE q == Append(evals.queue, step)
             a == Append(asked, step)
  <2>1. /\ evals' = [evals EXCEPT !.scheduled = evals.scheduled \cup {step}, !.queue = q]
        /\ asked' = a /\ lastEval' = step
    BY <1>3, <1>7 DEF PostSchedule
  <2>2. /\ q \in Seq(Steps) /\ Len(q) = Len(evals.queue) + 1
        /\ DOMAIN q = 1..(Len(evals.queue) + 1)
        /\ \A i \in 1..Len(evals.queue) : q[i] = evals.queue[i]
        /\ q[Len(evals.queue) + 1] = step
    <3>1. q \in Seq(Steps)
      BY <1>2, AppendProperties
    <3> QED
      BY <1>2, <3>1, AppendProperties, LenProperties
  <2>3. /\ a \in Seq(Steps) /\ Len(a) = Len(asked) + 1
        /\ DOMAIN a = 1..(Len(asked) + 1)
        /\ \A i \in 1..Len(asked) : a[i] = asked[i]
        /\ a[Len(asked) + 1] = step
    <3>1. a \in Seq(Steps)
      BY <1>2, AppendProperties
    <3> QED
      BY <1>2, <3>1, AppendProperties, LenProperties
  <2> HIDE DEF q, a
  <2>4. ToSet(q) = ToSet(evals.queue) \cup {step} /\ ToSet(a) = ToSet(asked) \cup {step}
    <3>1. /\ \A x : x \in ToSet(q) <=> \E i \in 1..(Len(evals.queue) + 1) : x = q[i]
          /\ \A x : x \in ToSet(evals.queue) <=> \E i \in 1..Len(evals.queue) : x = evals.queue[i]
          /\ \A x : x \in ToSet(a) <=> \E i \in 1..(Len(asked) + 1) : x = a[i]
          /\ \A x : x \in ToSet(asked) <=> \E i \in 1..Len(asked) : x = asked[i]
      BY <1>2, <2>2, <2>3 DEF ToSet
    <3>2. \A n \in Nat : 1..(n + 1) = 1..n \cup {n + 1}
      OBVIOUS
    <3>3. /\ 1..(Len(evals.queue) + 1) = 1..Len(evals.queue) \cup {Len(evals.queue) + 1}
          /\ 1..(Len(asked) + 1) = 1..Len(asked) \cup {Len(asked) + 1}
      BY <1>2, <3>2
    <3>4. ToSet(q) = ToSet(evals.queue) \cup {step}
      BY <2>2, <3>1, <3>3
    <3>5. ToSet(a) = ToSet(asked) \cup {step}
      BY <2>3, <3>1, <3>3
    <3> QED
      BY <3>4, <3>5
  <2>5. /\ evals'.queue = q /\ evals'.running = evals.running /\ evals'.stage = evals.stage
        /\ evals'.scheduled = evals.scheduled \cup {step}
    BY <1>1, <2>1 DEF TypeOK
  <2>6. TypeOK'
    <3>1. evals' \in [queue : Seq(Steps), scheduled : SUBSET Steps,
                      running : Steps \cup {None}, stage : {"on", "over"}]
      BY <1>1, <1>2, <2>1, <2>2 DEF TypeOK
    <3>2. asked' \in Seq(Steps) /\ lastEval' \in Steps
      BY <1>2, <2>1, <2>3
    <3>3. /\ evals'.scheduled \subseteq ToSet(asked')
          /\ ToSet(evals'.queue) \subseteq evals'.scheduled
      BY <1>1, <1>3, <2>1, <2>4, <2>5 DEF TypeOK
    <3>4. evals'.running \in evals'.scheduled \cup {None} \/ cause = "failure"
      BY <1>1, <1>3, <2>5 DEF TypeOK
    <3> QED
      BY <1>1, <1>4, <3>1, <3>2, <3>3, <3>4 DEF TypeOK
  <2>7. PostFollows' /\ PaceFollows'
    BY <1>1, <1>2, <1>3, <2>1 DEF PostFollows, PaceFollows, Deciding
  <2>8. AskedFollows'
    <3>1. \A i \in 1..Len(asked) : asked[i] <= lastEval
      BY <1>1, <1>2 DEF AskedFollows
    <3>2. \A i \in DOMAIN a : a[i] <= step
      BY <1>2, <1>3, <2>3, <3>1
    <3>3. a[Len(a)] = step
      BY <2>3
    <3>4. \A i \in DOMAIN a : i + 2 \in DOMAIN a => a[i + 2] - a[i] >= EvalEvery
      <4>1. SUFFICES ASSUME NEW i \in 1..(Len(asked) + 1), i + 2 \in 1..(Len(asked) + 1)
                     PROVE  a[i + 2] - a[i] >= EvalEvery
        BY <2>3
      <4>2. i \in 1..Len(asked) /\ i + 2 \in Nat
        BY <1>2, <4>1
      <4>3. CASE i + 2 = Len(asked) + 1
        <5>1. i + 1 = Len(asked)
          <6>1. i \in Int /\ Len(asked) \in Int
            BY <1>2, <4>1
          <6> QED
            BY <4>3, <6>1
        <5>2. step - asked[i] >= EvalEvery
          BY <1>1, <1>2, <1>7, <4>2, <5>1 DEF AskedFollows
        <5> QED
          BY <2>3, <4>2, <4>3, <5>2
      <4>4. CASE i + 2 \in 1..Len(asked)
        BY <1>1, <1>2, <2>3, <4>2, <4>4 DEF AskedFollows
      <4> QED
        BY <1>2, <4>1, <4>2, <4>3, <4>4
    <3>5. ASSUME Deciding, train.eval, NEW i \in DOMAIN a, i + 1 = Len(a)
          PROVE  step + 1 - a[i] >= EvalEvery
      <4>1. i = Len(asked) /\ i \in 1..Len(asked)
        BY <1>2, <2>3, <3>5
      <4>2. asked # <<>>
        BY <1>2, <4>1, EmptySeq
      <4>3. a[i] = lastEval
        BY <1>1, <2>3, <4>1, <4>2 DEF AskedFollows
      <4> QED
        BY <1>1, <3>5, <4>3 DEF PaceFollows
    <3>6. Deciding' = Deciding /\ train' = train /\ step' = step
      BY <1>1 DEF Deciding
    <3> QED
      BY <1>3, <2>1, <3>2, <3>3, <3>4, <3>5, <3>6 DEF AskedFollows
  <2>9. QueueFollows'
    <3>1. /\ \A i \in 1..Len(evals.queue) :
                evals.queue[i] < step
                /\ (evals.running # None => evals.running < evals.queue[i])
          /\ evals.running # None => evals.running < step /\ evals.running \in Nat
      <4>1. \A i \in 1..Len(evals.queue) : /\ evals.queue[i] <= lastEval
                                           /\ evals.running # None =>
                                                evals.running < evals.queue[i]
        BY <1>1, <1>2 DEF QueueFollows
      <4>2. evals.running # None => evals.running <= lastEval /\ evals.running \in Nat
        BY <1>1, <1>2 DEF QueueFollows
      <4>3. \A i \in 1..Len(evals.queue) : evals.queue[i] \in Nat
        BY <1>2
      <4> QED
        BY <1>2, <1>3, <4>1, <4>2, <4>3
    <3>2. \A i, j \in DOMAIN q : i < j => q[i] < q[j]
      <4>1. SUFFICES ASSUME NEW i \in 1..(Len(evals.queue) + 1),
                            NEW j \in 1..(Len(evals.queue) + 1), i < j
                     PROVE  q[i] < q[j]
        BY <2>2
      <4>2. i \in 1..Len(evals.queue)
        BY <1>2, <4>1
      <4>3. CASE j = Len(evals.queue) + 1
        <5>1. q[i] = evals.queue[i] /\ q[j] = step
          BY <2>2, <4>2, <4>3
        <5> QED
          BY <3>1, <4>2, <5>1
      <4>4. CASE j \in 1..Len(evals.queue)
        BY <1>1, <1>2, <2>2, <4>1, <4>2, <4>4 DEF QueueFollows
      <4>5. j = Len(evals.queue) + 1 \/ j \in 1..Len(evals.queue)
        <5>1. Len(evals.queue) \in Nat
          BY <1>2
        <5> QED
          BY <5>1
      <4> QED
        BY <4>3, <4>4, <4>5
    <3>3. \A i \in DOMAIN q : /\ q[i] <= step
                              /\ evals.running # None => evals.running < q[i]
      <4>1. SUFFICES ASSUME NEW i \in 1..(Len(evals.queue) + 1)
                     PROVE  /\ q[i] <= step
                            /\ evals.running # None => evals.running < q[i]
        BY <2>2
      <4>2. CASE i = Len(evals.queue) + 1
        BY <1>2, <2>2, <3>1, <4>2
      <4>3. CASE i \in 1..Len(evals.queue)
        <5>1. q[i] = evals.queue[i] /\ evals.queue[i] \in Nat
          BY <1>2, <2>2, <4>3
        <5> QED
          BY <1>2, <3>1, <4>3, <5>1
      <4> QED
        BY <1>2, <4>2, <4>3
    <3>4. evals.running # None => evals.running <= step
      BY <1>2, <3>1
    <3> QED
      BY <2>1, <2>5, <3>2, <3>3, <3>4 DEF QueueFollows
  <2>10. StageFollows'
    BY <1>1, <1>3, <2>4, <2>5 DEF StageFollows
  <2> QED
    BY <1>5, <2>6, <2>7, <2>8, <2>9, <2>10 DEF IInv
<1> QED
  BY <1>6, <1>7

(* A rollout leases the current step, which is in use already.             *)
LEMMA RolloutKeeps ==
    ASSUME IInv, RolloutStep
    PROVE  IInv'
<1>1. /\ TypeOK /\ TrainFollows /\ PostFollows /\ PaceFollows /\ AskedFollows
      /\ QueueFollows /\ StageFollows /\ DeletionFollows
      /\ UNCHANGED <<backend, step, train, post, learned, written, serving, files,
                     optimizer, evals, asked, lastEval, cause, run>>
  BY DEF IInv, RolloutStep, LeaseStart, LeaseEnd, trainerVars, backendVars, evalVars
<1>2. PICK w \in Workers : LeaseStart(w) \/ LeaseEnd(w)
  BY DEF RolloutStep
<1>3. PICK s \in {step, None} : lease' = [lease EXCEPT ![w] = s]
  BY <1>2 DEF LeaseStart, LeaseEnd
<1>4. TypeOK'
  <2>1. lease' \in [Workers -> Steps \cup {None}]
    BY <1>1, <1>3 DEF TypeOK
  <2> QED
    BY <1>1, <2>1 DEF TypeOK
<1>5. TrainFollows' /\ PostFollows' /\ PaceFollows' /\ AskedFollows'
  BY <1>1 DEF TrainFollows, PostFollows, PaceFollows, AskedFollows, Deciding
<1>6. QueueFollows' /\ StageFollows'
  BY <1>1 DEF QueueFollows, StageFollows
<1>7. DeletionFollows'
  <2>1. \A v \in Workers : lease'[v] \in {lease[v], step, None}
    BY <1>1, <1>3 DEF TypeOK
  <2>2. None \notin Steps
    BY <1>1, TypeFacts
  <2>3. \A t \in Steps : t \in InUse' => t \in InUse
    BY <1>1, <2>1, <2>2 DEF InUse, Leased, Reference
  <2> QED
    BY <1>1, <2>3, DeletionMoves
<1> QED
  BY <1>4, <1>5, <1>6, <1>7 DEF IInv

LEMMA EvalTakeKeeps ==
    ASSUME IInv, EvalTake
    PROVE  IInv'
<1> DEFINE q == evals.queue
           t == Tail(evals.queue)
<1>1. /\ TypeOK /\ TrainFollows /\ PostFollows /\ PaceFollows /\ AskedFollows
      /\ QueueFollows /\ StageFollows /\ DeletionFollows
      /\ evals.stage = "on" /\ evals.running = None /\ q # <<>>
      /\ evals' = [evals EXCEPT !.running = Head(q), !.queue = t]
      /\ UNCHANGED <<backend, step, train, post, learned, written, serving, files,
                     optimizer, lease, asked, lastEval, cause, run>>
  BY DEF IInv, EvalTake, trainerVars, backendVars
<1>2. /\ q \in Seq(Nat) /\ q \in Seq(Steps) /\ DOMAIN q = 1..Len(q) /\ Len(q) \in Nat
      /\ \A i \in DOMAIN q : q[i] \in Nat
      /\ None \notin Nat /\ lastEval \in Nat
  BY <1>1, TypeFacts
<1>3. /\ t \in Seq(Steps) /\ Len(t) = Len(q) - 1 /\ Head(q) = q[1] /\ Len(q) >= 1
      /\ DOMAIN t = 1..(Len(q) - 1) /\ \A i \in 1..(Len(q) - 1) : t[i] = q[i + 1]
  <2>1. t \in Seq(Steps) /\ Len(t) = Len(q) - 1 /\ \A i \in 1..Len(t) : t[i] = q[i + 1]
    BY <1>1, <1>2, HeadTailProperties
  <2>2. Len(q) # 0
    BY <1>1, <1>2, EmptySeq
  <2> QED
    BY <1>2, <2>1, <2>2, LenProperties
<1> HIDE DEF q, t
<1>4. /\ evals'.queue = t /\ evals'.running = q[1] /\ evals'.stage = "on"
      /\ evals'.scheduled = evals.scheduled /\ run # "ended"
  BY <1>1, <1>3 DEF TypeOK, StageFollows
<1>5. 1 \in DOMAIN q /\ q[1] \in Steps /\ q[1] # None /\ \A i \in 1..(Len(q) - 1) : i + 1 \in DOMAIN q
  <2>1. 1 \in DOMAIN q /\ \A i \in 1..(Len(q) - 1) : i + 1 \in DOMAIN q
    BY <1>2, <1>3
  <2> QED
    BY <1>2, <2>1, ElementOfSeq
<1>6. ToSet(q) = ToSet(t) \cup {q[1]}
  <2>1. /\ \A x : x \in ToSet(q) <=> \E i \in 1..Len(q) : x = q[i]
        /\ \A x : x \in ToSet(t) <=> \E i \in 1..(Len(q) - 1) : x = t[i]
    BY <1>2, <1>3 DEF ToSet
  <2>2. ASSUME NEW i \in 1..Len(q), i # 1
        PROVE  i - 1 \in 1..(Len(q) - 1) /\ t[i - 1] = q[i]
    <3>1. i - 1 \in 1..(Len(q) - 1) /\ i = (i - 1) + 1
      BY <1>2, <2>2
    <3> QED
      BY <1>3, <3>1
  <2> QED
    BY <1>2, <1>3, <1>5, <2>1, <2>2
<1>7. ToSet(q) \subseteq evals.scheduled
  BY <1>1, <1>4 DEF TypeOK, q
<1>8. TypeOK'
  <2>1. evals' \in [queue : Seq(Steps), scheduled : SUBSET Steps,
                    running : Steps \cup {None}, stage : {"on", "over"}]
    BY <1>1, <1>3, <1>5 DEF TypeOK
  <2>2. /\ evals'.running \in evals'.scheduled
        /\ ToSet(evals'.queue) \subseteq evals'.scheduled
        /\ evals'.scheduled \subseteq ToSet(asked)
    BY <1>1, <1>4, <1>6, <1>7 DEF TypeOK
  <2> QED
    BY <1>1, <2>1, <2>2 DEF TypeOK
<1>9. TrainFollows' /\ PostFollows' /\ PaceFollows' /\ AskedFollows'
  BY <1>1 DEF TrainFollows, PostFollows, PaceFollows, AskedFollows, Deciding
<1>10. QueueFollows'
  <2>1. \A i, j \in DOMAIN q : i < j => q[i] < q[j]
    BY <1>1 DEF QueueFollows, q
  <2>2. \A i \in DOMAIN q : q[i] <= lastEval
    BY <1>1 DEF QueueFollows, q
  <2>3. \A i, j \in 1..(Len(q) - 1) : i < j => t[i] < t[j]
    <3>1. SUFFICES ASSUME NEW i \in 1..(Len(q) - 1), NEW j \in 1..(Len(q) - 1), i < j
                   PROVE  t[i] < t[j]
      OBVIOUS
    <3>2. i + 1 \in DOMAIN q /\ j + 1 \in DOMAIN q /\ i + 1 < j + 1
      BY <1>2, <1>5, <3>1
    <3> QED
      BY <1>3, <2>1, <3>2
  <2>4. \A i \in 1..(Len(q) - 1) : t[i] <= lastEval /\ q[1] < t[i]
    <3>1. SUFFICES ASSUME NEW i \in 1..(Len(q) - 1)
                   PROVE  t[i] <= lastEval /\ q[1] < t[i]
      OBVIOUS
    <3>2. i + 1 \in DOMAIN q /\ 1 < i + 1 /\ t[i] = q[i + 1]
      BY <1>2, <1>3, <1>5
    <3> QED
      BY <1>5, <2>1, <2>2, <3>2
  <2> QED
    BY <1>1, <1>3, <1>4, <1>5, <2>2, <2>3, <2>4 DEF QueueFollows
<1>11. StageFollows'
  <2>1. cause # "failure" => evals.scheduled = ToSet(q) \cup ({None} \ {None})
    BY <1>1, <1>4 DEF StageFollows, TypeOK, q
  <2> QED
    BY <1>1, <1>4, <1>5, <1>6, <2>1 DEF StageFollows
<1>12. DeletionFollows'
  <2>1. \A s \in Steps : s \in InUse' => s \in InUse
    <3>1. q[1] \in evals.scheduled
      BY <1>6, <1>7
    <3> QED
      BY <1>1, <1>4, <3>1 DEF InUse, Leased, Reference
  <2> QED
    BY <1>1, <2>1, DeletionMoves
<1> QED
  BY <1>8, <1>9, <1>10, <1>11, <1>12 DEF IInv

(* The queue is beyond the evaluation that ends.                           *)
LEMMA QueueBeyond ==
    ASSUME IInv, evals.running # None
    PROVE  evals.running \notin ToSet(evals.queue)
<1>1. TypeOK /\ QueueFollows
  BY DEF IInv
<1>2. /\ \A i \in DOMAIN evals.queue : evals.queue[i] \in Nat
      /\ evals.running \in Nat
  BY <1>1, TypeFacts
<1>3. \A i \in DOMAIN evals.queue : evals.running # evals.queue[i]
  BY <1>1, <1>2 DEF QueueFollows
<1> QED
  BY <1>3 DEF ToSet

LEMMA EvalEndsKeeps ==
    ASSUME IInv, EvalEnds
    PROVE  IInv'
<1>1. /\ TypeOK /\ TrainFollows /\ PostFollows /\ PaceFollows /\ AskedFollows
      /\ QueueFollows /\ StageFollows /\ DeletionFollows
      /\ evals.running # None
      /\ evals' = [evals EXCEPT !.running = None,
                                !.scheduled = evals.scheduled \ {evals.running}]
      /\ UNCHANGED <<backend, step, train, post, learned, written, serving, files,
                     optimizer, lease, asked, lastEval, cause, run>>
  BY DEF IInv, EvalEnds, Released, trainerVars, backendVars
<1>2. /\ evals'.queue = evals.queue /\ evals'.running = None /\ evals'.stage = evals.stage
      /\ evals'.scheduled = evals.scheduled \ {evals.running}
  BY <1>1 DEF TypeOK
<1>3. evals.running \notin ToSet(evals.queue)
  BY <1>1, QueueBeyond
<1>4. TypeOK'
  <2>1. evals' \in [queue : Seq(Steps), scheduled : SUBSET Steps,
                    running : Steps \cup {None}, stage : {"on", "over"}]
    BY <1>1 DEF TypeOK
  <2>2. /\ ToSet(evals.queue) \subseteq evals'.scheduled \/ run = "ended"
        /\ evals'.scheduled \subseteq ToSet(asked)
    BY <1>1, <1>2, <1>3 DEF TypeOK
  <2> QED
    BY <1>1, <1>2, <2>1, <2>2 DEF TypeOK
<1>5. TrainFollows' /\ PostFollows' /\ PaceFollows' /\ AskedFollows'
  BY <1>1 DEF TrainFollows, PostFollows, PaceFollows, AskedFollows, Deciding
<1>6. QueueFollows'
  BY <1>1, <1>2 DEF QueueFollows
<1>7. StageFollows'
  BY <1>1, <1>2, <1>3 DEF StageFollows
<1>8. DeletionFollows'
  <2>1. \A s \in Steps : s \in InUse' => s \in InUse
    <3>1. None \notin Steps
      BY <1>1, TypeFacts
    <3> QED
      BY <1>1, <1>2, <3>1 DEF InUse, Leased, Reference
  <2> QED
    BY <1>1, <2>1, DeletionMoves
<1> QED
  BY <1>4, <1>5, <1>6, <1>7, <1>8 DEF IInv

LEMMA EvalStageEndsKeeps ==
    ASSUME IInv, EvalStageEnds
    PROVE  IInv'
<1>1. /\ TypeOK /\ TrainFollows /\ PostFollows /\ PaceFollows /\ AskedFollows
      /\ QueueFollows /\ StageFollows /\ DeletionFollows
      /\ evals.stage = "on" /\ cause # None /\ evals.queue = <<>> /\ evals.running = None
      /\ evals' = [evals EXCEPT !.stage = "over"]
      /\ UNCHANGED <<backend, step, train, post, learned, written, serving, files,
                     optimizer, lease, asked, lastEval, cause, run>>
  BY DEF IInv, EvalStageEnds, done, trainerVars, backendVars
<1>2. /\ evals'.queue = evals.queue /\ evals'.running = None /\ evals'.stage = "over"
      /\ evals'.scheduled = evals.scheduled
  BY <1>1 DEF TypeOK
<1>3. ToSet(evals.queue) = {}
  BY <1>1 DEF ToSet
<1>4. TypeOK'
  <2>1. evals \in EvalStates
    BY <1>1, Records
  <2>2. evals' \in EvalStates
    BY <1>1, <2>1 DEF EvalStates
  <2>3. /\ UNCHANGED <<backend, step, train, post, learned, written, serving, files,
                       optimizer, lease, asked, lastEval, cause, run>>
        /\ evals.queue = <<>> /\ TypeOK
    BY <1>1
  <2> QED
    BY <1>2, <2>2, <2>3 DEF TypeOK, EvalStates
<1>5. TrainFollows' /\ PostFollows' /\ PaceFollows' /\ AskedFollows'
  BY <1>1 DEF TrainFollows, PostFollows, PaceFollows, AskedFollows, Deciding
<1>6. QueueFollows'
  BY <1>1, <1>2 DEF QueueFollows
<1>7. StageFollows'
  <2>1. run = "stages"
    BY <1>1 DEF StageFollows, TypeOK
  <2>2. cause # "failure" => evals.scheduled = {}
    BY <1>1, <1>3, <2>1 DEF StageFollows
  <2>3. cause = "end" => cause # "failure"
    OBVIOUS
  <2> QED
    BY <1>1, <1>2, <1>3, <2>1, <2>2, <2>3 DEF StageFollows
<1>8. DeletionFollows'
  BY <1>1, <1>2 DEF DeletionFollows, InUse, Leased, Reference
<1> QED
  BY <1>4, <1>5, <1>6, <1>7, <1>8 DEF IInv

(* The stages are cancelled: what runs or waits may stay scheduled.        *)
LEMMA FailureCancelsKeeps ==
    ASSUME IInv, FailureCancels
    PROVE  IInv'
<1>1. /\ TypeOK /\ TrainFollows /\ PostFollows /\ PaceFollows /\ AskedFollows
      /\ QueueFollows /\ StageFollows /\ DeletionFollows
      /\ cause = "failure" /\ run = "stages"
      /\ lease' = [w \in Workers |-> None]
      /\ evals' \in {[evals EXCEPT !.stage = "over"],
                     [[evals EXCEPT !.running = None,
                                    !.scheduled = evals.scheduled \ {evals.running}]
                         EXCEPT !.stage = "over"]}
      /\ UNCHANGED <<backend, step, train, post, learned, written, serving, files,
                     optimizer, asked, lastEval, cause, run>>
  BY DEF IInv, FailureCancels, Released, trainerVars, backendVars
<1>2. /\ evals'.queue = evals.queue /\ evals'.running \in {evals.running, None}
      /\ evals'.stage = "over" /\ evals'.scheduled \subseteq evals.scheduled
      /\ evals'.scheduled \in {evals.scheduled, evals.scheduled \ {evals.running}}
  <2>1. evals \in EvalStates
    BY <1>1, Records
  <2>2. CASE evals' = [evals EXCEPT !.stage = "over"]
    BY <2>1, <2>2 DEF EvalStates
  <2>3. CASE evals' = [[evals EXCEPT !.running = None,
                                     !.scheduled = evals.scheduled \ {evals.running}]
                          EXCEPT !.stage = "over"]
    BY <2>1, <2>3 DEF EvalStates
  <2> QED
    BY <1>1, <2>2, <2>3
<1>3. evals.running = None \/ evals.running \notin ToSet(evals.queue)
  BY QueueBeyond
<1>4. None \notin Steps /\ None # "failure"
  BY <1>1, TypeFacts, RetentionAssumption
<1>5. TypeOK'
  <2>1. evals' \in [queue : Seq(Steps), scheduled : SUBSET Steps,
                    running : Steps \cup {None}, stage : {"on", "over"}]
    <3>1. evals \in [queue : Seq(Steps), scheduled : SUBSET Steps,
                     running : Steps \cup {None}, stage : {"on", "over"}]
      BY <1>1 DEF TypeOK
    <3>2. CASE evals' = [evals EXCEPT !.stage = "over"]
      BY <3>1, <3>2
    <3>3. CASE evals' = [[evals EXCEPT !.running = None,
                                       !.scheduled = evals.scheduled \ {evals.running}]
                            EXCEPT !.stage = "over"]
      BY <3>1, <3>3
    <3> QED
      BY <1>1, <3>2, <3>3
  <2>2. ToSet(evals.queue) \subseteq evals'.scheduled
    <3>1. ToSet(evals.queue) \subseteq evals.scheduled /\ evals.scheduled \subseteq Steps
      BY <1>1 DEF TypeOK
    <3> QED
      BY <1>2, <1>3, <1>4, <3>1
  <2>3. evals'.scheduled \subseteq ToSet(asked)
    BY <1>1, <1>2 DEF TypeOK
  <2>4. lease' \in [Workers -> Steps \cup {None}]
    BY <1>1
  <2> QED
    BY <1>1, <1>2, <2>1, <2>2, <2>3, <2>4 DEF TypeOK
<1>6. TrainFollows' /\ PostFollows' /\ PaceFollows' /\ AskedFollows'
  BY <1>1 DEF TrainFollows, PostFollows, PaceFollows, AskedFollows, Deciding
<1>7. QueueFollows'
  BY <1>1, <1>2 DEF QueueFollows
<1>8. StageFollows'
  BY <1>1, <1>2, <1>4 DEF StageFollows
<1>9. DeletionFollows'
  <2>1. \A s \in Steps : s \in InUse' => s \in InUse
    BY <1>1, <1>2, <1>4 DEF InUse, Leased, Reference
  <2> QED
    BY <1>1, <2>1, DeletionMoves
<1> QED
  BY <1>5, <1>6, <1>7, <1>8, <1>9 DEF IInv

LEMMA SignalKeeps ==
    ASSUME IInv, Signal
    PROVE  IInv'
<1>1. /\ TypeOK /\ TrainFollows /\ PostFollows /\ PaceFollows /\ AskedFollows
      /\ QueueFollows /\ StageFollows /\ DeletionFollows
      /\ cause = None /\ cause' = "signal"
      /\ UNCHANGED <<backend, step, train, post, learned, written, serving, files,
                     optimizer, lease, evals, asked, lastEval, run>>
  BY DEF IInv, Signal, RequestStop, done, trainerVars, backendVars, evalVars
<1>2. None \notin {"end", "signal", "failure"}
  BY RetentionAssumption
<1>3. TypeOK'
  BY <1>1, <1>2 DEF TypeOK
<1>4. TrainFollows' /\ PostFollows' /\ PaceFollows' /\ AskedFollows'
  BY <1>1, <1>2 DEF TrainFollows, PostFollows, PaceFollows, AskedFollows, Deciding
<1>5. QueueFollows'
  BY <1>1 DEF QueueFollows
<1>6. StageFollows'
  BY <1>1, <1>2 DEF StageFollows
<1>7. DeletionFollows'
  BY <1>1 DEF DeletionFollows, InUse, Leased, Reference
<1> QED
  BY <1>3, <1>4, <1>5, <1>6, <1>7 DEF IInv

LEMMA RunEndsKeeps ==
    ASSUME IInv, RunEnds
    PROVE  IInv'
<1>1. /\ TypeOK /\ TrainFollows /\ PostFollows /\ PaceFollows /\ AskedFollows
      /\ QueueFollows /\ StageFollows /\ DeletionFollows
      /\ train.pc = "ended" /\ evals.stage = "over" /\ post.pc = "done"
      /\ run' = "ended" /\ evals' = [evals EXCEPT !.scheduled = {}]
      /\ run = "stages"
      /\ UNCHANGED <<backend, step, train, post, learned, written, serving, files,
                     optimizer, lease, asked, lastEval, cause>>
  BY DEF IInv, RunEnds, trainerVars, backendVars
<1>2. /\ evals'.queue = evals.queue /\ evals'.running = evals.running
      /\ evals'.stage = evals.stage /\ evals'.scheduled = {}
  BY <1>1 DEF TypeOK
<1>3. TypeOK'
  <2>1. evals' \in [queue : Seq(Steps), scheduled : SUBSET Steps,
                    running : Steps \cup {None}, stage : {"on", "over"}]
    BY <1>1 DEF TypeOK
  <2> QED
    BY <1>1, <1>2, <2>1 DEF TypeOK
<1>4. TrainFollows' /\ PostFollows' /\ PaceFollows' /\ AskedFollows'
  BY <1>1 DEF TrainFollows, PostFollows, PaceFollows, AskedFollows, Deciding
<1>5. QueueFollows'
  BY <1>1, <1>2 DEF QueueFollows
<1>6. StageFollows'
  BY <1>1, <1>2 DEF StageFollows
<1>7. DeletionFollows'
  BY <1>1 DEF DeletionFollows
<1> QED
  BY <1>3, <1>4, <1>5, <1>6, <1>7 DEF IInv

-----------------------------------------------------------------------------
(* The invariant.                                                          *)

LEMMA InitHolds ==
    ASSUME Init
    PROVE  IInv
<1>1. /\ backend \in Backends /\ step = 0 /\ train = [pc |-> "top", eval |-> FALSE]
      /\ post = NoPost /\ learned = 0 /\ written = 0 /\ serving = 0 /\ files = {0}
      /\ optimizer = {} /\ lease = [w \in Workers |-> None]
      /\ asked \in {<<>>, <<0>>} /\ lastEval = 0
      /\ evals = [queue |-> asked, scheduled |-> ToSet(asked), running |-> None,
                  stage |-> "on"]
      /\ cause = None /\ run = "stages"
  BY DEF Init
<1>2. /\ MaxStep \in Nat /\ EvalEvery \in Nat /\ EvalEvery > 0 /\ Capacity \in Nat
      /\ 0 \in Steps /\ Steps \subseteq Nat /\ None \notin Nat
      /\ None \notin {"end", "signal", "failure"}
  BY RetentionAssumption DEF Steps
<1>3. /\ asked \in Seq(Steps) /\ ToSet(asked) \subseteq {0}
      /\ \A i \in DOMAIN asked : asked[i] = 0 /\ i = 1
      /\ asked # <<>> => Len(asked) = 1 /\ asked[1] = 0
  <2>1. CASE asked = <<>>
    BY <2>1 DEF ToSet
  <2>2. CASE asked = <<0>>
    <3>1. DOMAIN asked = {1} /\ asked[1] = 0 /\ Len(asked) = 1
      BY <2>2
    <3>2. asked \in Seq(Steps)
      BY <1>2, <2>2
    <3> QED
      BY <3>1, <3>2 DEF ToSet
  <2> QED
    BY <1>1, <2>1, <2>2
<1>4. /\ post.pc = "done" /\ post.eval = FALSE /\ train.pc = "top"
      /\ evals.queue = asked /\ evals.scheduled = ToSet(asked) /\ evals.running = None
      /\ evals.stage = "on"
  BY <1>1 DEF NoPost
<1>5. TypeOK
  <2>1. post \in [pc : {"waiting", "listed", "leased", "pruned", "log", "done"},
                  step : Steps, eval : BOOLEAN, dispatched : BOOLEAN,
                  listed : SUBSET Steps, keep : SUBSET Steps]
    BY <1>1, <1>2 DEF NoPost
  <2>2. evals \in [queue : Seq(Steps), scheduled : SUBSET Steps,
                   running : Steps \cup {None}, stage : {"on", "over"}]
    <3>1. ToSet(asked) \subseteq Steps
      BY <1>2, <1>3
    <3> QED
      BY <1>1, <1>3, <3>1
  <2>3. lease \in [Workers -> Steps \cup {None}]
    BY <1>1
  <2>4. /\ learned \in step..MaxStep /\ written \in 0..learned /\ learned - written <= Capacity
        /\ serving \in 0..learned /\ files \subseteq 0..written /\ optimizer \subseteq 1..written
    BY <1>1, <1>2
  <2>5. train \in [pc : {"top", "collect", "start", "dispatched", "trained",
                         "learned", "raising", "wrap", "ended"}, eval : BOOLEAN]
    BY <1>1
  <2> QED
    BY <1>1, <1>2, <1>3, <1>4, <2>1, <2>2, <2>3, <2>4, <2>5 DEF TypeOK
<1>6. TrainFollows
  BY <1>1, <1>2, <1>4 DEF TrainFollows
<1>7. PostFollows /\ PaceFollows
  BY <1>1, <1>2, <1>4 DEF PostFollows, PaceFollows, Deciding
<1>8. AskedFollows
  <2>1. \A i \in DOMAIN asked : i + 2 \notin DOMAIN asked
    BY <1>3
  <2>2. ~Deciding
    BY <1>4 DEF Deciding
  <2> QED
    BY <1>1, <1>3, <1>4, <2>1, <2>2 DEF AskedFollows
<1>9. QueueFollows
  BY <1>1, <1>3, <1>4 DEF QueueFollows
<1>10. StageFollows /\ DeletionFollows
  BY <1>1, <1>2, <1>4 DEF StageFollows, DeletionFollows
<1> QED
  BY <1>5, <1>6, <1>7, <1>8, <1>9, <1>10 DEF IInv

LEMMA NextKeeps ==
    ASSUME IInv, [Next]_vars
    PROVE  IInv'
<1>1. CASE Next
  <2>1. CASE TrainStep
    BY <2>1, TrainTopKeeps, TrainStartKeeps, TrainDispatchedKeeps, TrainRaisesKeeps,
       TrainLearnsKeeps, TrainCommitsKeeps, TrainReturnsKeeps, TrainWrapKeeps,
       TrainEndsKeeps DEF TrainStep
  <2>2. CASE BackendStep
    BY <2>2, BackendKeeps
  <2>3. CASE PostStep
    BY <2>3, PostRetentionKeeps, PostKeepsMore, PostDeleteKeeps, PostScheduleKeeps
       DEF PostStep
  <2>4. CASE RolloutStep
    BY <2>4, RolloutKeeps
  <2>5. CASE EvalStep
    BY <2>5, EvalTakeKeeps, EvalEndsKeeps, EvalStageEndsKeeps DEF EvalStep
  <2>6. CASE FailureCancels \/ Signal \/ RunEnds
    BY <2>6, FailureCancelsKeeps, SignalKeeps, RunEndsKeeps
  <2> QED
    BY <1>1, <2>1, <2>2, <2>3, <2>4, <2>5, <2>6 DEF Next
<1>2. CASE UNCHANGED vars
  BY <1>2 DEF vars, trainerVars, backendVars, evalVars, IInv, TypeOK, TrainFollows,
     PostFollows, PaceFollows, AskedFollows, QueueFollows, StageFollows, DeletionFollows,
     Deciding, InUse, Leased, Reference
<1> QED
  BY <1>1, <1>2

(* The invariant holds in every state.                                     *)
THEOREM Invariant == Spec => []IInv
<1>1. Init => IInv
  BY InitHolds
<1>2. IInv /\ [Next]_vars => IInv'
  BY NextKeeps
<1> QED
  BY <1>1, <1>2, PTL DEF Spec

(* Types; the snapshots not yet written fit the pool, and an evaluation    *)
(* that runs or waits keeps its checkpoint leased, whatever the order in   *)
(* which the stages, the writers and a failure take their steps.           *)
THEOREM TypeCorrect == Spec => []TypeOK
<1>1. IInv => TypeOK
  BY DEF IInv
<1> QED
  BY <1>1, Invariant, PTL

(* Evaluations keep pace with training, although should_eval_step is read  *)
(* before the evaluation of the step before is scheduled.                  *)
(* (_should_eval_step, _schedule_eval_step)                                *)
THEOREM EvalsPace == Spec => []EvalsKeepPace
<1>1. ASSUME IInv
      PROVE  EvalsKeepPace
  <2>1. TypeOK /\ PaceFollows /\ AskedFollows
    BY <1>1 DEF IInv
  <2>2. /\ DOMAIN asked = 1..Len(asked) /\ Len(asked) \in Nat
    BY <2>1, TypeFacts
  <2>3. \A i \in 1..Len(asked) - 2 : i \in DOMAIN asked /\ i + 2 \in DOMAIN asked
    BY <2>2
  <2> QED
    BY <2>1, <2>3 DEF PaceFollows, AskedFollows, EvalsKeepPace
<1>2. IInv => EvalsKeepPace
  BY <1>1
<1> QED
  BY <1>2, Invariant, PTL

(* Once the stages are over nothing is left to release, unless a stage was *)
(* cancelled.  (_eval_stage, _run_eval, train's finally)                   *)
THEOREM EndClean == Spec => []EndIsClean
<1>1. IInv => EndIsClean
  BY DEF IInv, StageFollows, EndIsClean, StagesOver
<1> QED
  BY <1>1, Invariant, PTL

(* A checkpoint that retention saw is not deleted from under anybody who   *)
(* came to use it while the deletion waited for its locks and its thread.  *)
(* (_protected_checkpoint_steps, _run_checkpoint_retention,                *)
(* delete_checkpoints)                                                     *)
THEOREM SeenSurvive == Spec => SeenInUseSurvive
<1>1. ASSUME IInv, [Next]_vars
      PROVE  \A s \in (files \ files') \cap post.listed : s \notin InUse
  <2>1. CASE PostDelete
    BY <1>1, <2>1 DEF IInv, DeletionFollows, PostDelete
  <2>2. CASE ~PostDelete
    <3>1. files \subseteq files'
      BY <1>1, <2>2 DEF Next, TrainStep, BackendStep, PostStep, RolloutStep, EvalStep,
         TrainTop, TrainStart, TrainDispatched, TrainRaises, TrainLearns, TrainCommits,
         TrainReturns, TrainWrap, TrainEnds, WriteAdapter, WriteOptimizer, Serve,
         PostRetention, PostLease, PostPrune, PostSchedule, LeaseStart, LeaseEnd,
         EvalTake, EvalEnds, EvalStageEnds, FailureCancels, Signal, RunEnds,
         backendVars, vars
    <3> QED
      BY <3>1
  <2> QED
    BY <2>1, <2>2
<1>2. IInv /\ [Next]_vars => [\A s \in (files \ files') \cap post.listed : s \notin InUse]_vars
  BY <1>1
<1> QED
  BY <1>2, Invariant, PTL DEF Spec, SeenInUseSurvive

=============================================================================
