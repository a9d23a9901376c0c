------------------ MODULE DistributedTrajectoryQueueProofs ------------------
(***************************************************************************)
(* Proofs about DistributedTrajectoryQueue for any groups, settings and    *)
(* schedules, any number of cancellations, resizes and failed drops.       *)
(*                                                                         *)
(* What a client knows of its groups is always a little behind the store:  *)
(* an answer is on its way, a take was cancelled after the host handled    *)
(* it, a release has removed the entries and its caller does not know.     *)
(* The invariant has the store's own invariant as one part, which the      *)
(* steps of the client keep because each is a step of the store or none,   *)
(* and says in the others in which one hand every lease is and how far its *)
(* entry is, what a put that is not over has left at the owner, and how    *)
(* far the shutdown must be for the store to be gone.                      *)
(***************************************************************************)
EXTENDS DistributedTrajectoryQueue, SequenceTheorems, FiniteSetTheorems,
        WellFoundedInduction, TLAPS

(* The store's own invariant, proved of its steps, and its limit.          *)
StoreProofs == INSTANCE TrajectoryQueueStoreProofs WITH
                  Consumers <- {ConsumerId},
                  Generations <- {PackedGeneration},
                  InitialMaxReady <- Settings[1].maxsize,
                  Sizes <- 1..MaxSize,
                  MaxTake <- MaxSize

(* Types of the client's state.                                            *)
PutRecords ==
    [pc : {"unborn", "sent", "replied", "waiting", "accepted", "refused", "failed",
           "cancelled"},
     reply : {None, "accepted", "closed", "full", "oversize", "minimum_unreachable",
              "unknown_queue"},
     cancelled : BOOLEAN, woken : BOOLEAN, dropping : BOOLEAN]

Places == {"collect", "flush", "taking", "taken", "waiting", "withdrawing",
           "withdrawn", "undoing", "examine", "releasing", "collected", "marking",
           "marked", "stopped"}

GetRecords ==
    [pc : Places, count : 0..MaxSize, wait : BOOLEAN, after : Nat,
     answer : {None} \cup Answers, cancelled : BOOLEAN, woken : BOOLEAN,
     minimumTakeSize : 0..MaxSize]

StageRecords == [fetched : SUBSET Groups, batch : SUBSET Groups,
                 packed : SUBSET Groups, sentinel : BOOLEAN]

RelRecords == [groups : SUBSET Groups, state : {"none", "sent", "applied", "failed"}]

ShutRecords ==
    [finishing : {"open", "sent", "replied", "done"},
     closing : {"open", "flush", "sent", "replied", "draining", "dropping", "closed",
                "failed"},
     closed : BOOLEAN, cleaning : SUBSET Groups, cleanupRefs : SUBSET Groups,
     closeRefs : SUBSET Groups, failedDrops : SUBSET Groups, ownerFailure : BOOLEAN]

UsedRecords == [cancels : Nat, dropFailures : Nat, schedule : Schedules]

ClientTypes ==
    /\ owned \subseteq Groups
    /\ puts \in [Groups -> PutRecords]
    /\ get \in GetRecords
    /\ stage \in StageRecords /\ IsFiniteSet(stage.batch)
    /\ rel \in [Releasers -> RelRecords]
    /\ shut \in ShutRecords
    /\ used \in UsedRecords

TaskStates == {"sent", "orphan", "lost", "replied", "done"}

(* One task for every resize issued.                                       *)
SizeRecords(ks) ==
    [setting : DOMAIN Settings, effective : 1..MaxSize, tasks : Seq(TaskStates),
     uncollected : SUBSET ks,
     awaits : [get : {None} \cup SUBSET ks, snapshot : {None} \cup SUBSET ks,
               close : {None} \cup SUBSET ks]]

SizeTypes == size \in SizeRecords(DOMAIN resizes) /\ Len(size.tasks) = Len(resizes)

(* A put transfers its group once, and drops it only if it did not.        *)
PutsFollow ==
    \A g \in Groups :
       /\ phase[g] # "absent" =>
             /\ ~puts[g].dropping
             /\ \/ puts[g].pc \in {"accepted", "cancelled"}
                \/ puts[g].pc = "replied" /\ puts[g].reply = "accepted"
       /\ hosted /\ phase[g] # "absent" => g \in owned \/ phase[g] = "released"
       /\ hosted /\ phase[g] = "absent" /\ InFlight(g) => g \in owned
       /\ InFlight(g) => ~puts[g].dropping

(* The queue is closed after the stages have ended, and then forgotten.    *)
ShutFollows ==
    /\ hosted <=> shut.closing \in {"open", "sent"} \/ (shut.closing = "flush" /\ ~closed)
    /\ shut.closing = "open" => ~closed
    /\ shut.closing \notin {"open", "flush"} => closed
    /\ shut.closing # "open" =>
          get.pc = "stopped" /\ \A r \in Releasers : rel[r] = NoRelease
    /\ \A g \in shut.cleaning : phase[g] = "released"

(* Where the consumer is tells what it holds.                              *)
CallsFollow ==
    /\ get.pc \notin {"examine", "releasing", "stopped"} => stage.fetched = {}
    /\ get.answer # None <=> get.pc \in {"taken", "withdrawn"}
    /\ get.pc = "withdrawn" => get.answer.groups = {}
    /\ get.pc \in {"marking", "marked"} => stage.packed = {} /\ stage.batch # {}
    /\ rel["packing"] # NoRelease => get.pc \in {"releasing", "undoing", "stopped"}
    /\ \A r \in Releasers : rel[r] # NoRelease =>
          rel[r].groups # {} /\ rel[r].state \in {"sent", "applied"}
    /\ \A r \in Releasers, g \in Groups :
          rel[r].state = "applied" /\ g \in rel[r].groups => phase[g] = "released"

Answered == IF get.answer = None THEN {} ELSE get.answer.groups
Releasing(r) == IF rel[r].state = "sent" THEN rel[r].groups ELSE {}

(* Each leased group is in one hand, and its entry is as far as that hand. *)
HandsFollow ==
    /\ \A g \in Groups :
          phase[g] \in {"packing", "packed"} =>
             g \in stage.fetched \cup stage.batch \cup stage.packed \cup Answered
                     \cup Releasing("packing") \cup Releasing("trainer")
    /\ \A g \in stage.fetched \cup Answered \cup Releasing("packing") :
          phase[g] = "packing"
    /\ \A g \in stage.batch :
          phase[g] = IF get.pc = "marked" THEN "packed" ELSE "packing"
    /\ \A g \in stage.packed \cup Releasing("trainer") : phase[g] = "packed"
    /\ stage.fetched \cap stage.batch = {}
    /\ stage.fetched \cap Releasing("packing") = {}
    /\ stage.batch \cap Releasing("packing") = {}
    /\ stage.batch \cap Answered = {}
    /\ stage.batch \cap Releasing("trainer") = {}
    /\ stage.packed \cap Releasing("trainer") = {}

IInv == /\ StoreProofs!Inv /\ ClientTypes /\ SizeTypes /\ PutsFollow /\ ShutFollows
        /\ CallsFollow /\ (hosted => HandsFollow)

-----------------------------------------------------------------------------
(* The settings.                                                           *)

LEMMA LeastNumber ==
    ASSUME NEW T \in SUBSET Nat, T # {}
    PROVE  \E n \in T : \A m \in T : n <= m
<1>1. PICK n \in T : \A m \in T : ~ (<<m, n>> \in OpToRel(<, Nat))
  BY NatLessThanWellFounded, WFMin, Zenon
<1>2. \A m \in T : ~ (m < n)
  BY <1>1 DEF OpToRel
<1> QED
  BY <1>2

(* A sequence of numbers is bounded: the shortest part of it without a     *)
(* bound would have one.                                                   *)
LEMMA Bounded ==
    ASSUME NEW n \in Nat, NEW f \in [1..n -> Nat]
    PROVE  \E b \in Nat : \A i \in 1..n : f[i] <= b
<1> DEFINE Has(m) == \E b \in Nat : \A i \in 1..m : f[i] <= b
           T == {m \in 0..n : ~Has(m)}
<1>1. Has(0)
  OBVIOUS
<1>2. ASSUME NEW m \in 1..n, Has(m - 1)
      PROVE  Has(m)
  <2>1. PICK b \in Nat : \A i \in 1..(m - 1) : f[i] <= b
    BY <1>2
  <2>2. f[m] \in Nat
    BY <1>2
  <2>3. CASE f[m] <= b
    <3>1. \A i \in 1..m : f[i] <= b
      BY <1>2, <2>1, <2>3
    <3> QED
      BY <3>1
  <2>4. CASE b < f[m]
    <3>1. \A i \in 1..m : f[i] <= f[m]
      BY <1>2, <2>1, <2>2, <2>4
    <3> QED
      BY <2>2, <3>1
  <2> QED
    BY <2>2, <2>3, <2>4
<1>3. T = {}
  <2>1. SUFFICES ASSUME T # {} PROVE FALSE
    OBVIOUS
  <2>6. T \in SUBSET Nat
    OBVIOUS
  <2>2. PICK m \in T : \A k \in T : m <= k
    BY <2>1, <2>6, LeastNumber
  <2> HIDE DEF Has
  <2>3. m \in 1..n /\ m - 1 \in 0..n /\ m - 1 \notin T
    BY <1>1, <2>2
  <2>4. Has(m - 1)
    BY <2>3
  <2> QED
    BY <1>2, <2>2, <2>3, <2>4
<1>4. n \notin T
  BY <1>3
<1> QED
  BY <1>4

(* A bounded set of numbers has a maximum.                                 *)
LEMMA MaxOfBounded ==
    ASSUME NEW S \in SUBSET Nat, S # {}, NEW b \in Nat, \A x \in S : x <= b
    PROVE  Max(S) \in S /\ \A x \in S : x <= Max(S)
<1> DEFINE U == {u \in Nat : \A x \in S : x <= u}
<1>1. PICK u \in U : \A v \in U : u <= v
  <2>1. U # {} /\ U \in SUBSET Nat
    OBVIOUS
  <2> QED
    BY <2>1, LeastNumber
<1>2. u \in S
  <2>1. SUFFICES ASSUME u \notin S PROVE FALSE
    OBVIOUS
  <2>2. \A x \in S : x <= u - 1
    BY <1>1, <2>1
  <2>3. u - 1 \in Nat
    <3>1. PICK x \in S : x <= u - 1
      BY <2>2
    <3>2. x \in Nat /\ u \in Nat
      BY <1>1
    <3> QED
      BY <3>1, <3>2
  <2> QED
    BY <1>1, <2>2, <2>3
<1>3. \A x \in S : u >= x
  BY <1>1
<1>4. \E m \in S : \A x \in S : m >= x
  BY <1>2, <1>3
<1>5. Max(S) \in S /\ \A x \in S : Max(S) >= x
  BY <1>4 DEF Max
<1> QED
  BY <1>5

LEMMA MaxOfTwo ==
    ASSUME NEW a \in Nat, NEW b \in Nat
    PROVE  /\ Max({a, b}) \in {a, b} /\ Max({a, b}) >= a /\ Max({a, b}) >= b
           /\ a >= b => Max({a, b}) = a
           /\ b >= a => Max({a, b}) = b
<1>1. {a, b} \in SUBSET Nat /\ {a, b} # {}
  OBVIOUS
<1>2. PICK c \in {a, b} : \A x \in {a, b} : x <= c
  BY SMT
<1>3. Max({a, b}) \in {a, b} /\ \A x \in {a, b} : x <= Max({a, b})
  BY <1>1, <1>2, MaxOfBounded
<1> QED
  BY <1>3

LEMMA SettingFacts ==
    /\ MaxSize \in Nat \ {0} /\ 1 \in DOMAIN Settings
    /\ \A i \in DOMAIN Settings :
          /\ Settings[i].maxsize \in 1..MaxSize /\ Settings[i].maxBatch \in 1..MaxSize
          /\ Settings[i].minBatch \in 1..MaxSize
          /\ Settings[i].minBatch <= Settings[i].maxBatch
<1> DEFINE n == Len(Settings)
           f == [i \in 1..n |-> Settings[i].maxsize]
           h == [i \in 1..n |-> Settings[i].maxBatch]
           S == {Settings[i].maxsize : i \in DOMAIN Settings}
                  \cup {Settings[i].maxBatch : i \in DOMAIN Settings}
<1>1. /\ n \in Nat /\ DOMAIN Settings = 1..n /\ 1 \in 1..n
      /\ \A i \in 1..n : /\ Settings[i].maxsize \in Nat \ {0}
                         /\ Settings[i].maxBatch \in Nat \ {0}
                         /\ Settings[i].minBatch \in Nat \ {0}
                         /\ Settings[i].minBatch <= Settings[i].maxBatch
  <2> DEFINE R == [maxsize : Nat \ {0}, minBatch : Nat \ {0}, maxBatch : Nat \ {0}]
  <2>1. Settings \in Seq(R) /\ Settings # <<>>
    BY SettingsAssumption
  <2> HIDE DEF R
  <2>2. n \in Nat \ {0} /\ DOMAIN Settings = 1..n
    BY <2>1, EmptySeq, LenProperties
  <2>3. \A i \in 1..n : Settings[i] \in R
    BY <2>1, <2>2, ElementOfSeq
  <2> USE DEF R
  <2>4. \A i \in 1..n : Settings[i].minBatch <= Settings[i].maxBatch
    BY <2>2, SettingsAssumption
  <2> QED
    BY <2>2, <2>3, <2>4
<1> HIDE DEF n
<1>2. f \in [1..n -> Nat] /\ h \in [1..n -> Nat]
  BY <1>1
<1>3. PICK b \in Nat : \A i \in 1..n : f[i] <= b
  BY <1>1, <1>2, Bounded
<1>4. PICK c \in Nat : \A i \in 1..n : h[i] <= c
  BY <1>1, <1>2, Bounded
<1>5. S \in SUBSET Nat /\ S # {}
  BY <1>1
<1>6. PICK d \in Nat : b <= d /\ c <= d
  BY SMT
<1>7. \A x \in S : x <= d
  <2>1. \A i \in 1..n : Settings[i].maxsize <= d
    BY <1>1, <1>3, <1>6
  <2>2. \A i \in 1..n : Settings[i].maxBatch <= d
    BY <1>1, <1>4, <1>6
  <2> QED
    BY <1>1, <2>1, <2>2
<1>8. MaxSize = Max(S)
  BY DEF MaxSize
<1> HIDE DEF S
<1>9. MaxSize \in S /\ \A x \in S : x <= MaxSize
  BY <1>5, <1>7, <1>8, MaxOfBounded
<1>10. \A i \in 1..n : Settings[i].maxsize \in S /\ Settings[i].maxBatch \in S
  BY <1>1 DEF S
<1> QED
  BY <1>1, <1>5, <1>9, <1>10

-----------------------------------------------------------------------------
(* The store.                                                              *)

(* The two instances define the same state machine.                        *)
LEMMA SameStore ==
    /\ Store!Init => StoreProofs!Init
    /\ [Store!Next]_Store!vars => [StoreProofs!Next]_StoreProofs!vars
  BY DEF
         Store!Next, StoreProofs!Next, Store!Init, StoreProofs!Init,
         Store!vars, StoreProofs!vars, Store!entryVars, StoreProofs!entryVars,
         Store!limitVars, StoreProofs!limitVars, Store!Phases,
         StoreProofs!Phases, Store!Entries, StoreProofs!Entries,
         Store!RecordTotal, StoreProofs!RecordTotal, Store!ByteTotal,
         StoreProofs!ByteTotal, Store!IssueResize, StoreProofs!IssueResize,
         Store!Resize, StoreProofs!Resize, Store!Oversize,
         StoreProofs!Oversize, Store!Blocked, StoreProofs!Blocked,
         Store!MinimumCannotMakeProgress,
         StoreProofs!MinimumCannotMakeProgress, Store!FailsPendingMinimum,
         StoreProofs!FailsPendingMinimum, Store!Inserts, StoreProofs!Inserts,
         Store!Enqueue, StoreProofs!Enqueue, Store!Limit, StoreProofs!Limit,
         Store!Request, StoreProofs!Request, Store!TakeOutcome,
         Store!MayWithdraw, StoreProofs!MayWithdraw,
         StoreProofs!TakeOutcome, Store!TakeCount, StoreProofs!TakeCount,
         Store!Taken, StoreProofs!Taken, Store!NextClaim,
         StoreProofs!NextClaim, Store!Acquire, StoreProofs!Acquire, Store!Take,
         StoreProofs!Take, Store!Lease, StoreProofs!Lease, Store!Leased,
         StoreProofs!Leased, Store!CanMarkPacked, StoreProofs!CanMarkPacked,
         Store!MarkPacked, StoreProofs!MarkPacked, Store!CanRelease,
         StoreProofs!CanRelease, Store!Release, StoreProofs!Release,
         Store!Finish, StoreProofs!Finish, Store!Close, StoreProofs!Close,
         Store!TakeCounts, StoreProofs!TakeCounts, Store!KnownLeases,
         StoreProofs!KnownLeases, Store!Cardinality, StoreProofs!Cardinality,
         Store!MapThenSumSet, StoreProofs!MapThenSumSet, Store!MapThenFoldSet,
         StoreProofs!MapThenFoldSet

(* What the theorems about the store assume of its constants.              *)
LEMMA StoreAssumptions ==
    /\ Records \in [Groups -> Nat] /\ Bytes \in [Groups -> Nat]
    /\ CapacityRecords \in Nat \ {0} /\ CapacityBytes \in Nat \ {0}
    /\ Settings[1].maxsize \in Nat \ {0} /\ MaxSize \in Nat \ {0}
    /\ 1..MaxSize \subseteq Nat \ {0} /\ MaxResizes \in Nat
    /\ None \notin {ConsumerId} \cup {PackedGeneration}
<1>1. /\ Settings[1].maxsize \in Nat \ {0} /\ MaxSize \in Nat \ {0}
      /\ 1..MaxSize \subseteq Nat \ {0}
  BY SettingFacts
<1> QED
  BY <1>1, ClientAssumption

LEMMA StoreInit == Store!Init => StoreProofs!Inv
  BY SameStore, StoreAssumptions, StoreProofs!InitInv

LEMMA StoreStep ==
    ASSUME StoreProofs!Inv, [Store!Next]_Store!vars
    PROVE  StoreProofs!Inv'
<1>1. [StoreProofs!Next]_StoreProofs!vars
  BY SameStore
<1>2. StoreProofs!TypeOK'
  BY <1>1, StoreAssumptions, StoreProofs!TypeStep
<1>3. StoreProofs!ReadyMatchesPhase'
  BY <1>1, StoreAssumptions, StoreProofs!ReadyStep
<1>4. StoreProofs!UsageIsExact'
  BY <1>1, StoreAssumptions, StoreProofs!UsageStep
<1>5. StoreProofs!Claims'
  BY <1>1, StoreAssumptions, StoreProofs!ClaimsStep
<1>6. StoreProofs!EntriesAreFinite'
  BY <1>1, StoreAssumptions, StoreProofs!FiniteStep
<1> QED
  BY <1>2, <1>3, <1>4, <1>5, <1>6 DEF StoreProofs!Inv

(* Nor does a resize that is issued beyond the bound of the model matter.  *)
LEMMA StoreIssue ==
    ASSUME StoreProofs!Inv, NEW m \in 1..MaxSize, Store!IssueResize(m)
    PROVE  StoreProofs!Inv'
<1>1. /\ resizes' = Append(resizes, m)
      /\ UNCHANGED <<phase, ready, consumer, claim, packing, usedRecords, usedBytes,
                     finished, pendingMinimum, minimumError, maxReadyGroups, generation,
                     claimGeneration, hosted>>
  BY DEF Store!IssueResize, Store!entryVars
<1>2. resizes \in Seq(1..MaxSize) /\ generation \in 0..Len(resizes)
  BY DEF StoreProofs!Inv, StoreProofs!TypeOK
<1>3. resizes' \in Seq(1..MaxSize) /\ Len(resizes') = Len(resizes) + 1 /\ Len(resizes) \in Nat
  BY <1>1, <1>2, AppendProperties, LenProperties
<1>4. generation' \in 0..Len(resizes')
  BY <1>1, <1>2, <1>3
<1>5. StoreProofs!TypeOK'
  BY <1>1, <1>3, <1>4 DEF StoreProofs!Inv, StoreProofs!TypeOK
<1> QED
  BY <1>1, <1>5 DEF StoreProofs!Inv, StoreProofs!ReadyMatchesPhase, StoreProofs!UsageIsExact,
     StoreProofs!Claims, StoreProofs!EntriesAreFinite, StoreProofs!Entries

-----------------------------------------------------------------------------
(* What the parts of the invariant read.                                   *)

LEMMA HandsFrame ==
    ASSUME CallsFollow, hosted => HandsFollow, phase' = phase, hosted' = hosted,
           stage' = stage, rel' = rel, get'.pc = get.pc, get'.answer = get.answer
    PROVE  CallsFollow' /\ (hosted => HandsFollow)'
  BY DEF CallsFollow, HandsFollow, Answered, Releasing

LEMMA ShutFrame ==
    ASSUME ShutFollows, phase' = phase, hosted' = hosted, rel' = rel,
           get'.pc = get.pc, shut'.closing = shut.closing, shut'.closed = shut.closed,
           shut'.cleaning \subseteq shut.cleaning
    PROVE  ShutFollows'
  BY DEF ShutFollows, closed

LEMMA PutsFrame ==
    ASSUME PutsFollow, phase' = phase, hosted' = hosted, owned' = owned,
           \A g \in Groups : /\ puts'[g].pc = puts[g].pc
                             /\ puts'[g].reply = puts[g].reply
                             /\ puts'[g].dropping = puts[g].dropping
    PROVE  PutsFollow'
  BY DEF PutsFollow, InFlight

LEMMA StoreFrame ==
    ASSUME StoreProofs!Inv, UNCHANGED store
    PROVE  StoreProofs!Inv'
  BY DEF store, StoreProofs!Inv, StoreProofs!TypeOK, StoreProofs!ReadyMatchesPhase,
         StoreProofs!UsageIsExact, StoreProofs!Claims, StoreProofs!EntriesAreFinite, StoreProofs!Entries

LEMMA AtFields ==
    ASSUME NEW pc \in Places
    PROVE  At(pc) \in GetRecords /\ At(pc).pc = pc /\ At(pc).answer = None
<1>1. 0 \in 0..MaxSize
  BY SettingFacts
<1> QED
  BY <1>1 DEF At, GetRecords

LEMMA NotifiesSpace ==
    ASSUME ClientTypes, NotifySpace
    PROVE  /\ puts' \in [Groups -> PutRecords]
           /\ \A g \in Groups : /\ puts'[g].pc = puts[g].pc
                                /\ puts'[g].reply = puts[g].reply
                                /\ puts'[g].dropping = puts[g].dropping
<1>1. \A g \in Groups : puts[g] \in PutRecords
  BY DEF ClientTypes
<1>2. \A g \in Groups :
         puts'[g] = [puts[g] EXCEPT !.woken = puts[g].woken \/ SpaceRegistered(g)]
  BY DEF NotifySpace
<1>3. ASSUME NEW g \in Groups
      PROVE  /\ puts'[g] \in PutRecords
             /\ puts'[g].pc = puts[g].pc /\ puts'[g].reply = puts[g].reply
             /\ puts'[g].dropping = puts[g].dropping
  <2> DEFINE w == puts[g].woken \/ SpaceRegistered(g)
  <2>1. w \in BOOLEAN
    BY <1>1 DEF PutRecords, SpaceRegistered, InFlight
  <2>2. puts'[g] = [puts[g] EXCEPT !.woken = w]
    BY <1>2
  <2> HIDE DEF w
  <2> QED
    BY <1>1, <2>1, <2>2 DEF PutRecords
<1>4. DOMAIN puts' = Groups /\ puts' = [g \in Groups |-> puts'[g]]
  BY DEF NotifySpace
<1> QED
  BY <1>3, <1>4

LEMMA NotifiesItems ==
    ASSUME get \in GetRecords, NotifyItems
    PROVE  get' \in GetRecords /\ get'.pc = get.pc /\ get'.answer = get.answer
<1> DEFINE w == get.woken \/ ItemsRegistered
<1>1. w \in BOOLEAN
  BY DEF GetRecords, ItemsRegistered
<1>2. get' = [get EXCEPT !.woken = w]
  BY DEF NotifyItems
<1> HIDE DEF w
<1> QED
  BY <1>1, <1>2 DEF GetRecords

-----------------------------------------------------------------------------
(* Resizes.                                                                *)

LEMMA TargetType ==
    ASSUME NEW s \in DOMAIN Settings, NEW m \in 0..MaxSize
    PROVE  Target(m, s) \in 1..MaxSize /\ Target(m, s) >= m
<1>1. MaxSize \in Nat \ {0} /\ Settings[s].maxsize \in 1..MaxSize
  BY SettingFacts
<1>2. /\ Target(m, s) \in {Settings[s].maxsize, m}
      /\ Target(m, s) >= Settings[s].maxsize /\ Target(m, s) >= m
  BY <1>1, MaxOfTwo DEF Target
<1> QED
  BY <1>1, <1>2

(* _sync_maxsize keeps one task for every resize, whatever it decides.     *)
LEMMA SyncedTypes ==
    ASSUME StoreProofs!Inv, SizeTypes, NEW s \in DOMAIN Settings, NEW m \in 0..MaxSize,
           IssueResize(m, s)
    PROVE  /\ StoreProofs!Inv'
           /\ Synced(m, s) \in SizeRecords(DOMAIN resizes')
           /\ Len(Synced(m, s).tasks) = Len(resizes')
           /\ \A k \in 1..Len(size.tasks) : Synced(m, s).tasks[k] = size.tasks[k]
           /\ DOMAIN resizes \subseteq DOMAIN resizes'
           /\ phase' = phase /\ hosted' = hosted
           /\ UNCHANGED store \/ Store!IssueResize(Target(m, s))
<1>1. resizes \in Seq(1..MaxSize) /\ Target(m, s) \in 1..MaxSize
  BY TargetType DEF StoreProofs!Inv, StoreProofs!TypeOK
<1>2. size \in SizeRecords(DOMAIN resizes) /\ Len(size.tasks) = Len(resizes)
  BY DEF SizeTypes
<1>3. /\ DOMAIN resizes = 1..Len(resizes) /\ Len(resizes) \in Nat
      /\ size.tasks \in Seq(TaskStates)
  BY <1>1, <1>2, LenProperties DEF SizeRecords
<1>4. CASE Resizes(m, s)
  <2>1. Store!IssueResize(Target(m, s))
    BY <1>4 DEF IssueResize
  <2>2. StoreProofs!Inv'
    BY <1>1, <2>1, StoreIssue
  <2>3. resizes' = Append(resizes, Target(m, s)) /\ phase' = phase /\ hosted' = hosted
    BY <2>1 DEF Store!IssueResize, Store!entryVars
  <2>4. Len(resizes') = Len(resizes) + 1 /\ DOMAIN resizes' = 1..(Len(resizes) + 1)
    BY <1>1, <1>3, <2>3, AppendProperties
  <2> DEFINE t == Append(size.tasks, "sent")
             u == size.uncollected \cup {Len(resizes) + 1}
  <2>5. /\ t \in Seq(TaskStates) /\ Len(t) = Len(size.tasks) + 1
        /\ \A k \in 1..Len(size.tasks) : t[k] = size.tasks[k]
    <3>1. "sent" \in TaskStates
      BY DEF TaskStates
    <3> QED
      BY <1>3, <3>1, AppendProperties
  <2>6. Synced(m, s) = [size EXCEPT !.setting = s, !.effective = Target(m, s),
                                   !.tasks = t, !.uncollected = u]
    BY <1>4 DEF Synced
  <2>7. DOMAIN resizes \subseteq DOMAIN resizes' /\ Len(resizes) + 1 \in DOMAIN resizes'
    BY <1>3, <2>4
  <2>8. u \in SUBSET DOMAIN resizes'
    BY <1>2, <2>7 DEF SizeRecords
  <2>9. size.awaits \in [get : {None} \cup SUBSET DOMAIN resizes',
                         snapshot : {None} \cup SUBSET DOMAIN resizes',
                         close : {None} \cup SUBSET DOMAIN resizes']
    BY <1>2, <2>7 DEF SizeRecords
  <2> HIDE DEF t, u
  <2>10. Synced(m, s) \in SizeRecords(DOMAIN resizes') /\ Synced(m, s).tasks = t
    BY <1>1, <1>2, <2>5, <2>6, <2>8, <2>9 DEF SizeRecords
  <2> QED
    BY <1>2, <2>1, <2>2, <2>3, <2>4, <2>5, <2>7, <2>10
<1>5. CASE ~Resizes(m, s)
  <2>1. UNCHANGED store
    BY <1>5 DEF IssueResize
  <2>2. resizes' = resizes /\ phase' = phase /\ hosted' = hosted
    BY <2>1 DEF store
  <2>3. Synced(m, s) = [size EXCEPT !.setting = s, !.effective = Target(m, s)]
    BY <1>2, <1>5 DEF Synced, SizeRecords
  <2>4. Synced(m, s) \in SizeRecords(DOMAIN resizes) /\ Synced(m, s).tasks = size.tasks
    BY <1>1, <1>2, <2>3 DEF SizeRecords
  <2> QED
    BY <1>2, <2>1, <2>2, <2>4, StoreFrame
<1> QED
  BY <1>4, <1>5

LEMMA SizeFrame ==
    ASSUME SizeTypes, size' = size, resizes' = resizes
    PROVE  SizeTypes'
  BY DEF SizeTypes

(* A flush takes over tasks and ends without losing one.                   *)
LEMMA CollectTypes ==
    ASSUME NEW z, NEW ks, z \in SizeRecords(ks), NEW f \in {"get", "snapshot", "close"}
    PROVE  /\ Collect(f, z) \in SizeRecords(ks) /\ Collect(f, z).tasks = z.tasks
           /\ [z EXCEPT !.awaits[f] = None] \in SizeRecords(ks)
           /\ [z EXCEPT !.awaits[f] = None].tasks = z.tasks
<1> DEFINE W == [get : {None} \cup SUBSET ks, snapshot : {None} \cup SUBSET ks,
                 close : {None} \cup SUBSET ks]
<1>1. z.awaits \in W /\ z.uncollected \in SUBSET ks
  BY DEF SizeRecords
<1>2. [z.awaits EXCEPT ![f] = z.uncollected] \in W /\ [z.awaits EXCEPT ![f] = None] \in W
  <2>1. CASE f = "get"
    BY <1>1, <2>1
  <2>2. CASE f = "snapshot"
    BY <1>1, <2>2
  <2>3. CASE f = "close"
    BY <1>1, <2>3
  <2> QED
    BY <2>1, <2>2, <2>3
<1>3. /\ Collect(f, z) = [z EXCEPT !.awaits = [z.awaits EXCEPT ![f] = z.uncollected],
                                   !.uncollected = {}]
      /\ [z EXCEPT !.awaits[f] = None]
            = [z EXCEPT !.awaits = [z.awaits EXCEPT ![f] = None]]
  BY DEF Collect, SizeRecords
<1> DEFINE a == [z.awaits EXCEPT ![f] = z.uncollected]
           b == [z.awaits EXCEPT ![f] = None]
<1>4. a \in W /\ b \in W /\ {} \in SUBSET ks
  BY <1>2
<1>5. Collect(f, z) = [z EXCEPT !.awaits = a, !.uncollected = {}]
      /\ [z EXCEPT !.awaits[f] = None] = [z EXCEPT !.awaits = b]
  BY <1>3
<1> HIDE DEF a, b
<1> QED
  BY <1>4, <1>5 DEF SizeRecords

(* The end of get_many.                                                    *)
LEMMA GetEnds ==
    ASSUME StoreProofs!Inv, SizeTypes, NEW pc \in Places, EndGet(pc)
    PROVE  /\ StoreProofs!Inv' /\ SizeTypes'
           /\ get' \in GetRecords /\ get'.pc = pc /\ get'.answer = None
           /\ phase' = phase /\ hosted' = hosted
           /\ UNCHANGED store \/ Store!IssueResize(Target(0, size.setting))
<1>1. size.setting \in DOMAIN Settings /\ 0 \in 0..MaxSize
  BY SettingFacts DEF SizeTypes, SizeRecords
<1>2. get' = At(pc) /\ size' = Synced(0, size.setting) /\ IssueResize(0, size.setting)
  BY DEF EndGet
<1>3. /\ StoreProofs!Inv'
      /\ Synced(0, size.setting) \in SizeRecords(DOMAIN resizes')
      /\ Len(Synced(0, size.setting).tasks) = Len(resizes')
      /\ \A k \in 1..Len(size.tasks) : Synced(0, size.setting).tasks[k] = size.tasks[k]
      /\ DOMAIN resizes \subseteq DOMAIN resizes'
      /\ phase' = phase /\ hosted' = hosted
      /\ UNCHANGED store \/ Store!IssueResize(Target(0, size.setting))
  BY <1>1, <1>2, SyncedTypes
<1>4. SizeTypes'
  BY <1>2, <1>3 DEF SizeTypes
<1>5. At(pc) \in GetRecords /\ At(pc).pc = pc /\ At(pc).answer = None
  BY AtFields
<1> QED
  BY <1>2, <1>3, <1>4, <1>5

-----------------------------------------------------------------------------
(* Every step is a step of the store, or of none, or issues a resize.      *)
StoreMove ==
    [Store!Next]_Store!vars \/ \E m \in 1..MaxSize : Store!IssueResize(m)

LEMMA Quiet ==
    ASSUME StoreProofs!Inv, UNCHANGED store
    PROVE  /\ StoreProofs!Inv' /\ StoreMove
           /\ phase' = phase /\ hosted' = hosted /\ resizes' = resizes
<1>1. UNCHANGED Store!vars
  BY DEF store, Store!vars, Store!entryVars, Store!limitVars
<1> QED
  BY <1>1, StoreFrame DEF StoreMove, store

-----------------------------------------------------------------------------
(* put                                                                     *)

LEMMA PutFields ==
    ASSUME NEW pc \in {"sent", "accepted", "refused", "failed", "cancelled"},
           NEW drop \in BOOLEAN
    PROVE  Put(pc, drop) \in PutRecords /\ Put(pc, drop).pc = pc
           /\ Put(pc, drop).dropping = drop
  BY DEF Put, PutRecords

LEMMA Attempts ==
    ASSUME ClientTypes, NEW g \in Groups, PutAttempt(g)
    PROVE  /\ puts' \in [Groups -> PutRecords]
           /\ \A h \in Groups : h # g => puts'[h] = puts[h]
           /\ puts'[g].pc = IF closed THEN "refused" ELSE "sent"
           /\ puts'[g].dropping <=> closed
<1>1. puts \in [Groups -> PutRecords] /\ closed \in BOOLEAN
  BY DEF ClientTypes, closed, ShutRecords
<1> DEFINE p == IF closed THEN Put("refused", TRUE) ELSE Put("sent", FALSE)
<1>2. /\ p \in PutRecords /\ p.pc = IF closed THEN "refused" ELSE "sent"
      /\ p.dropping <=> closed
  BY <1>1, PutFields
<1>3. puts' = [puts EXCEPT ![g] = p]
  BY DEF PutAttempt
<1> HIDE DEF p
<1> QED
  BY <1>1, <1>2, <1>3

LEMMA PutStartStep ==
    ASSUME IInv, NEW g \in Groups, PutStart(g)
    PROVE  IInv' /\ StoreMove
<1> USE DEF IInv
<1>0. puts[g].pc = "unborn" /\ owned' = owned \cup {g} /\ PutAttempt(g)
  BY DEF PutStart
<1>1. UNCHANGED <<store, get, stage, rel, size, shut, used>>
  BY DEF PutStart
<1>2. /\ StoreProofs!Inv' /\ StoreMove
      /\ phase' = phase /\ hosted' = hosted /\ resizes' = resizes
  BY <1>1, Quiet
<1>3. /\ puts' \in [Groups -> PutRecords]
      /\ \A h \in Groups : h # g => puts'[h] = puts[h]
      /\ puts'[g].pc = IF closed THEN "refused" ELSE "sent"
      /\ puts'[g].dropping <=> closed
  BY <1>0, Attempts
<1>4. ClientTypes'
  BY <1>0, <1>1, <1>3 DEF ClientTypes
<1>5. phase[g] = "absent"
  BY <1>0 DEF PutsFollow
<1>6. PutsFollow'
  BY <1>0, <1>2, <1>3, <1>5 DEF PutsFollow, InFlight
<1>7. SizeTypes' /\ ShutFollows'
  BY <1>1, <1>2, SizeFrame, ShutFrame
<1>8. CallsFollow' /\ (hosted => HandsFollow)'
  BY <1>1, <1>2, HandsFrame
<1> QED
  BY <1>2, <1>4, <1>6, <1>7, <1>8

LEMMA PutWakeStep ==
    ASSUME IInv, NEW g \in Groups, PutWake(g)
    PROVE  IInv' /\ StoreMove
<1> USE DEF IInv
<1>0. puts[g].pc = "waiting" /\ PutAttempt(g)
  BY DEF PutWake
<1>1. UNCHANGED <<store, owned, get, stage, rel, size, shut, used>>
  BY DEF PutWake
<1>2. /\ StoreProofs!Inv' /\ StoreMove
      /\ phase' = phase /\ hosted' = hosted /\ resizes' = resizes
  BY <1>1, Quiet
<1>3. /\ puts' \in [Groups -> PutRecords]
      /\ \A h \in Groups : h # g => puts'[h] = puts[h]
      /\ puts'[g].pc = IF closed THEN "refused" ELSE "sent"
      /\ puts'[g].dropping <=> closed
  BY <1>0, Attempts
<1>4. ClientTypes'
  BY <1>1, <1>3 DEF ClientTypes
<1>5. phase[g] = "absent" /\ (hosted => g \in owned)
  BY <1>0 DEF PutsFollow, InFlight
<1>6. PutsFollow'
  BY <1>1, <1>2, <1>3, <1>5 DEF PutsFollow, InFlight
<1>7. SizeTypes' /\ ShutFollows'
  BY <1>1, <1>2, SizeFrame, ShutFrame
<1>8. CallsFollow' /\ (hosted => HandsFollow)'
  BY <1>1, <1>2, HandsFrame
<1> QED
  BY <1>2, <1>4, <1>6, <1>7, <1>8

LEMMA PutCancelStep ==
    ASSUME IInv, NEW g \in Groups, PutCancel(g)
    PROVE  IInv' /\ StoreMove
<1> USE DEF IInv
<1>0. InFlight(g) /\ UNCHANGED <<store, owned, get, stage, rel, size, shut>>
  BY DEF PutCancel
<1>1. /\ StoreProofs!Inv' /\ StoreMove
      /\ phase' = phase /\ hosted' = hosted /\ resizes' = resizes
  BY <1>0, Quiet
<1>2. used' \in UsedRecords
  BY DEF PutCancel, ClientTypes, UsedRecords
<1> DEFINE q == [puts[g] EXCEPT !.cancelled = TRUE]
           p == IF puts[g].pc = "waiting" THEN Put("cancelled", TRUE) ELSE q
<1>3. puts \in [Groups -> PutRecords] /\ puts[g] \in PutRecords
  BY DEF ClientTypes
<1>4. puts' = [puts EXCEPT ![g] = p]
  BY DEF PutCancel
<1>5. /\ q \in PutRecords /\ q.pc = puts[g].pc /\ q.reply = puts[g].reply
      /\ q.dropping = puts[g].dropping
  BY <1>3 DEF PutRecords
<1> HIDE DEF q
<1>6. /\ p \in PutRecords
      /\ puts[g].pc = "waiting" => p.pc = "cancelled"
      /\ puts[g].pc # "waiting" =>
            /\ p.pc = puts[g].pc /\ p.reply = puts[g].reply
            /\ p.dropping = puts[g].dropping
  BY <1>5, PutFields
<1> HIDE DEF p
<1>7. ClientTypes'
  BY <1>0, <1>2, <1>3, <1>4, <1>6 DEF ClientTypes
<1>8. /\ puts'[g] = p
      /\ \A h \in Groups : h # g => puts'[h] = puts[h]
  BY <1>3, <1>4
<1>9. PutsFollow'
  <2>1. CASE puts[g].pc = "waiting"
    <3>1. phase[g] = "absent"
      BY <2>1 DEF PutsFollow
    <3> QED
      BY <1>0, <1>1, <1>6, <1>8, <2>1, <3>1 DEF PutsFollow, InFlight
  <2>2. CASE puts[g].pc # "waiting"
    BY <1>0, <1>1, <1>6, <1>8, <2>2, PutsFrame
  <2> QED
    BY <2>1, <2>2
<1>10. SizeTypes' /\ ShutFollows'
  BY <1>0, <1>1, SizeFrame, ShutFrame
<1>11. CallsFollow' /\ (hosted => HandsFollow)'
  BY <1>0, <1>1, HandsFrame
<1> QED
  BY <1>1, <1>7, <1>9, <1>10, <1>11

LEMMA PutDropStep ==
    ASSUME IInv, NEW g \in Groups, PutDrop(g)
    PROVE  IInv' /\ StoreMove
<1> USE DEF IInv
<1>0. puts[g].dropping /\ owned' = owned \ {g}
  BY DEF PutDrop
<1>1. UNCHANGED <<store, get, stage, rel, size, shut, used>>
  BY DEF PutDrop
<1>2. /\ StoreProofs!Inv' /\ StoreMove
      /\ phase' = phase /\ hosted' = hosted /\ resizes' = resizes
  BY <1>1, Quiet
<1>3. puts \in [Groups -> PutRecords] /\ puts[g] \in PutRecords
  BY DEF ClientTypes
<1> DEFINE p == [puts[g] EXCEPT !.dropping = FALSE]
<1>4. puts' = [puts EXCEPT ![g] = p]
  BY DEF PutDrop
<1>5. p \in PutRecords /\ p.pc = puts[g].pc
  BY <1>3 DEF PutRecords
<1> HIDE DEF p
<1>6. puts' \in [Groups -> PutRecords] /\ puts'[g].pc = puts[g].pc
      /\ \A h \in Groups : h # g => puts'[h] = puts[h]
  BY <1>3, <1>4, <1>5
<1>7. phase[g] = "absent" /\ ~InFlight(g)
  BY <1>0 DEF PutsFollow
<1>8. ClientTypes'
  BY <1>0, <1>1, <1>6 DEF ClientTypes
<1>9. PutsFollow'
  BY <1>0, <1>2, <1>6, <1>7 DEF PutsFollow, InFlight
<1>10. SizeTypes' /\ ShutFollows'
  BY <1>1, <1>2, SizeFrame, ShutFrame
<1>11. CallsFollow' /\ (hosted => HandsFollow)'
  BY <1>1, <1>2, HandsFrame
<1> QED
  BY <1>2, <1>8, <1>9, <1>10, <1>11

(* What a store step is worth to the client.                               *)
LEMMA Moves ==
    ASSUME StoreProofs!Inv, Store!Next
    PROVE  StoreProofs!Inv' /\ StoreMove
  BY StoreStep DEF StoreMove

LEMMA HostEnqueueStep ==
    ASSUME IInv, NEW g \in Groups, HostEnqueue(g)
    PROVE  IInv' /\ StoreMove
<1> USE DEF IInv
<1>0. puts[g].pc = "sent" /\ UNCHANGED <<owned, get, stage, rel, size, shut, used>>
  BY DEF HostEnqueue
<1>1. phase[g] = "absent" /\ (hosted => g \in owned) /\ ~puts[g].dropping
  BY <1>0 DEF PutsFollow, InFlight
<1>2. IF hosted THEN Store!Enqueue(g) ELSE UNCHANGED store
  BY DEF HostEnqueue
<1>3. phase \in [Groups -> StoreProofs!Phases]
  BY DEF StoreProofs!Inv, StoreProofs!TypeOK
<1>4. StoreProofs!Inv' /\ StoreMove
  <2>1. CASE hosted
    <3>1. Store!Next
      BY <1>1, <1>2, <2>1 DEF Store!Next
    <3> QED
      BY <3>1, Moves
  <2>2. CASE ~hosted
    BY <1>2, <2>2, Quiet
  <2> QED
    BY <2>1, <2>2
<1>5. /\ hosted' = hosted /\ resizes' = resizes
      /\ \A h \in Groups : h # g => phase'[h] = phase[h]
      /\ phase'[g] \in {"absent", "ready"}
      /\ phase'[g] = "ready" => hosted /\ Store!Inserts(g)
  <2>1. CASE hosted
    <3>1. hosted' = hosted /\ resizes' = resizes
      BY <1>2, <2>1 DEF Store!Enqueue, Store!limitVars
    <3>2. CASE Store!Inserts(g)
      <4>1. phase' = [phase EXCEPT ![g] = "ready"]
        BY <1>2, <2>1, <3>2 DEF Store!Enqueue
      <4> QED
        BY <1>3, <2>1, <3>1, <3>2, <4>1
    <3>3. CASE ~Store!Inserts(g)
      <4>1. phase' = phase
        BY <1>2, <2>1, <3>3 DEF Store!Enqueue
      <4> QED
        BY <1>1, <3>1, <4>1
    <3> QED
      BY <3>2, <3>3
  <2>2. CASE ~hosted
    BY <1>1, <1>2, <2>2 DEF store
  <2> QED
    BY <2>1, <2>2
<1> DEFINE r == IF hosted THEN Store!EnqueueStatus(g) ELSE "unknown_queue"
           p == [puts[g] EXCEPT !.pc = "replied", !.reply = r]
<1>6. /\ r \in {"accepted", "closed", "full", "oversize", "minimum_unreachable",
                "unknown_queue"}
      /\ hosted /\ Store!Inserts(g) => r = "accepted"
  BY DEF Store!EnqueueStatus, Store!Inserts, Store!FailsPendingMinimum
<1>7. puts \in [Groups -> PutRecords] /\ puts[g] \in PutRecords
  BY DEF ClientTypes
<1>8. puts' = [puts EXCEPT ![g] = p]
  BY <1>7 DEF HostEnqueue, PutRecords
<1> HIDE DEF r
<1>9. p \in PutRecords /\ p.pc = "replied" /\ p.reply = r /\ p.dropping = puts[g].dropping
  BY <1>6, <1>7 DEF PutRecords
<1> HIDE DEF p
<1>10. /\ puts' \in [Groups -> PutRecords] /\ puts'[g] = p
       /\ \A h \in Groups : h # g => puts'[h] = puts[h]
  BY <1>7, <1>8, <1>9
<1>11. ClientTypes'
  BY <1>0, <1>10 DEF ClientTypes
<1>12. PutsFollow'
  <2>1. /\ phase'[g] # "absent" => puts'[g].reply = "accepted"
        /\ puts'[g].pc = "replied" /\ ~puts'[g].dropping
        /\ hosted' => g \in owned'
    BY <1>0, <1>1, <1>5, <1>6, <1>9, <1>10
  <2>2. \A h \in Groups : h # g => /\ phase'[h] = phase[h] /\ puts'[h] = puts[h]
                                   /\ (h \in owned') <=> (h \in owned)
    BY <1>0, <1>5, <1>10
  <2> QED
    BY <1>5, <2>1, <2>2 DEF PutsFollow, InFlight
<1>13. SizeTypes'
  BY <1>0, <1>5, SizeFrame
<1>14. \A h \in Groups : h # g => phase'[h] = phase[h]
  BY <1>5
<1>15. ShutFollows'
  BY <1>0, <1>1, <1>5 DEF ShutFollows, closed, ClientTypes, ShutRecords
<1>16. CallsFollow'
  BY <1>0, <1>1, <1>5 DEF CallsFollow
<1>17. (hosted => HandsFollow)'
  <2>1. SUFFICES ASSUME hosted PROVE HandsFollow'
    BY <1>5
  <2>2. HandsFollow
    BY <2>1
  <2>3. /\ Answered' = Answered
        /\ \A s \in Releasers : /\ (rel'[s].state = "sent") <=> (rel[s].state = "sent")
                                /\ rel'[s].groups = rel[s].groups
    BY <1>0 DEF Answered
  <2>4. /\ g \notin stage.fetched /\ g \notin Answered /\ g \notin Releasing("packing")
        /\ g \notin stage.batch /\ g \notin stage.packed /\ g \notin Releasing("trainer")
    BY <1>1, <2>2 DEF HandsFollow
  <2>5. stage' = stage /\ get'.pc = get.pc
    BY <1>0
  <2>6. /\ stage.fetched \subseteq Groups /\ stage.batch \subseteq Groups
        /\ stage.packed \subseteq Groups /\ Answered \subseteq Groups
        /\ Releasing("packing") \subseteq Groups /\ Releasing("trainer") \subseteq Groups
    BY DEF ClientTypes, StageRecords, GetRecords, RelRecords, Answered, Answers, Releasing,
           Releasers
  <2> QED
    BY <1>0, <1>5, <2>2, <2>3, <2>4, <2>5, <2>6 DEF HandsFollow, Releasing, Releasers
<1> QED
  BY <1>4, <1>11, <1>12, <1>13, <1>15, <1>16, <1>17

LEMMA PutReplyStep ==
    ASSUME IInv, NEW g \in Groups, PutReply(g)
    PROVE  IInv' /\ StoreMove
<1> USE DEF IInv
<1>0. puts[g].pc = "replied" /\ UNCHANGED <<store, owned, stage, rel, size, shut, used>>
  BY DEF PutReply
<1>1. /\ StoreProofs!Inv' /\ StoreMove
      /\ phase' = phase /\ hosted' = hosted /\ resizes' = resizes
  BY <1>0, Quiet
<1>2. puts \in [Groups -> PutRecords] /\ puts[g] \in PutRecords
  BY DEF ClientTypes
<1>3. \E p \in PutRecords :
         /\ puts' = [puts EXCEPT ![g] = p]
         /\ p.pc \in {"cancelled", "accepted", "refused", "waiting", "failed"}
         /\ puts[g].reply = "accepted" =>
               p.pc \in {"accepted", "cancelled"} /\ ~p.dropping
         /\ p.pc = "waiting" => ~p.dropping
  <2> DEFINE a == Put("cancelled", puts[g].reply # "accepted")
             b == [puts[g] EXCEPT !.pc = "waiting"]
  <2>1. (puts[g].reply # "accepted") \in BOOLEAN
    OBVIOUS
  <2>2. a \in PutRecords /\ a.pc = "cancelled" /\ (a.dropping <=> puts[g].reply # "accepted")
    BY <2>1, PutFields
  <2>3. b \in PutRecords /\ b.pc = "waiting" /\ b.dropping = puts[g].dropping
    BY <1>2 DEF PutRecords
  <2>4. ~puts[g].dropping
    BY <1>0 DEF PutsFollow, InFlight
  <2>5. CASE puts[g].cancelled
    <3>1. puts' = [puts EXCEPT ![g] = a]
      BY <2>5 DEF PutReply
    <3> HIDE DEF a
    <3> QED
      BY <2>2, <3>1
  <2>6. CASE ~puts[g].cancelled /\ puts[g].reply = "accepted"
    <3>1. puts' = [puts EXCEPT ![g] = Put("accepted", FALSE)]
      BY <2>6 DEF PutReply
    <3>2. Put("accepted", FALSE) \in PutRecords /\ Put("accepted", FALSE).pc = "accepted"
          /\ ~Put("accepted", FALSE).dropping
      BY PutFields
    <3> QED
      BY <3>1, <3>2
  <2>7. CASE ~puts[g].cancelled /\ puts[g].reply = "full"
    <3>1. puts' = [puts EXCEPT ![g] = b]
      BY <2>7 DEF PutReply
    <3> HIDE DEF b
    <3> QED
      BY <2>3, <2>4, <2>7, <3>1
  <2>8. CASE ~puts[g].cancelled /\ puts[g].reply \notin {"accepted", "full"}
    <3>1. \/ puts' = [puts EXCEPT ![g] = Put("refused", TRUE)]
          \/ puts' = [puts EXCEPT ![g] = Put("failed", TRUE)]
      BY <2>8 DEF PutReply
    <3>2. /\ Put("refused", TRUE) \in PutRecords /\ Put("refused", TRUE).pc = "refused"
          /\ Put("failed", TRUE) \in PutRecords /\ Put("failed", TRUE).pc = "failed"
      BY PutFields
    <3> QED
      BY <2>8, <3>1, <3>2
  <2>9. puts[g].cancelled \in BOOLEAN
    BY <1>2 DEF PutRecords
  <2> QED
    BY <2>5, <2>6, <2>7, <2>8, <2>9
<1>4. PICK p \in PutRecords :
         /\ puts' = [puts EXCEPT ![g] = p]
         /\ p.pc \in {"cancelled", "accepted", "refused", "waiting", "failed"}
         /\ puts[g].reply = "accepted" =>
               p.pc \in {"accepted", "cancelled"} /\ ~p.dropping
         /\ p.pc = "waiting" => ~p.dropping
  BY <1>3
<1>5. /\ puts' \in [Groups -> PutRecords] /\ puts'[g] = p
      /\ \A h \in Groups : h # g => puts'[h] = puts[h]
  BY <1>2, <1>4
<1>6. get' \in GetRecords /\ get'.pc = get.pc /\ get'.answer = get.answer
  <2>1. NotifyItems \/ UNCHANGED get
    BY DEF PutReply
  <2>2. get \in GetRecords
    BY DEF ClientTypes
  <2> QED
    BY <2>1, <2>2, NotifiesItems
<1>7. ClientTypes'
  BY <1>0, <1>5, <1>6 DEF ClientTypes
<1>8. PutsFollow'
  <2>1. phase[g] # "absent" => puts[g].reply = "accepted"
    BY <1>0 DEF PutsFollow
  <2>2. hosted /\ phase[g] = "absent" => g \in owned
    BY <1>0 DEF PutsFollow, InFlight
  <2>3. hosted /\ phase[g] # "absent" => g \in owned \/ phase[g] = "released"
    BY DEF PutsFollow
  <2> QED
    BY <1>0, <1>1, <1>4, <1>5, <2>1, <2>2, <2>3 DEF PutsFollow, InFlight
<1>9. SizeTypes' /\ ShutFollows'
  BY <1>0, <1>1, <1>6, SizeFrame, ShutFrame
<1>10. CallsFollow' /\ (hosted => HandsFollow)'
  BY <1>0, <1>1, <1>6, HandsFrame
<1> QED
  BY <1>1, <1>7, <1>8, <1>9, <1>10

-----------------------------------------------------------------------------
(* get_many                                                                *)

(* Puts are not concerned.                                                 *)
LEMMA PutsSame ==
    ASSUME PutsFollow, phase' = phase, hosted' = hosted, owned' = owned, puts' = puts
    PROVE  PutsFollow'
  BY PutsFrame

LEMMA TakingFields ==
    ASSUME NEW n \in 0..MaxSize, get \in GetRecords, resizes \in Seq(1..MaxSize)
    PROVE  LET u == [Taking EXCEPT !.count = n] IN
           /\ Taking \in GetRecords /\ Taking.pc = "taking" /\ Taking.answer = get.answer
           /\ u \in GetRecords /\ u.pc = "taking" /\ u.answer = get.answer
<1>1. Len(resizes) \in Nat
  BY LenProperties
<1> QED
  BY <1>1 DEF Taking, GetRecords, Places

(* The batch is a finite set.                                              *)
LEMMA HeldType == ClientTypes => held \in Nat
  BY FS_CardinalityType DEF ClientTypes, held

LEMMA GetStartStep ==
    ASSUME IInv, GetStart
    PROVE  IInv' /\ StoreMove
<1> USE DEF IInv
<1>0. /\ get.pc = "collect" /\ ~stage.sentinel /\ held < maxBatch
      /\ UNCHANGED <<owned, puts, stage, rel, shut, used>>
  BY DEF GetStart, Collecting
<1>1. /\ size \in SizeRecords(DOMAIN resizes) /\ size.setting \in DOMAIN Settings
      /\ held \in Nat /\ get \in GetRecords
  BY HeldType DEF SizeTypes, SizeRecords, ClientTypes
<1>2. /\ MaxSize \in Nat /\ maxBatch \in 1..MaxSize /\ minBatch \in 1..MaxSize
      /\ maxsize \in 1..MaxSize /\ minBatch <= maxBatch
  BY <1>1, SettingFacts DEF maxBatch, minBatch, maxsize
<1>3. get.answer = None /\ stage.fetched = {} /\ rel["packing"] = NoRelease
  BY <1>0 DEF CallsFollow
<1>4. /\ get' \in GetRecords /\ get'.pc \in {"flush", "taking"} /\ get'.answer = None
      /\ StoreProofs!Inv' /\ StoreMove /\ SizeTypes'
      /\ phase' = phase /\ hosted' = hosted
  <2>1. CASE /\ held < minBatch /\ minBatch <= maxsize
             /\ get' = [At("flush") EXCEPT !.count = minBatch - held, !.wait = TRUE,
                                           !.minimumTakeSize = minBatch]
             /\ IssueResize(minBatch, size.setting)
             /\ size' = Collect("get", Synced(minBatch, size.setting))
    <3>1. minBatch \in 0..MaxSize /\ minBatch - held \in 0..MaxSize
      BY <1>1, <1>2, <2>1
    <3> DEFINE z == Synced(minBatch, size.setting)
    <3>2. /\ StoreProofs!Inv'
          /\ z \in SizeRecords(DOMAIN resizes')
          /\ Len(z.tasks) = Len(resizes')
          /\ \A k \in 1..Len(size.tasks) : z.tasks[k] = size.tasks[k]
          /\ DOMAIN resizes \subseteq DOMAIN resizes'
          /\ phase' = phase /\ hosted' = hosted
          /\ UNCHANGED store \/ Store!IssueResize(Target(minBatch, size.setting))
      BY <1>1, <2>1, <3>1, SyncedTypes
    <3> HIDE DEF z
    <3>3. /\ Collect("get", z) \in SizeRecords(DOMAIN resizes')
          /\ Collect("get", z).tasks = z.tasks
      BY <3>2, CollectTypes
    <3>4. size' = Collect("get", z)
      BY <2>1 DEF z
    <3>5. SizeTypes'
      BY <3>2, <3>3, <3>4 DEF SizeTypes
    <3>6. StoreMove
      <4>1. Target(minBatch, size.setting) \in 1..MaxSize
        BY <1>1, <3>1, TargetType
      <4> QED
        BY <3>2, <4>1, Quiet DEF StoreMove
    <3>7. At("flush") \in GetRecords /\ At("flush").pc = "flush" /\ At("flush").answer = None
      BY AtFields DEF Places
    <3>8. get' \in GetRecords /\ get'.pc = "flush" /\ get'.answer = None
      BY <2>1, <3>1, <3>7 DEF GetRecords
    <3> QED
      BY <3>2, <3>5, <3>6, <3>8
  <2>2. CASE /\ ~(held < minBatch)
             /\ get' = [Taking EXCEPT !.count = maxBatch - held]
             /\ UNCHANGED <<store, size>>
    <3>1. maxBatch - held \in 0..MaxSize
      BY <1>0, <1>1, <1>2
    <3>2. resizes \in Seq(1..MaxSize)
      BY DEF StoreProofs!Inv, StoreProofs!TypeOK
    <3> DEFINE u == [Taking EXCEPT !.count = maxBatch - held]
    <3>3. u \in GetRecords /\ u.pc = "taking" /\ u.answer = get.answer
      BY <1>1, <3>1, <3>2, TakingFields
    <3>4. get' = u
      BY <2>2
    <3> HIDE DEF u
    <3> QED
      BY <1>3, <2>2, <3>3, <3>4, Quiet, SizeFrame
  <2> QED
    BY <2>1, <2>2 DEF GetStart
<1>5. ClientTypes'
  BY <1>0, <1>4 DEF ClientTypes
<1>6. PutsFollow'
  BY <1>0, <1>4, PutsSame
<1>7. shut.closing = "open"
  BY <1>0 DEF ShutFollows
<1>8. ShutFollows'
  BY <1>0, <1>4, <1>7 DEF ShutFollows, closed
<1>9. CallsFollow'
  BY <1>0, <1>3, <1>4 DEF CallsFollow
<1>10. (hosted => HandsFollow)'
  BY <1>0, <1>3, <1>4 DEF HandsFollow, Answered, Releasing
<1> QED
  BY <1>4, <1>5, <1>6, <1>8, <1>9, <1>10

LEMMA GetRefusedStep ==
    ASSUME IInv, GetRefused
    PROVE  IInv' /\ StoreMove
<1> USE DEF IInv
<1>0. /\ get.pc = "collect" /\ get' = At("stopped")
      /\ shut' = [shut EXCEPT !.ownerFailure = FALSE]
      /\ UNCHANGED <<store, owned, puts, stage, rel, size, used>>
  BY DEF GetRefused, Collecting
<1>1. /\ StoreProofs!Inv' /\ StoreMove
      /\ phase' = phase /\ hosted' = hosted /\ resizes' = resizes
  BY <1>0, Quiet
<1>2. get' \in GetRecords /\ get'.pc = "stopped" /\ get'.answer = None
  BY <1>0, AtFields DEF Places
<1>3. /\ shut' \in ShutRecords /\ shut'.closing = shut.closing
      /\ shut'.closed = shut.closed /\ shut'.cleaning = shut.cleaning
  BY <1>0 DEF ClientTypes, ShutRecords
<1>4. get.answer = None /\ stage.fetched = {} /\ rel["packing"] = NoRelease
  BY <1>0 DEF CallsFollow
<1>5. ClientTypes'
  BY <1>0, <1>2, <1>3 DEF ClientTypes
<1>6. PutsFollow' /\ SizeTypes'
  BY <1>0, <1>1, PutsSame, SizeFrame
<1>7. ShutFollows'
  BY <1>0, <1>1, <1>2, <1>3 DEF ShutFollows, closed
<1>8. CallsFollow'
  BY <1>0, <1>1, <1>2, <1>4 DEF CallsFollow
<1>9. (hosted => HandsFollow)'
  BY <1>0, <1>1, <1>2, <1>4 DEF HandsFollow, Answered, Releasing
<1> QED
  BY <1>1, <1>5, <1>6, <1>7, <1>8, <1>9

LEMMA FlushMoreStep ==
    ASSUME IInv, NEW f \in {"get", "snapshot", "close"}, FlushMore(f)
    PROVE  IInv' /\ StoreMove
<1> USE DEF IInv
<1>0. /\ size' = Collect(f, size)
      /\ UNCHANGED <<store, owned, puts, get, stage, rel, shut, used>>
  BY DEF FlushMore
<1>1. /\ StoreProofs!Inv' /\ StoreMove
      /\ phase' = phase /\ hosted' = hosted /\ resizes' = resizes
  BY <1>0, Quiet
<1>2. SizeTypes'
  BY <1>0, <1>1, CollectTypes DEF SizeTypes
<1>3. ClientTypes' /\ PutsFollow' /\ ShutFollows'
  BY <1>0, <1>1, PutsSame, ShutFrame DEF ClientTypes
<1>4. CallsFollow' /\ (hosted => HandsFollow)'
  BY <1>0, <1>1, HandsFrame
<1> QED
  BY <1>1, <1>2, <1>3, <1>4

LEMMA GetFlushedStep ==
    ASSUME IInv, GetFlushed
    PROVE  IInv' /\ StoreMove
<1> USE DEF IInv
<1>0. /\ get.pc = "flush" /\ get' = Taking /\ size' = [size EXCEPT !.awaits["get"] = None]
      /\ UNCHANGED <<store, owned, puts, stage, rel, shut, used>>
  BY DEF GetFlushed, FlushDone
<1>1. /\ StoreProofs!Inv' /\ StoreMove
      /\ phase' = phase /\ hosted' = hosted /\ resizes' = resizes
  BY <1>0, Quiet
<1>2. SizeTypes'
  BY <1>0, <1>1, CollectTypes DEF SizeTypes
<1>3. get.answer = None /\ stage.fetched = {} /\ rel["packing"] = NoRelease
  BY <1>0 DEF CallsFollow
<1>4. get' \in GetRecords /\ get'.pc = "taking" /\ get'.answer = None
  <2>1. resizes \in Seq(1..MaxSize) /\ get \in GetRecords /\ 0 \in 0..MaxSize
    BY SettingFacts DEF StoreProofs!Inv, StoreProofs!TypeOK, ClientTypes
  <2>2. Taking \in GetRecords /\ Taking.pc = "taking" /\ Taking.answer = get.answer
    BY <2>1, TakingFields
  <2> QED
    BY <1>0, <1>3, <2>2
<1>5. ClientTypes' /\ PutsFollow'
  BY <1>0, <1>1, <1>4, PutsSame DEF ClientTypes
<1>6. ShutFollows'
  BY <1>0, <1>1, <1>4 DEF ShutFollows, closed
<1>7. CallsFollow'
  BY <1>0, <1>1, <1>3, <1>4 DEF CallsFollow
<1>8. (hosted => HandsFollow)'
  BY <1>0, <1>1, <1>3, <1>4 DEF HandsFollow, Answered, Releasing
<1> QED
  BY <1>1, <1>2, <1>5, <1>6, <1>7, <1>8

LEMMA GetWakeStep ==
    ASSUME IInv, GetWake
    PROVE  IInv' /\ StoreMove
<1> USE DEF IInv
<1>0. /\ get.pc = "waiting" /\ get' = Taking
      /\ UNCHANGED <<store, owned, puts, stage, rel, size, shut, used>>
  BY DEF GetWake
<1>1. /\ StoreProofs!Inv' /\ StoreMove
      /\ phase' = phase /\ hosted' = hosted /\ resizes' = resizes
  BY <1>0, Quiet
<1>3. get.answer = None /\ stage.fetched = {} /\ rel["packing"] = NoRelease
  BY <1>0 DEF CallsFollow
<1>4. get' \in GetRecords /\ get'.pc = "taking" /\ get'.answer = None
  <2>1. resizes \in Seq(1..MaxSize) /\ get \in GetRecords /\ 0 \in 0..MaxSize
    BY SettingFacts DEF StoreProofs!Inv, StoreProofs!TypeOK, ClientTypes
  <2>2. Taking \in GetRecords /\ Taking.pc = "taking" /\ Taking.answer = get.answer
    BY <2>1, TakingFields
  <2> QED
    BY <1>0, <1>3, <2>2
<1>5. ClientTypes' /\ PutsFollow' /\ SizeTypes'
  BY <1>0, <1>1, <1>4, PutsSame, SizeFrame DEF ClientTypes
<1>6. ShutFollows'
  BY <1>0, <1>1, <1>4 DEF ShutFollows, closed
<1>7. CallsFollow'
  BY <1>0, <1>1, <1>3, <1>4 DEF CallsFollow
<1>8. (hosted => HandsFollow)'
  BY <1>0, <1>1, <1>3, <1>4 DEF HandsFollow, Answered, Releasing
<1> QED
  BY <1>1, <1>5, <1>6, <1>7, <1>8

LEMMA GetWaitStep ==
    ASSUME IInv, GetWait
    PROVE  IInv' /\ StoreMove
<1> USE DEF IInv
<1>0. /\ get.pc = "taken" /\ get.answer.groups = {}
      /\ get' = [get EXCEPT !.pc = "waiting", !.answer = None] /\ NotifySpace
      /\ UNCHANGED <<store, owned, stage, rel, size, shut, used>>
  BY DEF GetWait
<1>1. /\ StoreProofs!Inv' /\ StoreMove
      /\ phase' = phase /\ hosted' = hosted /\ resizes' = resizes
  BY <1>0, Quiet
<1>3. Answered = {} /\ stage.fetched = {} /\ rel["packing"] = NoRelease
  BY <1>0 DEF CallsFollow, Answered
<1>4. get' \in GetRecords /\ get'.pc = "waiting" /\ get'.answer = None
  BY <1>0 DEF ClientTypes, GetRecords, Places
<1>5. /\ puts' \in [Groups -> PutRecords]
      /\ \A g \in Groups : /\ puts'[g].pc = puts[g].pc
                           /\ puts'[g].reply = puts[g].reply
                           /\ puts'[g].dropping = puts[g].dropping
  BY <1>0, NotifiesSpace
<1>6. ClientTypes' /\ PutsFollow' /\ SizeTypes'
  BY <1>0, <1>1, <1>4, <1>5, PutsFrame, SizeFrame DEF ClientTypes
<1>7. ShutFollows'
  BY <1>0, <1>1, <1>4 DEF ShutFollows, closed
<1>8. CallsFollow'
  BY <1>0, <1>1, <1>3, <1>4 DEF CallsFollow
<1>9. (hosted => HandsFollow)'
  BY <1>0, <1>1, <1>3, <1>4 DEF HandsFollow, Answered, Releasing
<1> QED
  BY <1>1, <1>6, <1>7, <1>8, <1>9

(* A take acquires groups that were ready.                                 *)
LEMMA TakenWasReady ==
    ASSUME StoreProofs!Inv, NEW n \in Int, NEW g \in Store!Taken(n)
    PROVE  g \in Groups /\ phase[g] = "ready"
<1>1. /\ ready \in Seq(Groups)
      /\ \A h \in Groups : phase[h] = "ready" <=> \E i \in DOMAIN ready : ready[i] = h
  BY DEF StoreProofs!Inv, StoreProofs!TypeOK, StoreProofs!ReadyMatchesPhase
<1>2. Len(ready) \in Nat /\ DOMAIN ready = 1..Len(ready)
  BY <1>1, LenProperties
<1>3. PICK i \in 1..Store!TakeCount(n) : ready[i] = g
  BY DEF Store!Taken
<1>4. Store!TakeCount(n) \in Nat /\ Store!TakeCount(n) <= Len(ready)
  BY <1>2 DEF Store!TakeCount, Store!Limit
<1>5. i \in DOMAIN ready
  BY <1>2, <1>4
<1>6. g \in Groups
  BY <1>1, <1>2, <1>3, <1>5, ElementOfSeq
<1> QED
  BY <1>1, <1>3, <1>5, <1>6

LEMMA HostTakeStep ==
    ASSUME IInv, HostTake
    PROVE  IInv' /\ StoreMove
<1> USE DEF IInv
<1> DEFINE n == IF get.pc = "withdrawing" THEN 0
                ELSE IF get.wait THEN get.count ELSE -get.count
           o == Store!TakeOutcome(ConsumerId, n)
           gs == IF o = "leases" THEN Store!Taken(n) ELSE {}
           a == [outcome |-> o, groups |-> gs,
                 closed |-> Store!TakeClosed(ConsumerId, n)]
           q == IF get.pc = "taking" THEN "taken" ELSE "withdrawn"
<1>0. /\ get.pc \in {"taking", "withdrawing"} /\ Store!Take(ConsumerId, n)
      /\ UNCHANGED <<owned, puts, stage, rel, size, shut, used>>
  BY DEF HostTake
<1>1. get' = [get EXCEPT !.pc = q, !.answer = a]
  BY DEF HostTake
<1>2. get \in GetRecords /\ MaxSize \in Nat /\ get.count \in 0..MaxSize
  BY SettingFacts DEF ClientTypes, GetRecords
<1>3. n \in (-MaxSize)..MaxSize /\ n \in Int
  BY <1>2
<1>4. StoreProofs!Inv' /\ StoreMove
  <2>1. n \in Store!TakeCounts
    BY <1>3 DEF Store!TakeCounts
  <2> HIDE DEF n
  <2>2. Store!Next
    BY <1>0, <2>1 DEF Store!Next
  <2> QED
    BY <2>2, Moves
<1>5. o \in {"leases", "pending", "cancelled", "lease_error", "capacity_error"}
  BY DEF Store!TakeOutcome
<1>6. get.pc = "withdrawing" => o # "leases"
  BY DEF Store!TakeOutcome
<1>7. \A g \in gs : g \in Groups /\ phase[g] = "ready"
  BY <1>3, TakenWasReady
<1>8. Store!TakeClosed(ConsumerId, n) \in BOOLEAN
  <2>1. finished \in BOOLEAN
    BY DEF StoreProofs!Inv, StoreProofs!TypeOK
  <2> QED
    BY <2>1 DEF Store!TakeClosed
<1>9. hosted /\ hosted' = hosted /\ resizes' = resizes
  BY <1>0 DEF Store!Take, Store!limitVars
<1>10. \A g \in Groups : phase'[g] = IF g \in gs THEN "packing" ELSE phase[g]
  <2>1. CASE o = "leases"
    BY <1>0, <2>1 DEF Store!Take, Store!Acquire
  <2>2. CASE o # "leases"
    <3>1. phase' = phase
      BY <1>0, <2>2 DEF Store!Take, Store!entryVars
    <3> QED
      BY <2>2, <3>1
  <2> QED
    BY <2>1, <2>2
<1>11. a \in Answers
  BY <1>5, <1>7, <1>8 DEF Answers
<1>12. a.groups = gs
  OBVIOUS
<1>13. get.pc = "withdrawing" => gs = {}
  BY <1>6
<1>14. q \in {"taken", "withdrawn"} /\ (q = "withdrawn" <=> get.pc = "withdrawing")
  BY <1>0
<1> HIDE DEF n, o, gs, a, q
<1>15. a # None
  BY <1>11, ClientAssumption
<1>16. get' \in GetRecords /\ get'.pc = q /\ get'.answer = a
  BY <1>1, <1>2, <1>11, <1>14 DEF GetRecords, Places
<1>17. ClientTypes'
  BY <1>0, <1>16 DEF ClientTypes
<1>18. SizeTypes'
  BY <1>0, <1>9, SizeFrame
<1>19. PutsFollow'
  BY <1>0, <1>7, <1>9, <1>10 DEF PutsFollow, InFlight
<1>20. ShutFollows'
  BY <1>0, <1>7, <1>9, <1>10, <1>14, <1>16 DEF ShutFollows, closed, ClientTypes, ShutRecords
<1>21. get.answer = None /\ stage.fetched = {} /\ rel["packing"] = NoRelease
  BY <1>0 DEF CallsFollow
<1>22. CallsFollow'
  BY <1>0, <1>7, <1>10, <1>12, <1>13, <1>14, <1>15, <1>16, <1>21 DEF CallsFollow
<1>23. HandsFollow'
  <2>1. Answered' = gs /\ stage' = stage /\ rel' = rel
    BY <1>0, <1>12, <1>15, <1>16 DEF Answered
  <2>2. HandsFollow /\ Answered = {}
    BY <1>9, <1>21 DEF Answered
  <2>3. /\ stage.fetched \subseteq Groups /\ stage.batch \subseteq Groups
        /\ stage.packed \subseteq Groups
        /\ Releasing("packing") \subseteq Groups /\ Releasing("trainer") \subseteq Groups
    BY DEF ClientTypes, StageRecords, RelRecords, Releasing, Releasers
  <2>4. Releasing("packing")' = Releasing("packing")
        /\ Releasing("trainer")' = Releasing("trainer")
    BY <2>1 DEF Releasing
  <2>5. get'.pc # "marked" /\ get.pc # "marked"
    BY <1>0, <1>14, <1>16
  <2> QED
    BY <1>7, <1>10, <2>1, <2>2, <2>3, <2>4, <2>5 DEF HandsFollow
<1> QED
  BY <1>4, <1>17, <1>18, <1>19, <1>20, <1>22, <1>23

LEMMA EndMoves ==
    ASSUME StoreProofs!Inv, SizeTypes, NEW pc \in Places, EndGet(pc)
    PROVE  StoreMove
<1>1. UNCHANGED store \/ Store!IssueResize(Target(0, size.setting))
  BY GetEnds
<1>2. Target(0, size.setting) \in 1..MaxSize
  <2>1. size.setting \in DOMAIN Settings /\ 0 \in 0..MaxSize
    BY SettingFacts DEF SizeTypes, SizeRecords
  <2> QED
    BY <2>1, TargetType
<1> QED
  BY <1>1, <1>2, Quiet DEF StoreMove

LEMMA GetReplyStep ==
    ASSUME IInv, GetReply
    PROVE  IInv' /\ StoreMove
<1> USE DEF IInv
<1> DEFINE pc == IF get.answer.groups # {} THEN "examine"
                 ELSE IF TakeFailed THEN "stopped" ELSE "collected"
<1>0. /\ get.pc = "taken" /\ EndGet(pc)
      /\ stage' = [stage EXCEPT !.fetched = get.answer.groups,
                                !.sentinel = get.answer.closed]
      /\ UNCHANGED <<owned, puts, rel, shut, used>>
  BY DEF GetReply
<1>1. /\ get.answer # None /\ stage.fetched = {} /\ rel["packing"] = NoRelease
      /\ get.answer \in Answers /\ stage \in StageRecords
  BY <1>0 DEF CallsFollow, ClientTypes, GetRecords
<1>2. pc \in {"examine", "stopped", "collected"} /\ pc \in Places
  BY DEF Places
<1>3. get.answer.groups # {} => pc = "examine"
  OBVIOUS
<1> HIDE DEF pc
<1>4. /\ StoreProofs!Inv' /\ SizeTypes'
      /\ get' \in GetRecords /\ get'.pc = pc /\ get'.answer = None
      /\ phase' = phase /\ hosted' = hosted
      /\ UNCHANGED store \/ Store!IssueResize(Target(0, size.setting))
  BY <1>0, <1>2, GetEnds
<1>5. StoreMove
  BY <1>0, <1>2, EndMoves
<1>6. /\ stage' \in StageRecords /\ stage'.fetched = get.answer.groups
      /\ stage'.batch = stage.batch /\ stage'.packed = stage.packed
  BY <1>0, <1>1 DEF StageRecords, Answers
<1>7. ClientTypes' /\ PutsFollow'
  BY <1>0, <1>4, <1>6, PutsSame DEF ClientTypes
<1>8. ShutFollows'
  BY <1>0, <1>2, <1>4 DEF ShutFollows, closed
<1>9. CallsFollow'
  BY <1>0, <1>1, <1>2, <1>3, <1>4, <1>6 DEF CallsFollow
<1>10. (hosted => HandsFollow)'
  BY <1>0, <1>1, <1>2, <1>4, <1>6 DEF HandsFollow, Answered, Releasing, NoRelease
<1> QED
  BY <1>4, <1>5, <1>7, <1>8, <1>9, <1>10

(* What a cancellation does to the tasks of resizes.                       *)
LEMMA CancelTypes ==
    ASSUME StoreProofs!Inv, SizeTypes, CancelFlush, IssueResize(0, size.setting)
    PROVE  SizeTypes'
<1> DEFINE ks == size.awaits["get"]
           z == Synced(0, size.setting)
           n == Len(size.tasks)
<1>1. size.setting \in DOMAIN Settings /\ 0 \in 0..MaxSize
  BY SettingFacts DEF SizeTypes, SizeRecords
<1>2. /\ StoreProofs!Inv'
      /\ z \in SizeRecords(DOMAIN resizes')
      /\ Len(z.tasks) = Len(resizes')
      /\ \A k \in 1..Len(size.tasks) : z.tasks[k] = size.tasks[k]
      /\ DOMAIN resizes \subseteq DOMAIN resizes'
      /\ phase' = phase /\ hosted' = hosted
      /\ UNCHANGED store \/ Store!IssueResize(Target(0, size.setting))
  BY <1>1, SyncedTypes
<1> HIDE DEF z
<1>3. PICK lost \in SUBSET {k \in ks : size.tasks[k] = "sent"} :
         size' = [z EXCEPT !.awaits["get"] = None,
                           !.tasks = CancelResizes(ks, lost)
                              \o SubSeq(z.tasks, n + 1, Len(z.tasks))]
  BY <1>2 DEF CancelFlush, z, SizeRecords
<1>4. /\ size.tasks \in Seq(TaskStates) /\ n \in Nat /\ DOMAIN size.tasks = 1..n
      /\ n = Len(resizes)
  BY LenProperties DEF SizeTypes, SizeRecords
<1> DEFINE c == CancelResizes(ks, lost)
           r == SubSeq(z.tasks, n + 1, Len(z.tasks))
<1>5. c \in Seq(TaskStates) /\ Len(c) = n
  <2>1. c \in [1..n -> TaskStates]
    <3>1. \A k \in 1..n : size.tasks[k] \in TaskStates
      BY <1>4, ElementOfSeq
    <3> QED
      BY <1>4, <3>1 DEF CancelResizes, TaskStates
  <2> HIDE DEF c
  <2> QED
    BY <1>4, <2>1, SeqDef, LenProperties
<1>6. z.tasks \in Seq(TaskStates) /\ Len(z.tasks) \in Nat /\ Len(z.tasks) >= n
  <2>1. z.tasks \in Seq(TaskStates) /\ Len(z.tasks) \in Nat /\ resizes' \in Seq(1..MaxSize)
        /\ resizes \in Seq(1..MaxSize)
    BY <1>2, LenProperties DEF SizeRecords, StoreProofs!Inv, StoreProofs!TypeOK
  <2>2. DOMAIN resizes' = 1..Len(resizes') /\ DOMAIN resizes = 1..n
    BY <1>4, <2>1, LenProperties
  <2> QED
    BY <1>2, <1>4, <2>1, <2>2
<1>7. r \in Seq(TaskStates) /\ Len(r) = Len(z.tasks) - n
  <2>1. \A i \in (n + 1)..Len(z.tasks) : z.tasks[i] \in TaskStates
    BY <1>4, <1>6, ElementOfSeq
  <2>2. r \in Seq(TaskStates)
        /\ Len(r) = IF n + 1 <= Len(z.tasks) THEN Len(z.tasks) - (n + 1) + 1 ELSE 0
    BY <1>4, <1>6, <2>1, SubSeqProperties
  <2> QED
    BY <1>4, <1>6, <2>2
<1> HIDE DEF c, r
<1>8. c \o r \in Seq(TaskStates) /\ Len(c \o r) = Len(resizes')
  <2>1. c \o r \in Seq(TaskStates) /\ Len(c \o r) = Len(c) + Len(r)
    BY <1>5, <1>7, ConcatProperties
  <2>2. n + (Len(z.tasks) - n) = Len(z.tasks)
    BY <1>4, <1>6
  <2> QED
    BY <1>2, <1>5, <1>7, <2>1, <2>2
<1> DEFINE y == [z EXCEPT !.awaits["get"] = None]
           t == c \o r
<1>9. y \in SizeRecords(DOMAIN resizes')
  BY <1>2, CollectTypes
<1>10. size' = [y EXCEPT !.tasks = t]
  BY <1>2, <1>3 DEF SizeRecords, c, r
<1> HIDE DEF y, t
<1>11. size' \in SizeRecords(DOMAIN resizes') /\ size'.tasks = t
  BY <1>8, <1>9, <1>10 DEF SizeRecords, t
<1> QED
  BY <1>8, <1>11 DEF SizeTypes, t

LEMMA GetCancelStep ==
    ASSUME IInv, GetCancel
    PROVE  IInv' /\ StoreMove
<1> USE DEF IInv
<1>0. UNCHANGED <<owned, puts, stage, rel, shut>> /\ used' \in UsedRecords
  BY DEF GetCancel, ClientTypes, UsedRecords
<1>1. CASE /\ get.pc = "flush" /\ get' = At("collect") /\ CancelFlush
           /\ IssueResize(0, size.setting)
  <2>1. size.setting \in DOMAIN Settings /\ 0 \in 0..MaxSize
    BY SettingFacts DEF SizeTypes, SizeRecords
  <2>2. StoreProofs!Inv' /\ phase' = phase /\ hosted' = hosted /\ StoreMove
    <3> DEFINE z == Synced(0, size.setting)
    <3>1. /\ StoreProofs!Inv'
          /\ z \in SizeRecords(DOMAIN resizes')
          /\ Len(z.tasks) = Len(resizes')
          /\ \A k \in 1..Len(size.tasks) : z.tasks[k] = size.tasks[k]
          /\ DOMAIN resizes \subseteq DOMAIN resizes'
          /\ phase' = phase /\ hosted' = hosted
          /\ UNCHANGED store \/ Store!IssueResize(Target(0, size.setting))
      BY <1>1, <2>1, SyncedTypes
    <3>2. Target(0, size.setting) \in 1..MaxSize
      BY <2>1, TargetType
    <3> QED
      BY <3>1, <3>2, Quiet DEF StoreMove
  <2>3. SizeTypes'
    BY <1>1, CancelTypes
  <2>4. get' \in GetRecords /\ get'.pc = "collect" /\ get'.answer = None
    BY <1>1, AtFields DEF Places
  <2>5. get.answer = None /\ stage.fetched = {} /\ rel["packing"] = NoRelease
    BY <1>1 DEF CallsFollow
  <2>6. ClientTypes' /\ PutsFollow'
    BY <1>0, <2>2, <2>4, PutsSame DEF ClientTypes
  <2>7. ShutFollows'
    BY <1>0, <1>1, <2>2, <2>4 DEF ShutFollows, closed
  <2>8. CallsFollow'
    BY <1>0, <2>2, <2>4, <2>5 DEF CallsFollow
  <2>9. (hosted => HandsFollow)'
    BY <1>0, <1>1, <2>2, <2>4, <2>5 DEF HandsFollow, Answered, Releasing
  <2> QED
    BY <2>2, <2>3, <2>6, <2>7, <2>8, <2>9
<1>2. CASE /\ get.pc = "waiting" /\ get' = [get EXCEPT !.pc = "withdrawing"]
           /\ UNCHANGED <<store, size>>
  <2>1. /\ StoreProofs!Inv' /\ StoreMove
        /\ phase' = phase /\ hosted' = hosted /\ resizes' = resizes
    BY <1>2, Quiet
  <2>2. get' \in GetRecords /\ get'.pc = "withdrawing" /\ get'.answer = get.answer
    BY <1>2 DEF ClientTypes, GetRecords, Places
  <2>5. get.answer = None /\ stage.fetched = {} /\ rel["packing"] = NoRelease
    BY <1>2 DEF CallsFollow
  <2>6. ClientTypes' /\ PutsFollow' /\ SizeTypes'
    BY <1>0, <1>2, <2>1, <2>2, PutsSame, SizeFrame DEF ClientTypes
  <2>7. ShutFollows'
    BY <1>0, <1>2, <2>1, <2>2 DEF ShutFollows, closed
  <2>8. CallsFollow'
    BY <1>0, <2>1, <2>2, <2>5 DEF CallsFollow
  <2>9. (hosted => HandsFollow)'
    BY <1>0, <1>2, <2>1, <2>2, <2>5 DEF HandsFollow, Answered, Releasing
  <2> QED
    BY <2>1, <2>6, <2>7, <2>8, <2>9
<1>3. CASE /\ get.pc \in {"taking", "taken"} /\ get' = [get EXCEPT !.cancelled = TRUE]
           /\ UNCHANGED <<store, size>>
  <2>1. /\ StoreProofs!Inv' /\ StoreMove
        /\ phase' = phase /\ hosted' = hosted /\ resizes' = resizes
    BY <1>3, Quiet
  <2>2. get' \in GetRecords /\ get'.pc = get.pc /\ get'.answer = get.answer
    BY <1>3 DEF ClientTypes, GetRecords, Places
  <2>6. ClientTypes' /\ PutsFollow' /\ SizeTypes'
    BY <1>0, <1>3, <2>1, <2>2, PutsSame, SizeFrame DEF ClientTypes
  <2>7. ShutFollows'
    BY <1>0, <2>1, <2>2, ShutFrame
  <2>8. CallsFollow' /\ (hosted => HandsFollow)'
    BY <1>0, <2>1, <2>2, HandsFrame
  <2> QED
    BY <2>1, <2>6, <2>7, <2>8
<1> QED
  BY <1>1, <1>2, <1>3 DEF GetCancel

(* A release begins.                                                       *)
LEMMA Sends ==
    ASSUME ClientTypes, NEW r \in Releasers, NEW gs \in SUBSET Groups, Send(r, gs)
    PROVE  /\ rel' \in [Releasers -> RelRecords]
           /\ rel'[r].groups = gs /\ rel'[r].state = "sent"
           /\ \A s \in Releasers : s # r => rel'[s] = rel[s]
  BY DEF Send, ClientTypes, RelRecords

LEMMA CancelledReplyStep ==
    ASSUME IInv, CancelledReply
    PROVE  IInv' /\ StoreMove
<1> USE DEF IInv
<1>0. get.pc = "taken" /\ UNCHANGED <<owned, puts, stage, shut, used>>
  BY DEF CancelledReply
<1>1. /\ get.answer # None /\ stage.fetched = {} /\ rel["packing"] = NoRelease
      /\ get.answer \in Answers /\ get \in GetRecords
  BY <1>0 DEF CallsFollow, ClientTypes, GetRecords
<1>2. shut.closing = "open" /\ Answered = get.answer.groups
  BY <1>0, <1>1 DEF ShutFollows, Answered
<1>3. CASE /\ get.answer.groups # {}
           /\ get' = [get EXCEPT !.pc = "undoing", !.answer = None]
           /\ Send("packing", get.answer.groups)
           /\ UNCHANGED <<store, size>>
  <2>1. /\ StoreProofs!Inv' /\ StoreMove
        /\ phase' = phase /\ hosted' = hosted /\ resizes' = resizes
    BY <1>3, Quiet
  <2>2. get' \in GetRecords /\ get'.pc = "undoing" /\ get'.answer = None
    BY <1>1, <1>3 DEF GetRecords, Places
  <2>3. get.answer.groups \in SUBSET Groups /\ "packing" \in Releasers
    BY <1>1 DEF Answers, Releasers
  <2>4. /\ rel' \in [Releasers -> RelRecords]
        /\ rel'["packing"].groups = get.answer.groups /\ rel'["packing"].state = "sent"
        /\ \A s \in Releasers : s # "packing" => rel'[s] = rel[s]
    BY <1>3, <2>3, Sends
  <2>5. ClientTypes' /\ PutsFollow' /\ SizeTypes'
    BY <1>0, <1>3, <2>1, <2>2, <2>4, PutsSame, SizeFrame DEF ClientTypes
  <2>6. ShutFollows'
    BY <1>0, <1>2, <2>1, <2>2 DEF ShutFollows, closed
  <2>7. CallsFollow'
    BY <1>0, <1>1, <1>3, <2>1, <2>2, <2>4 DEF CallsFollow
  <2>8. (hosted => HandsFollow)'
    <3>1. /\ Answered' = {} /\ Releasing("packing")' = Answered
          /\ Releasing("trainer")' = Releasing("trainer") /\ Releasing("packing") = {}
      BY <1>1, <1>2, <2>2, <2>4 DEF Answered, Releasing, Releasers, NoRelease
    <3> QED
      BY <1>0, <1>1, <2>1, <2>2, <3>1 DEF HandsFollow
  <2> QED
    BY <2>1, <2>5, <2>6, <2>7, <2>8
<1>4. CASE /\ get.answer.groups = {}
           /\ get' = [get EXCEPT !.pc = "withdrawing", !.answer = None]
           /\ UNCHANGED <<store, rel, size>>
  <2>1. /\ StoreProofs!Inv' /\ StoreMove
        /\ phase' = phase /\ hosted' = hosted /\ resizes' = resizes
    BY <1>4, Quiet
  <2>2. get' \in GetRecords /\ get'.pc = "withdrawing" /\ get'.answer = None
    BY <1>1, <1>4 DEF GetRecords, Places
  <2>5. ClientTypes' /\ PutsFollow' /\ SizeTypes'
    BY <1>0, <1>4, <2>1, <2>2, PutsSame, SizeFrame DEF ClientTypes
  <2>6. ShutFollows'
    BY <1>0, <1>2, <1>4, <2>1, <2>2 DEF ShutFollows, closed
  <2>7. CallsFollow'
    BY <1>0, <1>1, <1>4, <2>1, <2>2 DEF CallsFollow
  <2>8. (hosted => HandsFollow)'
    <3>1. /\ Answered' = {} /\ Answered = {} /\ rel' = rel
      BY <1>2, <1>4, <2>2 DEF Answered
    <3> QED
      BY <1>0, <1>1, <2>1, <2>2, <3>1 DEF HandsFollow, Releasing
  <2> QED
    BY <2>1, <2>5, <2>6, <2>7, <2>8
<1> DEFINE pc == IF TakeFailed THEN "stopped" ELSE "collect"
<1>5. CASE get.answer.groups = {} /\ EndGet(pc) /\ UNCHANGED rel
  <2>1. pc \in {"stopped", "collect"} /\ pc \in Places
    BY DEF Places
  <2> HIDE DEF pc
  <2>2. /\ StoreProofs!Inv' /\ SizeTypes'
        /\ get' \in GetRecords /\ get'.pc = pc /\ get'.answer = None
        /\ phase' = phase /\ hosted' = hosted
        /\ UNCHANGED store \/ Store!IssueResize(Target(0, size.setting))
    BY <1>5, <2>1, GetEnds
  <2>3. StoreMove
    BY <1>5, <2>1, EndMoves
  <2>4. ClientTypes' /\ PutsFollow'
    BY <1>0, <1>5, <2>2, PutsSame DEF ClientTypes
  <2>5. ShutFollows'
    BY <1>0, <1>2, <1>5, <2>2 DEF ShutFollows, closed
  <2>6. CallsFollow'
    BY <1>0, <1>1, <1>5, <2>1, <2>2 DEF CallsFollow
  <2>7. (hosted => HandsFollow)'
    BY <1>0, <1>1, <1>2, <1>5, <2>1, <2>2 DEF HandsFollow, Answered, Releasing
  <2> QED
    BY <2>2, <2>3, <2>4, <2>5, <2>6, <2>7
<1> QED
  BY <1>3, <1>4, <1>5 DEF CancelledReply

LEMMA WithdrawnStep ==
    ASSUME IInv, Withdrawn
    PROVE  IInv' /\ StoreMove
<1> USE DEF IInv
<1> DEFINE pc == IF TakeFailed THEN "stopped" ELSE "collect"
<1>0. /\ get.pc = "withdrawn" /\ EndGet(pc)
      /\ UNCHANGED <<owned, puts, stage, rel, shut, used>>
  BY DEF Withdrawn
<1>1. /\ stage.fetched = {} /\ rel["packing"] = NoRelease /\ Answered = {}
      /\ shut.closing = "open"
  BY <1>0 DEF CallsFollow, Answered, ShutFollows
<1>2. pc \in {"stopped", "collect"} /\ pc \in Places
  BY DEF Places
<1> HIDE DEF pc
<1>3. /\ StoreProofs!Inv' /\ SizeTypes'
      /\ get' \in GetRecords /\ get'.pc = pc /\ get'.answer = None
      /\ phase' = phase /\ hosted' = hosted
      /\ UNCHANGED store \/ Store!IssueResize(Target(0, size.setting))
  BY <1>0, <1>2, GetEnds
<1>4. StoreMove
  BY <1>0, <1>2, EndMoves
<1>5. ClientTypes' /\ PutsFollow'
  BY <1>0, <1>3, PutsSame DEF ClientTypes
<1>6. ShutFollows'
  BY <1>0, <1>1, <1>3 DEF ShutFollows, closed
<1>7. CallsFollow'
  BY <1>0, <1>1, <1>2, <1>3 DEF CallsFollow
<1>8. (hosted => HandsFollow)'
  BY <1>0, <1>1, <1>2, <1>3 DEF HandsFollow, Answered, Releasing
<1> QED
  BY <1>3, <1>4, <1>5, <1>6, <1>7, <1>8

-----------------------------------------------------------------------------
(* The packing stage.                                                      *)

(* The sets of groups a hand may hold.                                     *)
LEMMA HandTypes ==
    ASSUME ClientTypes
    PROVE  /\ stage.fetched \subseteq Groups /\ stage.batch \subseteq Groups
           /\ stage.packed \subseteq Groups /\ Answered \subseteq Groups
           /\ Releasing("packing") \subseteq Groups /\ Releasing("trainer") \subseteq Groups
  BY DEF ClientTypes, StageRecords, GetRecords, RelRecords, Answered, Answers, Releasing,
         Releasers

LEMMA KeepStep ==
    ASSUME IInv, NEW g \in Groups, Keep(g)
    PROVE  IInv' /\ StoreMove
<1> USE DEF IInv
<1> DEFINE pc == IF stage.fetched = {g} THEN "collect" ELSE "examine"
<1>0. /\ get.pc = "examine" /\ g \in stage.fetched /\ get' = At(pc)
      /\ stage' = [stage EXCEPT !.fetched = stage.fetched \ {g},
                                !.batch = stage.batch \cup {g}]
      /\ UNCHANGED <<store, owned, puts, rel, size, shut, used>>
  BY DEF Keep, ClientTypes, StageRecords
<1>1. /\ StoreProofs!Inv' /\ StoreMove
      /\ phase' = phase /\ hosted' = hosted /\ resizes' = resizes
  BY <1>0, Quiet
<1>2. pc \in {"collect", "examine"} /\ pc \in Places /\ (pc = "collect" => stage.fetched = {g})
  BY DEF Places
<1> HIDE DEF pc
<1>3. get' \in GetRecords /\ get'.pc = pc /\ get'.answer = None
  BY <1>0, <1>2, AtFields
<1>4. /\ stage' \in StageRecords /\ IsFiniteSet(stage.batch \cup {g})
      /\ stage'.fetched = stage.fetched \ {g} /\ stage'.batch = stage.batch \cup {g}
      /\ stage'.packed = stage.packed
  BY <1>0, FS_AddElement DEF ClientTypes, StageRecords
<1>5. /\ get.answer = None /\ rel["packing"] = NoRelease /\ shut.closing = "open"
  BY <1>0 DEF CallsFollow, ShutFollows
<1>6. ClientTypes' /\ PutsFollow' /\ SizeTypes'
  BY <1>0, <1>1, <1>3, <1>4, PutsSame, SizeFrame DEF ClientTypes
<1>7. ShutFollows'
  BY <1>0, <1>1, <1>5 DEF ShutFollows, closed
<1>8. CallsFollow'
  BY <1>0, <1>1, <1>2, <1>3, <1>4, <1>5 DEF CallsFollow
<1>9. (hosted => HandsFollow)'
  BY <1>0, <1>1, <1>2, <1>3, <1>4, <1>5 DEF HandsFollow, Answered, Releasing
<1> QED
  BY <1>1, <1>6, <1>7, <1>8, <1>9

LEMMA DiscardStep ==
    ASSUME IInv, NEW g \in Groups, NEW next \in {"releasing", "stopped"}, Discard(g, next)
    PROVE  IInv' /\ StoreMove
<1> USE DEF IInv
<1>0. /\ get.pc = "examine" /\ g \in stage.fetched /\ get' = At(next)
      /\ stage' = [stage EXCEPT !.fetched = stage.fetched \ {g}]
      /\ Send("packing", {g})
      /\ UNCHANGED <<store, owned, puts, size, shut, used>>
  BY DEF Discard, ClientTypes, StageRecords
<1>1. /\ StoreProofs!Inv' /\ StoreMove
      /\ phase' = phase /\ hosted' = hosted /\ resizes' = resizes
  BY <1>0, Quiet
<1>3. get' \in GetRecords /\ get'.pc = next /\ get'.answer = None
  BY <1>0, AtFields DEF Places
<1>4. /\ stage' \in StageRecords /\ IsFiniteSet(stage.batch)
      /\ stage'.fetched = stage.fetched \ {g} /\ stage'.batch = stage.batch
      /\ stage'.packed = stage.packed
  BY <1>0 DEF ClientTypes, StageRecords
<1>5. /\ get.answer = None /\ rel["packing"] = NoRelease /\ shut.closing = "open"
  BY <1>0 DEF CallsFollow, ShutFollows
<1>6. /\ rel' \in [Releasers -> RelRecords]
      /\ rel'["packing"].groups = {g} /\ rel'["packing"].state = "sent"
      /\ \A s \in Releasers : s # "packing" => rel'[s] = rel[s]
  BY <1>0, Sends DEF Releasers
<1>7. ClientTypes' /\ PutsFollow' /\ SizeTypes'
  BY <1>0, <1>1, <1>3, <1>4, <1>6, PutsSame, SizeFrame DEF ClientTypes
<1>8. ShutFollows'
  BY <1>0, <1>1, <1>5 DEF ShutFollows, closed
<1>9. CallsFollow'
  BY <1>0, <1>1, <1>3, <1>4, <1>5, <1>6 DEF CallsFollow
<1>10. (hosted => HandsFollow)'
  <2>1. /\ Answered' = {} /\ Answered = {} /\ Releasing("packing")' = {g}
        /\ Releasing("trainer")' = Releasing("trainer") /\ Releasing("packing") = {}
    BY <1>3, <1>5, <1>6 DEF Answered, Releasing, Releasers, NoRelease
  <2> QED
    BY <1>0, <1>1, <1>3, <1>4, <2>1 DEF HandsFollow
<1> QED
  BY <1>1, <1>7, <1>8, <1>9, <1>10

LEMMA PackStepInv ==
    ASSUME IInv, Pack
    PROVE  IInv' /\ StoreMove
<1> USE DEF IInv
<1>0. /\ get.pc \in {"collected", "collect"} /\ get' = At("marking")
      /\ stage.batch # {} /\ stage.packed = {}
      /\ UNCHANGED <<store, owned, puts, stage, rel, size, shut, used>>
  BY DEF Pack, Collected
<1>1. /\ StoreProofs!Inv' /\ StoreMove
      /\ phase' = phase /\ hosted' = hosted /\ resizes' = resizes
  BY <1>0, Quiet
<1>3. get' \in GetRecords /\ get'.pc = "marking" /\ get'.answer = None
  BY <1>0, AtFields DEF Places
<1>5. /\ get.answer = None /\ rel["packing"] = NoRelease /\ shut.closing = "open"
      /\ stage.fetched = {}
  BY <1>0 DEF CallsFollow, ShutFollows
<1>6. ClientTypes' /\ PutsFollow' /\ SizeTypes'
  BY <1>0, <1>1, <1>3, PutsSame, SizeFrame DEF ClientTypes
<1>7. ShutFollows'
  BY <1>0, <1>1, <1>5 DEF ShutFollows, closed
<1>8. CallsFollow'
  BY <1>0, <1>1, <1>3, <1>5 DEF CallsFollow
<1>9. (hosted => HandsFollow)'
  BY <1>0, <1>1, <1>3, <1>5 DEF HandsFollow, Answered, Releasing
<1> QED
  BY <1>1, <1>6, <1>7, <1>8, <1>9

LEMMA PackNothingStep ==
    ASSUME IInv, PackNothing
    PROVE  IInv' /\ StoreMove
<1> USE DEF IInv
<1>0. /\ get.pc \in {"collected", "collect"} /\ get' = At("releasing")
      /\ stage.batch # {} /\ Send("packing", stage.batch)
      /\ stage' = [stage EXCEPT !.batch = {}]
      /\ UNCHANGED <<store, owned, puts, size, shut, used>>
  BY DEF PackNothing, Collected
<1>1. /\ StoreProofs!Inv' /\ StoreMove
      /\ phase' = phase /\ hosted' = hosted /\ resizes' = resizes
  BY <1>0, Quiet
<1>3. get' \in GetRecords /\ get'.pc = "releasing" /\ get'.answer = None
  BY <1>0, AtFields DEF Places
<1>4. /\ stage' \in StageRecords /\ IsFiniteSet({}) /\ stage.batch \in SUBSET Groups
      /\ stage'.fetched = stage.fetched /\ stage'.batch = {}
      /\ stage'.packed = stage.packed
  BY <1>0, FS_EmptySet DEF ClientTypes, StageRecords
<1>5. /\ get.answer = None /\ rel["packing"] = NoRelease /\ shut.closing = "open"
      /\ stage.fetched = {}
  BY <1>0 DEF CallsFollow, ShutFollows
<1>6. /\ rel' \in [Releasers -> RelRecords]
      /\ rel'["packing"].groups = stage.batch /\ rel'["packing"].state = "sent"
      /\ \A s \in Releasers : s # "packing" => rel'[s] = rel[s]
  BY <1>0, <1>4, Sends DEF Releasers
<1>7. ClientTypes' /\ PutsFollow' /\ SizeTypes'
  BY <1>0, <1>1, <1>3, <1>4, <1>6, PutsSame, SizeFrame DEF ClientTypes
<1>8. ShutFollows'
  BY <1>0, <1>1, <1>5 DEF ShutFollows, closed
<1>9. CallsFollow'
  BY <1>0, <1>1, <1>3, <1>4, <1>5, <1>6 DEF CallsFollow
<1>10. (hosted => HandsFollow)'
  <2>1. /\ Answered' = {} /\ Answered = {} /\ Releasing("packing")' = stage.batch
        /\ Releasing("trainer")' = Releasing("trainer") /\ Releasing("packing") = {}
    BY <1>3, <1>5, <1>6 DEF Answered, Releasing, Releasers, NoRelease
  <2> QED
    BY <1>0, <1>1, <1>3, <1>4, <1>5, <2>1 DEF HandsFollow
<1> QED
  BY <1>1, <1>7, <1>8, <1>9, <1>10

LEMMA PackingEndsStep ==
    ASSUME IInv, PackingEnds
    PROVE  IInv' /\ StoreMove
<1> USE DEF IInv
<1>0. /\ get.pc \in {"collected", "collect"} /\ get' = At("stopped")
      /\ UNCHANGED <<store, owned, puts, stage, rel, size, shut, used>>
  BY DEF PackingEnds, Collected
<1>1. /\ StoreProofs!Inv' /\ StoreMove
      /\ phase' = phase /\ hosted' = hosted /\ resizes' = resizes
  BY <1>0, Quiet
<1>3. get' \in GetRecords /\ get'.pc = "stopped" /\ get'.answer = None
  BY <1>0, AtFields DEF Places
<1>5. /\ get.answer = None /\ rel["packing"] = NoRelease /\ shut.closing = "open"
      /\ stage.fetched = {}
  BY <1>0 DEF CallsFollow, ShutFollows
<1>6. ClientTypes' /\ PutsFollow' /\ SizeTypes'
  BY <1>0, <1>1, <1>3, PutsSame, SizeFrame DEF ClientTypes
<1>7. ShutFollows'
  BY <1>0, <1>1, <1>5 DEF ShutFollows, closed
<1>8. CallsFollow'
  BY <1>0, <1>1, <1>3, <1>5 DEF CallsFollow
<1>9. (hosted => HandsFollow)'
  BY <1>0, <1>1, <1>3, <1>5 DEF HandsFollow, Answered, Releasing
<1> QED
  BY <1>1, <1>6, <1>7, <1>8, <1>9

LEMMA HandOverStep ==
    ASSUME IInv, HandOver
    PROVE  IInv' /\ StoreMove
<1> USE DEF IInv
<1> DEFINE pc == IF stage.sentinel THEN "stopped" ELSE "collect"
<1>0. /\ get.pc = "marked" /\ get' = At(pc)
      /\ stage' = [stage EXCEPT !.packed = stage.batch, !.batch = {}]
      /\ UNCHANGED <<store, owned, puts, rel, size, shut, used>>
  BY DEF HandOver
<1>1. /\ StoreProofs!Inv' /\ StoreMove
      /\ phase' = phase /\ hosted' = hosted /\ resizes' = resizes
  BY <1>0, Quiet
<1>2. pc \in {"stopped", "collect"} /\ pc \in Places
  BY DEF Places
<1> HIDE DEF pc
<1>3. get' \in GetRecords /\ get'.pc = pc /\ get'.answer = None
  BY <1>0, <1>2, AtFields
<1>4. /\ stage' \in StageRecords /\ IsFiniteSet({})
      /\ stage'.fetched = stage.fetched /\ stage'.batch = {}
      /\ stage'.packed = stage.batch
  BY <1>0, FS_EmptySet DEF ClientTypes, StageRecords
<1>5. /\ get.answer = None /\ rel["packing"] = NoRelease /\ shut.closing = "open"
      /\ stage.fetched = {} /\ stage.packed = {}
  BY <1>0 DEF CallsFollow, ShutFollows
<1>6. ClientTypes' /\ PutsFollow' /\ SizeTypes'
  BY <1>0, <1>1, <1>3, <1>4, PutsSame, SizeFrame DEF ClientTypes
<1>7. ShutFollows'
  BY <1>0, <1>1, <1>5 DEF ShutFollows, closed
<1>8. CallsFollow'
  BY <1>0, <1>1, <1>2, <1>3, <1>4, <1>5 DEF CallsFollow
<1>9. (hosted => HandsFollow)'
  BY <1>0, <1>1, <1>2, <1>3, <1>4, <1>5 DEF HandsFollow, Answered, Releasing
<1> QED
  BY <1>1, <1>6, <1>7, <1>8, <1>9

(* The leases of groups under work are the ones the host knows.            *)
LEMMA LeasesKnown ==
    ASSUME StoreProofs!Inv, NEW gs \in SUBSET Groups,
           \A g \in gs : phase[g] \in {"packing", "packed"}
    PROVE  /\ LeasesOf(gs) \in SUBSET Store!KnownLeases
           /\ {l.group : l \in LeasesOf(gs)} = gs
           /\ \A l \in LeasesOf(gs) : Store!Leased(l) /\ l.group \in gs
<1>1. \A g \in Groups : Store!Lease(g).group = g
  BY DEF Store!Lease
<1>2. \A g \in gs : claim[g] > 0
  BY DEF StoreProofs!Inv, StoreProofs!Claims
<1>3. LeasesOf(gs) \in SUBSET Store!KnownLeases
  BY <1>2 DEF LeasesOf, Store!KnownLeases
<1>4. {l.group : l \in LeasesOf(gs)} = gs
  BY <1>1 DEF LeasesOf
<1>5. \A g \in gs : Store!Leased(Store!Lease(g)) /\ Store!Lease(g).group \in gs
  BY <1>1 DEF Store!Leased, Store!Entries
<1> QED
  BY <1>3, <1>4, <1>5 DEF LeasesOf

LEMMA HostMarkPackedStep ==
    ASSUME IInv, HostMarkPacked
    PROVE  IInv' /\ StoreMove
<1> USE DEF IInv
<1> DEFINE ls == LeasesOf(stage.batch)
<1>0. /\ get.pc = "marking" /\ Store!MarkPacked(ls, PackedGeneration)
      /\ get' = At(IF Store!CanMarkPacked(ls) THEN "marked" ELSE "stopped")
      /\ UNCHANGED <<owned, puts, stage, rel, size, shut, used>>
  BY DEF HostMarkPacked
<1>1. /\ hosted /\ hosted' = hosted /\ resizes' = resizes
  BY <1>0 DEF Store!MarkPacked, Store!limitVars
<1>2. /\ stage.batch \in SUBSET Groups /\ HandsFollow
      /\ \A g \in stage.batch : phase[g] = "packing"
  BY <1>0, <1>1 DEF HandsFollow, ClientTypes, StageRecords
<1>3. /\ ls \in SUBSET Store!KnownLeases /\ {l.group : l \in ls} = stage.batch
      /\ \A l \in ls : Store!Leased(l) /\ l.group \in stage.batch
  BY <1>2, LeasesKnown
<1> HIDE DEF ls
<1>4. Store!CanMarkPacked(ls)
  BY <1>2, <1>3 DEF Store!CanMarkPacked
<1>5. phase' = [g \in Groups |-> IF g \in stage.batch THEN "packed" ELSE phase[g]]
  BY <1>0, <1>3, <1>4 DEF Store!MarkPacked
<1>6. StoreProofs!Inv' /\ StoreMove
  <2>1. Store!Next
    BY <1>0, <1>3 DEF Store!Next
  <2> QED
    BY <2>1, Moves
<1>7. get' \in GetRecords /\ get'.pc = "marked" /\ get'.answer = None
  BY <1>0, <1>4, AtFields DEF Places
<1>8. /\ get.answer = None /\ rel["packing"] = NoRelease /\ shut.closing = "open"
      /\ stage.fetched = {} /\ stage.packed = {} /\ stage.batch # {}
  BY <1>0 DEF CallsFollow, ShutFollows
<1>9. ClientTypes' /\ SizeTypes'
  BY <1>0, <1>1, <1>7, SizeFrame DEF ClientTypes
<1>10. PutsFollow'
  BY <1>0, <1>1, <1>2, <1>5 DEF PutsFollow, InFlight
<1>11. ShutFollows'
  BY <1>0, <1>1, <1>2, <1>5, <1>8 DEF ShutFollows, closed, ClientTypes, ShutRecords
<1>12. CallsFollow'
  BY <1>0, <1>2, <1>5, <1>7, <1>8 DEF CallsFollow
<1>13. HandsFollow'
  <2>1. Answered' = {} /\ Answered = {} /\ Releasing("packing")' = {}
        /\ Releasing("trainer")' = Releasing("trainer") /\ Releasing("packing") = {}
    BY <1>0, <1>7, <1>8 DEF Answered, Releasing, NoRelease
  <2>2. Releasing("trainer") \subseteq Groups
    BY HandTypes
  <2> QED
    BY <1>0, <1>2, <1>5, <1>7, <1>8, <2>1, <2>2 DEF HandsFollow
<1> QED
  BY <1>6, <1>9, <1>10, <1>11, <1>12, <1>13

-----------------------------------------------------------------------------
(* Releases.                                                               *)

LEMMA TrainerReleaseStep ==
    ASSUME IInv, TrainerRelease
    PROVE  IInv' /\ StoreMove
<1> USE DEF IInv
<1>0. /\ stage.packed # {} /\ rel["trainer"] = NoRelease /\ shut.closing = "open"
      /\ Send("trainer", stage.packed)
      /\ stage' = [stage EXCEPT !.packed = {}]
      /\ UNCHANGED <<store, owned, puts, get, size, shut, used>>
  BY DEF TrainerRelease
<1>1. /\ StoreProofs!Inv' /\ StoreMove
      /\ phase' = phase /\ hosted' = hosted /\ resizes' = resizes
  BY <1>0, Quiet
<1>4. /\ stage' \in StageRecords /\ stage.packed \in SUBSET Groups
      /\ stage'.fetched = stage.fetched /\ stage'.batch = stage.batch
      /\ stage'.packed = {}
  BY <1>0 DEF ClientTypes, StageRecords
<1>6. /\ rel' \in [Releasers -> RelRecords]
      /\ rel'["trainer"].groups = stage.packed /\ rel'["trainer"].state = "sent"
      /\ \A s \in Releasers : s # "trainer" => rel'[s] = rel[s]
  BY <1>0, <1>4, Sends DEF Releasers
<1>7. ClientTypes' /\ PutsFollow' /\ SizeTypes'
  BY <1>0, <1>1, <1>4, <1>6, PutsSame, SizeFrame DEF ClientTypes
<1>8. ShutFollows'
  BY <1>0, <1>1 DEF ShutFollows, closed
<1>9. CallsFollow'
  <2>1. rel'["packing"] = rel["packing"] /\ "trainer" \in Releasers /\ "packing" \in Releasers
    BY <1>6 DEF Releasers
  <2> QED
    BY <1>0, <1>1, <1>4, <1>6, <2>1 DEF CallsFollow
<1>10. (hosted => HandsFollow)'
  <2>1. /\ Answered' = Answered /\ Releasing("trainer")' = stage.packed
        /\ Releasing("packing")' = Releasing("packing") /\ Releasing("trainer") = {}
    BY <1>0, <1>6 DEF Answered, Releasing, Releasers, NoRelease
  <2>2. get.pc # "marked"
    BY <1>0 DEF CallsFollow
  <2> QED
    BY <1>0, <1>1, <1>4, <2>1, <2>2 DEF HandsFollow
<1> QED
  BY <1>1, <1>7, <1>8, <1>9, <1>10

LEMMA HostReleaseStep ==
    ASSUME IInv, NEW r \in Releasers, HostRelease(r)
    PROVE  IInv' /\ StoreMove
<1> USE DEF IInv
<1> DEFINE gs == rel[r].groups
           ls == LeasesOf(gs)
           k == IF r = "trainer" THEN PackedGeneration ELSE None
           d == IF r = "trainer" THEN "consumed" ELSE "discarded"
<1>0. /\ rel[r].state = "sent" /\ Store!Release(ls, d, k)
      /\ rel' = [rel EXCEPT ![r].state =
                    IF Store!CanRelease(ls, d, k) THEN "applied" ELSE "failed"]
      /\ UNCHANGED <<owned, puts, get, stage, size, shut, used>>
  BY DEF HostRelease
<1>1. /\ hosted /\ hosted' = hosted /\ resizes' = resizes
  BY <1>0 DEF Store!Release, Store!limitVars
<1>2. /\ gs \in SUBSET Groups /\ gs # {} /\ HandsFollow /\ Releasing(r) = gs
      /\ \A g \in gs : phase[g] = IF r = "trainer" THEN "packed" ELSE "packing"
  <2>1. gs \in SUBSET Groups /\ HandsFollow /\ Releasing(r) = gs
    BY <1>0, <1>1 DEF ClientTypes, RelRecords, Releasing
  <2>2. rel[r] # NoRelease
    BY <1>0 DEF NoRelease
  <2>3. gs # {}
    BY <2>2 DEF CallsFollow
  <2> QED
    BY <2>1, <2>3 DEF HandsFollow, Releasers
<1>3. /\ ls \in SUBSET Store!KnownLeases /\ {l.group : l \in ls} = gs
      /\ \A l \in ls : Store!Leased(l) /\ l.group \in gs
  <2>1. \A g \in gs : phase[g] \in {"packing", "packed"}
    BY <1>2
  <2> HIDE DEF gs
  <2> QED
    BY <1>2, <2>1, LeasesKnown
<1> HIDE DEF ls, gs
<1>4. Store!CanRelease(ls, d, k)
  <2>1. \A g \in gs : r = "trainer" => packing[g] = PackedGeneration
    <3>1. packing \in [Groups -> {PackedGeneration, None}]
      BY DEF StoreProofs!Inv, StoreProofs!TypeOK
    <3>2. \A g \in Groups : phase[g] = "packed" => packing[g] # None
      BY DEF StoreProofs!Inv, StoreProofs!Claims
    <3> QED
      BY <1>2, <3>1, <3>2
  <2> QED
    BY <1>2, <1>3, <2>1 DEF Store!CanRelease
<1>5. phase' = [g \in Groups |-> IF g \in gs THEN "released" ELSE phase[g]]
  BY <1>0, <1>3, <1>4 DEF Store!Release
<1>6. StoreProofs!Inv' /\ StoreMove
  <2>1. ls # {}
    BY <1>2, <1>3
  <2>2. k \in {PackedGeneration} \cup {None} /\ d \in {"consumed", "discarded"}
    OBVIOUS
  <2>3. Store!Next
    BY <1>0, <1>3, <2>1, <2>2 DEF Store!Next
  <2> QED
    BY <2>3, Moves
<1>7. /\ rel' \in [Releasers -> RelRecords]
      /\ rel'[r].groups = gs /\ rel'[r].state = "applied"
      /\ \A s \in Releasers : s # r => rel'[s] = rel[s]
  <2>1. rel' = [rel EXCEPT ![r].state = "applied"]
    BY <1>0, <1>4
  <2> QED
    BY <2>1 DEF gs, ClientTypes, RelRecords
<1>8. ClientTypes' /\ SizeTypes'
  BY <1>0, <1>1, <1>7, SizeFrame DEF ClientTypes
<1>9. PutsFollow'
  BY <1>0, <1>1, <1>2, <1>5 DEF PutsFollow, InFlight
<1>10. rel[r] # NoRelease /\ shut.closing = "open"
  BY <1>0 DEF ShutFollows, NoRelease
<1>11. ShutFollows'
  BY <1>0, <1>1, <1>5, <1>10 DEF ShutFollows, closed, ClientTypes, ShutRecords
<1>12. CallsFollow'
  <2>1. rel'["packing"] # NoRelease => rel["packing"] # NoRelease
    BY <1>7, <1>10 DEF Releasers
  <2>2. \A s \in Releasers : rel'[s] # NoRelease =>
           rel'[s].groups # {} /\ rel'[s].state \in {"sent", "applied"}
    BY <1>2, <1>7 DEF CallsFollow
  <2>3. \A s \in Releasers, g \in Groups :
           rel'[s].state = "applied" /\ g \in rel'[s].groups => phase'[g] = "released"
    BY <1>5, <1>7 DEF CallsFollow
  <2> QED
    BY <1>0, <2>1, <2>2, <2>3 DEF CallsFollow
<1>13. HandsFollow'
  <2>1. /\ Answered' = Answered /\ Releasing(r)' = {}
        /\ \A s \in Releasers : s # r => Releasing(s)' = Releasing(s)
    BY <1>0, <1>7 DEF Answered, Releasing
  <2>2. /\ stage.fetched \subseteq Groups /\ stage.batch \subseteq Groups
        /\ stage.packed \subseteq Groups /\ Answered \subseteq Groups
        /\ Releasing("packing") \subseteq Groups /\ Releasing("trainer") \subseteq Groups
    BY HandTypes
  <2>3. CASE r = "packing"
    <3>1. Releasing("packing")' = {} /\ Releasing("trainer")' = Releasing("trainer")
      BY <2>1, <2>3 DEF Releasers
    <3>2. rel[r] # NoRelease /\ get.pc \in {"releasing", "undoing", "stopped"}
      BY <1>10, <2>3 DEF CallsFollow
    <3>3. Answered = {} /\ get.pc # "marked"
      BY <3>2 DEF CallsFollow, Answered
    <3> QED
      BY <1>0, <1>2, <1>5, <2>1, <2>2, <2>3, <3>1, <3>3 DEF HandsFollow
  <2>4. CASE r = "trainer"
    <3>1. Releasing("trainer")' = {} /\ Releasing("packing")' = Releasing("packing")
      BY <2>1, <2>4 DEF Releasers
    <3> QED
      BY <1>0, <1>2, <1>5, <2>1, <2>2, <2>4, <3>1 DEF HandsFollow
  <2> QED
    BY <2>3, <2>4 DEF Releasers
<1> QED
  BY <1>6, <1>8, <1>9, <1>11, <1>12, <1>13

LEMMA ReleaseReplyStep ==
    ASSUME IInv, NEW r \in Releasers, ReleaseReply(r)
    PROVE  IInv' /\ StoreMove
<1> USE DEF IInv
<1> DEFINE gs == rel[r].groups
           failed == rel[r].state = "failed"
           c == IF failed THEN shut.cleaning ELSE shut.cleaning \cup gs
           o == /\ shut.ownerFailure
                /\ failed \/ (r = "packing" /\ get.pc = "undoing")
           pc == AfterRelease(failed \/ (shut.ownerFailure /\ get.pc # "undoing"))
<1>0. /\ rel[r].state \in {"applied", "failed"}
      /\ rel' = [rel EXCEPT ![r] = NoRelease]
      /\ IF failed THEN UNCHANGED puts ELSE NotifySpace
      /\ shut' = [shut EXCEPT !.cleaning = c, !.ownerFailure = o]
      /\ IF r = "trainer" THEN UNCHANGED <<store, get, size>> ELSE EndGet(pc)
      /\ UNCHANGED <<owned, stage, used>>
  BY DEF ReleaseReply, ClientTypes, ShutRecords
<1>1. /\ rel[r] # NoRelease /\ rel[r].state = "applied" /\ gs # {}
      /\ \A g \in gs : g \in Groups => phase[g] = "released"
  <2>1. rel[r] # NoRelease
    BY <1>0 DEF NoRelease
  <2>2. rel[r].state = "applied" /\ gs # {}
    BY <1>0, <2>1 DEF CallsFollow
  <2> QED
    BY <2>1, <2>2 DEF CallsFollow
<1>2. shut.closing = "open" /\ ~failed
  BY <1>1 DEF ShutFollows
<1>3. gs \in SUBSET Groups /\ shut \in ShutRecords
  BY DEF ClientTypes, RelRecords
<1>4. c \in SUBSET Groups /\ c = shut.cleaning \cup gs /\ o \in BOOLEAN
  BY <1>2, <1>3 DEF ShutRecords
<1>5. /\ pc \in {"stopped", "examine", "collect"} /\ pc \in Places
      /\ pc = "collect" => get.pc # "releasing" \/ stage.fetched = {}
  BY DEF AfterRelease, Places
<1> HIDE DEF c, o, pc
<1>6. /\ shut' \in ShutRecords /\ shut'.closing = shut.closing
      /\ shut'.closed = shut.closed /\ shut'.cleaning = c
  BY <1>0, <1>3, <1>4 DEF ShutRecords
<1>7. /\ puts' \in [Groups -> PutRecords]
      /\ \A g \in Groups : /\ puts'[g].pc = puts[g].pc
                           /\ puts'[g].reply = puts[g].reply
                           /\ puts'[g].dropping = puts[g].dropping
  <2>1. NotifySpace
    BY <1>0, <1>2
  <2> QED
    BY <2>1, NotifiesSpace
<1>8. rel' \in [Releasers -> RelRecords] /\ rel'[r] = NoRelease
      /\ \A s \in Releasers : s # r => rel'[s] = rel[s]
  <2>1. NoRelease \in RelRecords
    BY DEF NoRelease, RelRecords
  <2> QED
    BY <1>0, <2>1 DEF ClientTypes
<1>9. /\ StoreProofs!Inv' /\ SizeTypes' /\ StoreMove
      /\ get' \in GetRecords /\ phase' = phase /\ hosted' = hosted
      /\ r = "trainer" => get'.pc = get.pc /\ get'.answer = get.answer
      /\ r # "trainer" => get'.pc = pc /\ get'.answer = None
  <2>1. CASE r = "trainer"
    <3>1. UNCHANGED <<store, get, size>>
      BY <1>0, <2>1
    <3>2. /\ StoreProofs!Inv' /\ StoreMove
          /\ phase' = phase /\ hosted' = hosted /\ resizes' = resizes
      BY <3>1, Quiet
    <3> QED
      BY <2>1, <3>1, <3>2, SizeFrame DEF ClientTypes
  <2>2. CASE r # "trainer"
    <3>1. EndGet(pc)
      BY <1>0, <2>2
    <3>2. /\ StoreProofs!Inv' /\ SizeTypes'
          /\ get' \in GetRecords /\ get'.pc = pc /\ get'.answer = None
          /\ phase' = phase /\ hosted' = hosted
          /\ UNCHANGED store \/ Store!IssueResize(Target(0, size.setting))
      BY <1>5, <3>1, GetEnds
    <3>3. StoreMove
      BY <1>5, <3>1, EndMoves
    <3> QED
      BY <2>2, <3>2, <3>3
  <2> QED
    BY <2>1, <2>2
<1>10. r # "trainer" => r = "packing" /\ get.pc \in {"releasing", "undoing", "stopped"}
  BY <1>1 DEF CallsFollow, Releasers
<1>11. ClientTypes'
  BY <1>0, <1>6, <1>7, <1>8, <1>9 DEF ClientTypes
<1>12. PutsFollow'
  BY <1>0, <1>7, <1>9, PutsFrame
<1>13. ShutFollows'
  BY <1>0, <1>1, <1>2, <1>3, <1>4, <1>6, <1>9 DEF ShutFollows, closed
<1>14. CallsFollow'
  <2>0. /\ \A s \in Releasers : rel'[s] # NoRelease =>
              rel'[s].groups # {} /\ rel'[s].state \in {"sent", "applied"}
        /\ \A s \in Releasers, g \in Groups :
              rel'[s].state = "applied" /\ g \in rel'[s].groups => phase'[g] = "released"
    <3>1. \A s \in Releasers : rel'[s] = NoRelease \/ rel'[s] = rel[s]
      BY <1>8
    <3>2. NoRelease.state # "applied"
      BY DEF NoRelease
    <3> QED
      BY <1>9, <3>1, <3>2 DEF CallsFollow
  <2>1. CASE r = "trainer"
    <3>1. rel'["packing"] = rel["packing"]
      BY <1>8, <2>1 DEF Releasers
    <3> QED
      BY <1>0, <1>9, <2>0, <2>1, <3>1 DEF CallsFollow
  <2>2. CASE r # "trainer"
    <3>1. rel'["packing"] = NoRelease /\ get'.pc \in {"stopped", "examine", "collect"}
      BY <1>5, <1>8, <1>9, <1>10, <2>2
    <3>2. get'.pc = "collect" => stage.fetched = {}
      <4>1. get.pc = "stopped" => pc = "stopped"
        BY DEF pc, AfterRelease
      <4>2. get.pc = "undoing" => stage.fetched = {}
        BY DEF CallsFollow
      <4> QED
        BY <1>5, <1>9, <1>10, <2>2, <4>1, <4>2
    <3> QED
      BY <1>0, <1>9, <2>0, <2>2, <3>1, <3>2 DEF CallsFollow
  <2> QED
    BY <2>1, <2>2
<1>15. (hosted => HandsFollow)'
  <2>1. /\ Releasing("packing")' = Releasing("packing")
        /\ Releasing("trainer")' = Releasing("trainer")
    <3>1. \A s \in Releasers : (rel'[s].state = "sent" <=> rel[s].state = "sent")
                               /\ (s # r => rel'[s] = rel[s])
      BY <1>1, <1>8 DEF NoRelease
    <3> QED
      BY <1>1, <1>8, <3>1 DEF Releasing, Releasers, NoRelease
  <2>2. Answered' = Answered
    <3>1. CASE r = "trainer"
      BY <1>9, <3>1 DEF Answered
    <3>2. CASE r # "trainer"
      <4>1. get.answer = None
        BY <1>10, <3>2 DEF CallsFollow
      <4> QED
        BY <1>9, <3>2, <4>1 DEF Answered
    <3> QED
      BY <3>1, <3>2
  <2>3. get'.pc = "marked" <=> get.pc = "marked"
    BY <1>5, <1>9, <1>10
  <2> QED
    BY <1>0, <1>9, <2>1, <2>2, <2>3 DEF HandsFollow
<1> QED
  BY <1>9, <1>11, <1>12, <1>13, <1>14, <1>15

LEMMA CleanOwnerStep ==
    ASSUME IInv, NEW g \in Groups, CleanOwner(g)
    PROVE  IInv' /\ StoreMove
<1> USE DEF IInv
<1>0. /\ g \in shut.cleaning /\ owned' = owned \ {g}
      /\ shut' = [shut EXCEPT !.cleaning = shut.cleaning \ {g}]
      /\ UNCHANGED <<store, puts, get, stage, rel, size, used>>
  BY DEF CleanOwner, ClientTypes, ShutRecords
<1>1. /\ StoreProofs!Inv' /\ StoreMove
      /\ phase' = phase /\ hosted' = hosted /\ resizes' = resizes
  BY <1>0, Quiet
<1>2. phase[g] = "released"
  BY <1>0 DEF ShutFollows
<1>3. /\ shut' \in ShutRecords /\ shut'.closing = shut.closing
      /\ shut'.closed = shut.closed /\ shut'.cleaning = shut.cleaning \ {g}
  BY <1>0 DEF ClientTypes, ShutRecords
<1>4. ClientTypes' /\ SizeTypes'
  BY <1>0, <1>1, <1>3, SizeFrame DEF ClientTypes
<1>5. PutsFollow'
  BY <1>0, <1>1, <1>2 DEF PutsFollow, InFlight
<1>6. ShutFollows'
  BY <1>0, <1>1, <1>3, ShutFrame
<1>7. CallsFollow' /\ (hosted => HandsFollow)'
  BY <1>0, <1>1, HandsFrame
<1> QED
  BY <1>1, <1>4, <1>5, <1>6, <1>7

LEMMA CleanOwnerFailsStep ==
    ASSUME IInv, NEW g \in Groups, CleanOwnerFails(g)
    PROVE  IInv' /\ StoreMove
<1> USE DEF IInv
<1>0. /\ g \in shut.cleaning
      /\ shut' = [shut EXCEPT !.cleaning = shut.cleaning \ {g},
                              !.cleanupRefs = shut.cleanupRefs \cup {g},
                              !.ownerFailure = TRUE]
      /\ UNCHANGED <<store, owned, puts, get, stage, rel, size>>
  BY DEF CleanOwnerFails, ClientTypes, ShutRecords
<1>1. /\ StoreProofs!Inv' /\ StoreMove
      /\ phase' = phase /\ hosted' = hosted /\ resizes' = resizes
  BY <1>0, Quiet
<1>2. used' \in UsedRecords
  BY DEF CleanOwnerFails, DropFails, ClientTypes, UsedRecords
<1>3. /\ shut' \in ShutRecords /\ shut'.closing = shut.closing
      /\ shut'.closed = shut.closed /\ shut'.cleaning = shut.cleaning \ {g}
  BY <1>0 DEF ClientTypes, ShutRecords
<1>4. ClientTypes' /\ SizeTypes' /\ PutsFollow'
  BY <1>0, <1>1, <1>2, <1>3, SizeFrame, PutsSame DEF ClientTypes
<1>6. ShutFollows'
  BY <1>0, <1>1, <1>3, ShutFrame
<1>7. CallsFollow' /\ (hosted => HandsFollow)'
  BY <1>0, <1>1, HandsFrame
<1> QED
  BY <1>1, <1>4, <1>6, <1>7

-----------------------------------------------------------------------------
(* Resizes, snapshots and the end of the input.                            *)

LEMMA SetMaxsizeStep ==
    ASSUME IInv, SetMaxsize
    PROVE  IInv' /\ StoreMove
<1> USE DEF IInv
<1> DEFINE m == get.minimumTakeSize
           s == size.setting + 1
           z == Synced(m, s)
<1>0. /\ size.setting < Len(Settings) /\ size' = z /\ IssueResize(m, s)
      /\ UNCHANGED <<owned, puts, get, stage, rel, shut, used>>
  BY DEF SetMaxsize
<1>1. m \in 0..MaxSize /\ s \in DOMAIN Settings
  <2>1. Settings \in Seq([maxsize : Nat \ {0}, minBatch : Nat \ {0},
                          maxBatch : Nat \ {0}])
    BY SettingsAssumption
  <2>2. Len(Settings) \in Nat /\ DOMAIN Settings = 1..Len(Settings)
    BY <2>1, LenProperties
  <2>3. size.setting \in DOMAIN Settings /\ m \in 0..MaxSize
    BY DEF SizeTypes, SizeRecords, ClientTypes, GetRecords
  <2> QED
    BY <1>0, <2>2, <2>3
<1> HIDE DEF m, s
<1>2. /\ StoreProofs!Inv'
      /\ z \in SizeRecords(DOMAIN resizes')
      /\ Len(z.tasks) = Len(resizes')
      /\ \A k \in 1..Len(size.tasks) : z.tasks[k] = size.tasks[k]
      /\ DOMAIN resizes \subseteq DOMAIN resizes'
      /\ phase' = phase /\ hosted' = hosted
      /\ UNCHANGED store \/ Store!IssueResize(Target(m, s))
  BY <1>0, <1>1, SyncedTypes
<1>3. StoreMove
  <2>1. Target(m, s) \in 1..MaxSize
    BY <1>1, TargetType
  <2> QED
    BY <1>2, <2>1, Quiet DEF StoreMove
<1>4. SizeTypes'
  BY <1>0, <1>2 DEF SizeTypes
<1>5. ClientTypes' /\ PutsFollow' /\ ShutFollows'
  BY <1>0, <1>2, PutsSame, ShutFrame DEF ClientTypes
<1>6. CallsFollow' /\ (hosted => HandsFollow)'
  BY <1>0, <1>2, HandsFrame
<1> QED
  BY <1>2, <1>3, <1>4, <1>5, <1>6

(* A task of a resize goes on.                                             *)
LEMMA TaskTypes ==
    ASSUME SizeTypes, NEW k \in DOMAIN size.tasks, NEW t \in TaskStates,
           size' = [size EXCEPT !.tasks[k] = t], resizes' = resizes
    PROVE  SizeTypes'
<1> DEFINE ts == [size.tasks EXCEPT ![k] = t]
<1>1. size \in SizeRecords(DOMAIN resizes) /\ Len(size.tasks) = Len(resizes)
      /\ size.tasks \in Seq(TaskStates)
  BY DEF SizeTypes, SizeRecords
<1>2. ts \in Seq(TaskStates) /\ Len(ts) = Len(size.tasks)
  <2>1. k \in 1..Len(size.tasks) /\ Len(size.tasks) \in Nat
    BY <1>1, LenProperties
  <2> QED
    BY <1>1, <2>1, ExceptSeq
<1>3. size' = [size EXCEPT !.tasks = ts]
  BY <1>1 DEF SizeRecords
<1> HIDE DEF ts
<1>4. size' \in SizeRecords(DOMAIN resizes) /\ size'.tasks = ts
  BY <1>1, <1>2, <1>3 DEF SizeRecords
<1> QED
  BY <1>1, <1>2, <1>4 DEF SizeTypes

LEMMA HostResizeStep ==
    ASSUME IInv, NEW k \in DOMAIN size.tasks, HostResize(k)
    PROVE  IInv' /\ StoreMove
<1> USE DEF IInv
<1>0. /\ IF hosted THEN Store!Resize(k) ELSE UNCHANGED store
      /\ size' = [size EXCEPT !.tasks[k] = IF size.tasks[k] = "sent" THEN "replied" ELSE "done"]
      /\ UNCHANGED <<owned, puts, get, stage, rel, shut, used>>
  BY DEF HostResize, SizeTypes, SizeRecords
<1>1. StoreProofs!Inv' /\ StoreMove
      /\ phase' = phase /\ hosted' = hosted /\ resizes' = resizes
  <2>1. CASE hosted
    <3>1. /\ resizes \in Seq(1..MaxSize) /\ size.tasks \in Seq(TaskStates)
          /\ Len(size.tasks) = Len(resizes)
      BY DEF StoreProofs!Inv, StoreProofs!TypeOK, SizeTypes, SizeRecords
    <3>2. k \in DOMAIN resizes
      BY <3>1, LenProperties
    <3>3. Store!Next
      BY <1>0, <2>1, <3>2 DEF Store!Next
    <3>4. phase' = phase /\ hosted' = hosted /\ resizes' = resizes
      BY <1>0, <2>1 DEF Store!Resize, Store!entryVars
    <3> QED
      BY <3>3, <3>4, Moves
  <2>2. CASE ~hosted
    BY <1>0, <2>2, Quiet
  <2> QED
    BY <2>1, <2>2
<1>2. SizeTypes'
  <2> DEFINE t == IF size.tasks[k] = "sent" THEN "replied" ELSE "done"
  <2>1. t \in TaskStates
    BY DEF TaskStates
  <2>2. size' = [size EXCEPT !.tasks[k] = t]
    BY <1>0
  <2> HIDE DEF t
  <2> QED
    BY <1>1, <2>1, <2>2, TaskTypes
<1>3. ClientTypes' /\ PutsFollow' /\ ShutFollows'
  BY <1>0, <1>1, PutsSame, ShutFrame DEF ClientTypes
<1>4. CallsFollow' /\ (hosted => HandsFollow)'
  BY <1>0, <1>1, HandsFrame
<1> QED
  BY <1>1, <1>2, <1>3, <1>4

(* A step that only wakes the waiting tasks, whatever it does to size.     *)
LEMMA WakeAll ==
    ASSUME IInv, NotifySpace, NotifyItems, SizeTypes', shut' \in ShutRecords,
           shut'.closing = shut.closing, shut'.closed = shut.closed,
           shut'.cleaning = shut.cleaning,
           UNCHANGED <<store, owned, stage, rel, used>>
    PROVE  IInv' /\ StoreMove
<1> USE DEF IInv
<1>1. /\ StoreProofs!Inv' /\ StoreMove
      /\ phase' = phase /\ hosted' = hosted /\ resizes' = resizes
  BY Quiet
<1>2. get' \in GetRecords /\ get'.pc = get.pc /\ get'.answer = get.answer
  BY NotifiesItems DEF ClientTypes
<1>3. /\ puts' \in [Groups -> PutRecords]
      /\ \A g \in Groups : /\ puts'[g].pc = puts[g].pc
                           /\ puts'[g].reply = puts[g].reply
                           /\ puts'[g].dropping = puts[g].dropping
  BY NotifiesSpace
<1>4. ClientTypes' /\ PutsFollow'
  BY <1>1, <1>2, <1>3, PutsFrame DEF ClientTypes
<1>5. ShutFollows'
  BY <1>1, <1>2, ShutFrame
<1>6. CallsFollow' /\ (hosted => HandsFollow)'
  BY <1>1, <1>2, HandsFrame
<1> QED
  BY <1>1, <1>4, <1>5, <1>6

LEMMA ResizeReplyStep ==
    ASSUME IInv, NEW k \in DOMAIN size.tasks, ResizeReply(k)
    PROVE  IInv' /\ StoreMove
<1>1. /\ size' = [size EXCEPT !.tasks[k] = "done"]
      /\ UNCHANGED <<store, owned, stage, rel, shut, used>> /\ NotifySpace /\ NotifyItems
  BY DEF ResizeReply
<1>2. resizes' = resizes /\ "done" \in TaskStates
  BY <1>1 DEF store, TaskStates
<1>3. SizeTypes'
  BY <1>1, <1>2, TaskTypes DEF IInv
<1>4. shut' \in ShutRecords /\ shut' = shut
  BY <1>1 DEF IInv, ClientTypes
<1> QED
  BY <1>1, <1>3, <1>4, WakeAll

(* A step that only concerns size.                                         *)
LEMMA SizeOnly ==
    ASSUME IInv, SizeTypes',
           UNCHANGED <<store, owned, puts, get, stage, rel, shut, used>>
    PROVE  IInv' /\ StoreMove
<1> USE DEF IInv
<1>1. /\ StoreProofs!Inv' /\ StoreMove
      /\ phase' = phase /\ hosted' = hosted /\ resizes' = resizes
  BY Quiet
<1>3. ClientTypes' /\ PutsFollow' /\ ShutFollows'
  BY <1>1, PutsSame, ShutFrame DEF ClientTypes
<1>4. CallsFollow' /\ (hosted => HandsFollow)'
  BY <1>1, HandsFrame
<1> QED
  BY <1>1, <1>3, <1>4

LEMMA SnapshotStep ==
    ASSUME IInv, SnapshotStart \/ SnapshotEnds
    PROVE  IInv' /\ StoreMove
<1>1. /\ size' \in {Collect("snapshot", size), [size EXCEPT !.awaits["snapshot"] = None]}
      /\ UNCHANGED <<store, owned, puts, get, stage, rel, shut, used>>
  BY DEF SnapshotStart, SnapshotEnds, FlushDone
<1>2. resizes' = resizes
  BY <1>1 DEF store
<1>3. SizeTypes'
  <2>1. size \in SizeRecords(DOMAIN resizes) /\ Len(size.tasks) = Len(resizes)
    BY DEF IInv, SizeTypes
  <2>2. /\ Collect("snapshot", size) \in SizeRecords(DOMAIN resizes)
        /\ Collect("snapshot", size).tasks = size.tasks
        /\ [size EXCEPT !.awaits["snapshot"] = None] \in SizeRecords(DOMAIN resizes)
        /\ [size EXCEPT !.awaits["snapshot"] = None].tasks = size.tasks
    BY <2>1, CollectTypes
  <2>3. size' \in SizeRecords(DOMAIN resizes') /\ Len(size'.tasks) = Len(resizes')
    BY <1>1, <1>2, <2>1, <2>2
  <2> QED
    BY <2>3 DEF SizeTypes
<1> QED
  BY <1>1, <1>3, SizeOnly

(* A step of the shutdown that leaves what it decides about the store.     *)
LEMMA FinishStartStep ==
    ASSUME IInv, FinishStart
    PROVE  IInv' /\ StoreMove
<1> USE DEF IInv
<1>0. /\ shut' = [shut EXCEPT !.finishing = "sent"]
      /\ UNCHANGED <<store, owned, puts, get, stage, rel, size, used>>
  BY DEF FinishStart
<1>1. /\ StoreProofs!Inv' /\ StoreMove
      /\ phase' = phase /\ hosted' = hosted /\ resizes' = resizes
  BY <1>0, Quiet
<1>2. /\ shut' \in ShutRecords /\ shut'.closing = shut.closing
      /\ shut'.closed = shut.closed /\ shut'.cleaning = shut.cleaning
  BY <1>0 DEF ClientTypes, ShutRecords
<1>3. ClientTypes' /\ PutsFollow' /\ ShutFollows' /\ SizeTypes'
  BY <1>0, <1>1, <1>2, PutsSame, ShutFrame, SizeFrame DEF ClientTypes
<1>4. CallsFollow' /\ (hosted => HandsFollow)'
  BY <1>0, <1>1, HandsFrame
<1> QED
  BY <1>1, <1>3, <1>4

LEMMA HostFinishStep ==
    ASSUME IInv, HostFinish
    PROVE  IInv' /\ StoreMove
<1> USE DEF IInv
<1>0. /\ shut' = [shut EXCEPT !.finishing = "replied"]
      /\ IF hosted THEN Store!Finish ELSE UNCHANGED store
      /\ UNCHANGED <<owned, puts, get, stage, rel, size, used>>
  BY DEF HostFinish
<1>1. /\ StoreProofs!Inv' /\ StoreMove
      /\ phase' = phase /\ hosted' = hosted /\ resizes' = resizes
  <2>1. CASE hosted
    <3>1. Store!Next
      BY <1>0, <2>1 DEF Store!Next
    <3>2. phase' = phase /\ hosted' = hosted /\ resizes' = resizes
      BY <1>0, <2>1 DEF Store!Finish, Store!entryVars, Store!limitVars
    <3> QED
      BY <3>1, <3>2, Moves
  <2>2. CASE ~hosted
    BY <1>0, <2>2, Quiet
  <2> QED
    BY <2>1, <2>2
<1>2. /\ shut' \in ShutRecords /\ shut'.closing = shut.closing
      /\ shut'.closed = shut.closed /\ shut'.cleaning = shut.cleaning
  BY <1>0 DEF ClientTypes, ShutRecords
<1>3. ClientTypes' /\ PutsFollow' /\ ShutFollows' /\ SizeTypes'
  BY <1>0, <1>1, <1>2, PutsSame, ShutFrame, SizeFrame DEF ClientTypes
<1>4. CallsFollow' /\ (hosted => HandsFollow)'
  BY <1>0, <1>1, HandsFrame
<1> QED
  BY <1>1, <1>3, <1>4

LEMMA FinishReplyStep ==
    ASSUME IInv, FinishReply
    PROVE  IInv' /\ StoreMove
<1>1. /\ shut' = [shut EXCEPT !.finishing = "done"] /\ NotifySpace /\ NotifyItems
      /\ UNCHANGED <<store, owned, stage, rel, size, used>>
  BY DEF FinishReply
<1>2. /\ shut' \in ShutRecords /\ shut'.closing = shut.closing
      /\ shut'.closed = shut.closed /\ shut'.cleaning = shut.cleaning
  BY <1>1 DEF IInv, ClientTypes, ShutRecords
<1>3. resizes' = resizes
  BY <1>1 DEF store
<1>4. SizeTypes'
  BY <1>1, <1>3, SizeFrame DEF IInv
<1> QED
  BY <1>1, <1>2, <1>4, WakeAll

-----------------------------------------------------------------------------
(* close                                                                   *)

LEMMA CloseStartStep ==
    ASSUME IInv, CloseStart
    PROVE  IInv' /\ StoreMove
<1> USE DEF IInv
<1>0. /\ shut.closing \in {"open", "failed"} /\ get.pc = "stopped"
      /\ \A r \in Releasers : rel[r] = NoRelease
      /\ shut' = [shut EXCEPT !.closing = "flush"] /\ size' = Collect("close", size)
      /\ UNCHANGED <<store, owned, puts, get, stage, rel, used>>
  BY DEF CloseStart
<1>1. /\ StoreProofs!Inv' /\ StoreMove
      /\ phase' = phase /\ hosted' = hosted /\ resizes' = resizes
  BY <1>0, Quiet
<1>2. /\ shut' \in ShutRecords /\ shut'.closing = "flush"
      /\ shut'.closed = shut.closed /\ shut'.cleaning = shut.cleaning
  BY <1>0 DEF ClientTypes, ShutRecords
<1>3. SizeTypes'
  <2>1. size \in SizeRecords(DOMAIN resizes) /\ Len(size.tasks) = Len(resizes)
    BY DEF SizeTypes
  <2>2. /\ Collect("close", size) \in SizeRecords(DOMAIN resizes)
        /\ Collect("close", size).tasks = size.tasks
    BY <2>1, CollectTypes
  <2> QED
    BY <1>0, <1>1, <2>1, <2>2 DEF SizeTypes
<1>4. ClientTypes' /\ PutsFollow'
  BY <1>0, <1>1, <1>2, PutsSame DEF ClientTypes
<1>5. ShutFollows'
  BY <1>0, <1>1, <1>2 DEF ShutFollows, closed
<1>6. CallsFollow' /\ (hosted => HandsFollow)'
  BY <1>0, <1>1, HandsFrame
<1> QED
  BY <1>1, <1>3, <1>4, <1>5, <1>6

LEMMA CloseFlushedStep ==
    ASSUME IInv, CloseFlushed
    PROVE  IInv' /\ StoreMove
<1> USE DEF IInv
<1> DEFINE c == IF closed THEN "draining" ELSE "sent"
<1>0. /\ shut.closing = "flush"
      /\ size' = [size EXCEPT !.awaits["close"] = None]
      /\ shut' = [shut EXCEPT !.closed = TRUE, !.closing = c]
      /\ IF closed THEN UNCHANGED <<puts, get>> ELSE NotifySpace /\ NotifyItems
      /\ UNCHANGED <<store, owned, stage, rel, used>>
  BY DEF CloseFlushed, FlushDone
<1>1. /\ StoreProofs!Inv' /\ StoreMove
      /\ phase' = phase /\ hosted' = hosted /\ resizes' = resizes
  BY <1>0, Quiet
<1>2. /\ shut' \in ShutRecords /\ shut'.closing = c
      /\ shut'.closed = TRUE /\ shut'.cleaning = shut.cleaning
  <2>1. c \in {"draining", "sent"}
    OBVIOUS
  <2> HIDE DEF c
  <2> QED
    BY <1>0, <2>1 DEF ClientTypes, ShutRecords
<1>3. SizeTypes'
  <2>1. size \in SizeRecords(DOMAIN resizes) /\ Len(size.tasks) = Len(resizes)
    BY DEF SizeTypes
  <2>2. /\ [size EXCEPT !.awaits["close"] = None] \in SizeRecords(DOMAIN resizes)
        /\ [size EXCEPT !.awaits["close"] = None].tasks = size.tasks
    BY <2>1, CollectTypes
  <2> QED
    BY <1>0, <1>1, <2>1, <2>2 DEF SizeTypes
<1>4. /\ get' \in GetRecords /\ get'.pc = get.pc /\ get'.answer = get.answer
      /\ puts' \in [Groups -> PutRecords]
      /\ \A g \in Groups : /\ puts'[g].pc = puts[g].pc
                           /\ puts'[g].reply = puts[g].reply
                           /\ puts'[g].dropping = puts[g].dropping
  <2>1. CASE closed
    BY <1>0, <2>1 DEF ClientTypes
  <2>2. CASE ~closed
    <3>1. NotifySpace /\ NotifyItems
      BY <1>0, <2>2
    <3>2. get' \in GetRecords /\ get'.pc = get.pc /\ get'.answer = get.answer
      BY <3>1, NotifiesItems DEF ClientTypes
    <3>3. /\ puts' \in [Groups -> PutRecords]
          /\ \A g \in Groups : /\ puts'[g].pc = puts[g].pc
                               /\ puts'[g].reply = puts[g].reply
                               /\ puts'[g].dropping = puts[g].dropping
      BY <3>1, NotifiesSpace
    <3> QED
      BY <3>2, <3>3
  <2> QED
    BY <2>1, <2>2
<1>5. ClientTypes' /\ PutsFollow'
  BY <1>0, <1>1, <1>2, <1>4, PutsFrame DEF ClientTypes
<1>6. ShutFollows'
  <2>1. closed \in BOOLEAN
    BY DEF closed, ClientTypes, ShutRecords
  <2>2. get'.pc = "stopped" /\ \A r \in Releasers : rel'[r] = NoRelease
    BY <1>0, <1>4 DEF ShutFollows
  <2>3. hosted <=> ~closed
    BY <1>0 DEF ShutFollows
  <2> QED
    BY <1>0, <1>1, <1>2, <2>1, <2>2, <2>3 DEF ShutFollows, closed
<1>7. CallsFollow' /\ (hosted => HandsFollow)'
  BY <1>0, <1>1, <1>4, HandsFrame
<1> QED
  BY <1>1, <1>3, <1>5, <1>6, <1>7

LEMMA HostCloseStep ==
    ASSUME IInv, HostClose
    PROVE  IInv' /\ StoreMove
<1> USE DEF IInv
<1>0. /\ shut.closing = "sent" /\ Store!Close
      /\ shut' = [shut EXCEPT !.closing = "replied", !.closeRefs = Store!Entries]
      /\ UNCHANGED <<owned, puts, get, stage, rel, size, used>>
  BY DEF HostClose
<1>1. StoreProofs!Inv' /\ StoreMove
  <2>1. Store!Next
    BY <1>0 DEF Store!Next
  <2> QED
    BY <2>1, Moves
<1>2. /\ hosted' = FALSE /\ resizes' = resizes
      /\ phase' = [g \in Groups |-> IF g \in Store!Entries THEN "released" ELSE phase[g]]
  BY <1>0 DEF Store!Close, Store!limitVars
<1>3. /\ shut' \in ShutRecords /\ shut'.closing = "replied"
      /\ shut'.closed = shut.closed /\ shut'.cleaning = shut.cleaning
  BY <1>0 DEF ClientTypes, ShutRecords, Store!Entries
<1>4. ClientTypes' /\ SizeTypes'
  BY <1>0, <1>2, <1>3, SizeFrame DEF ClientTypes
<1>5. \A g \in Groups : /\ phase'[g] = phase[g] \/ phase'[g] = "released"
                        /\ phase'[g] # "absent" => phase[g] # "absent"
  BY <1>2 DEF Store!Entries
<1>6. PutsFollow'
  BY <1>0, <1>2, <1>5 DEF PutsFollow, InFlight
<1>7. ShutFollows'
  BY <1>0, <1>2, <1>3, <1>5 DEF ShutFollows, closed, ClientTypes, ShutRecords
<1>8. CallsFollow'
  BY <1>0, <1>5 DEF CallsFollow
<1> QED
  BY <1>1, <1>2, <1>4, <1>6, <1>7, <1>8

(* What follows the removal of the queue.                                  *)
LEMMA AfterClose ==
    ASSUME IInv, shut.closing \in {"replied", "draining", "dropping"}, shut' \in ShutRecords,
           shut'.closing \in {"draining", "dropping", "closed", "failed"},
           shut'.closed = shut.closed, shut'.cleaning \subseteq shut.cleaning,
           owned' \subseteq owned, used' \in UsedRecords,
           UNCHANGED <<store, puts, get, stage, rel, size>>
    PROVE  IInv' /\ StoreMove
<1> USE DEF IInv
<1>1. /\ StoreProofs!Inv' /\ StoreMove
      /\ phase' = phase /\ hosted' = hosted /\ resizes' = resizes
  BY Quiet
<1>2. ~hosted
  BY DEF ShutFollows
<1>3. ClientTypes' /\ SizeTypes'
  BY <1>1, SizeFrame DEF ClientTypes
<1>4. PutsFollow'
  BY <1>1, <1>2 DEF PutsFollow, InFlight
<1>5. ShutFollows'
  BY <1>1, <1>2 DEF ShutFollows, closed
<1>6. CallsFollow' /\ (hosted => HandsFollow)'
  BY <1>1, HandsFrame
<1> QED
  BY <1>1, <1>3, <1>4, <1>5, <1>6

LEMMA CloseReplyStep ==
    ASSUME IInv, CloseReply
    PROVE  IInv' /\ StoreMove
<1>1. /\ shut.closing = "replied"
      /\ shut' = [shut EXCEPT !.closing = "draining",
                              !.cleanupRefs = shut.cleanupRefs \cup shut.closeRefs]
      /\ UNCHANGED <<store, owned, puts, get, stage, rel, size, used>>
  BY DEF CloseReply, IInv, ClientTypes, ShutRecords
<1>2. /\ shut' \in ShutRecords /\ shut'.closing = "draining"
      /\ shut'.closed = shut.closed /\ shut'.cleaning = shut.cleaning
      /\ used' \in UsedRecords
  BY <1>1 DEF IInv, ClientTypes, ShutRecords
<1> QED
  BY <1>1, <1>2, AfterClose

LEMMA CloseDrainedStep ==
    ASSUME IInv, CloseDrained
    PROVE  IInv' /\ StoreMove
<1>1. /\ shut.closing = "draining"
      /\ shut' = [shut EXCEPT !.closing = "dropping", !.closeRefs = shut.cleanupRefs,
                              !.failedDrops = {}, !.ownerFailure = FALSE]
      /\ UNCHANGED <<store, owned, puts, get, stage, rel, size, used>>
  BY DEF CloseDrained
<1>2. shut \in ShutRecords /\ used' \in UsedRecords
  BY <1>1 DEF IInv, ClientTypes
<1> DEFINE c == shut.cleanupRefs
<1>3. c \in SUBSET Groups
  BY <1>2 DEF ShutRecords
<1>4. shut' = [shut EXCEPT !.closing = "dropping", !.closeRefs = c,
                           !.failedDrops = {}, !.ownerFailure = FALSE]
  BY <1>1
<1> HIDE DEF c
<1>5. /\ shut' \in ShutRecords /\ shut'.closing = "dropping"
      /\ shut'.closed = shut.closed /\ shut'.cleaning = shut.cleaning
  BY <1>2, <1>3, <1>4 DEF ShutRecords
<1> QED
  BY <1>1, <1>2, <1>5, AfterClose

LEMMA CloseDropStep ==
    ASSUME IInv, NEW g \in Groups, CloseDrop(g)
    PROVE  IInv' /\ StoreMove
<1>1. /\ shut.closing = "dropping" /\ g \in shut.closeRefs
      /\ owned' \in {owned, owned \ {g}}
      /\ UNCHANGED <<store, puts, get, stage, rel, size>>
      /\ \/ shut' = [shut EXCEPT !.closeRefs = shut.closeRefs \ {g}]
         \/ shut' = [shut EXCEPT !.closeRefs = shut.closeRefs \ {g},
                                 !.failedDrops = shut.failedDrops \cup {g}]
  BY DEF CloseDrop, IInv, ClientTypes, ShutRecords
<1>2. /\ shut' \in ShutRecords /\ shut'.closing = "dropping"
      /\ shut'.closed = shut.closed /\ shut'.cleaning = shut.cleaning
  <2> DEFINE c == shut.closeRefs \ {g}
             f == shut.failedDrops \cup {g}
  <2>1. shut \in ShutRecords
    BY DEF IInv, ClientTypes
  <2>2. c \in SUBSET Groups /\ f \in SUBSET Groups
    BY <2>1 DEF ShutRecords
  <2>3. \/ shut' = [shut EXCEPT !.closeRefs = c]
        \/ shut' = [shut EXCEPT !.closeRefs = c, !.failedDrops = f]
    BY <1>1
  <2> HIDE DEF c, f
  <2>4. CASE shut' = [shut EXCEPT !.closeRefs = c]
    BY <1>1, <2>1, <2>2, <2>4 DEF ShutRecords
  <2>5. CASE shut' = [shut EXCEPT !.closeRefs = c, !.failedDrops = f]
    BY <1>1, <2>1, <2>2, <2>5 DEF ShutRecords
  <2> QED
    BY <2>3, <2>4, <2>5
<1>3. used' \in UsedRecords
  BY DEF CloseDrop, DropFails, IInv, ClientTypes, UsedRecords
<1> QED
  BY <1>1, <1>2, <1>3, AfterClose

LEMMA CloseEndStep ==
    ASSUME IInv, CloseEnd
    PROVE  IInv' /\ StoreMove
<1> DEFINE c == IF shut.failedDrops = {} THEN "closed" ELSE "failed"
<1>1. /\ shut.closing = "dropping"
      /\ shut' = [shut EXCEPT !.cleanupRefs = shut.failedDrops, !.closing = c]
      /\ UNCHANGED <<store, owned, puts, get, stage, rel, size, used>>
  BY DEF CloseEnd
<1>2. c \in {"closed", "failed"}
  OBVIOUS
<1> HIDE DEF c
<1>3. /\ shut' \in ShutRecords /\ shut'.closing = c
      /\ shut'.closed = shut.closed /\ shut'.cleaning = shut.cleaning
      /\ used' \in UsedRecords
  BY <1>1, <1>2 DEF IInv, ClientTypes, ShutRecords
<1> QED
  BY <1>1, <1>2, <1>3, AfterClose

-----------------------------------------------------------------------------
(* Every step.                                                             *)

LEMMA InitHolds == Init => IInv
<1> SUFFICES ASSUME Init PROVE IInv
  OBVIOUS
<1>1. StoreProofs!Inv
  BY StoreInit DEF Init
<1>2. /\ phase = [g \in Groups |-> "absent"] /\ hosted = TRUE /\ resizes = <<>>
  BY DEF Init, Store!Init
<1>3. ClientTypes
  <2>1. get \in GetRecords
    BY AtFields DEF Init, Places
  <2>2. puts \in [Groups -> PutRecords]
    BY DEF Init, Put, PutRecords
  <2>3. rel \in [Releasers -> RelRecords]
    BY DEF Init, NoRelease, RelRecords
  <2>4. shut \in ShutRecords /\ owned \subseteq Groups
    BY DEF Init, ShutRecords
  <2>5. used \in UsedRecords
    BY DEF Init, UsedRecords
  <2>6. stage \in StageRecords /\ IsFiniteSet(stage.batch)
    BY FS_EmptySet DEF Init, StageRecords
  <2> QED
    BY <2>1, <2>2, <2>3, <2>4, <2>5, <2>6 DEF ClientTypes
<1>4. SizeTypes
  <2>1. 1 \in DOMAIN Settings /\ Settings[1].maxsize \in 1..MaxSize
    BY SettingFacts
  <2>2. <<>> \in Seq(TaskStates) /\ Len(<<>>) = 0
    BY EmptySeq
  <2> QED
    BY <1>2, <2>1, <2>2 DEF Init, SizeTypes, SizeRecords
<1>5. PutsFollow
  BY <1>2 DEF Init, PutsFollow, InFlight, Put
<1>6. get.pc = "collect" /\ get.answer = None
  BY DEF Init, At
<1>7. ShutFollows
  BY <1>2 DEF Init, ShutFollows, closed
<1>8. CallsFollow
  <2>1. \A r \in Releasers : rel[r] = NoRelease /\ rel[r].state = "none"
    BY DEF Init, NoRelease
  <2>2. "packing" \in Releasers /\ stage.fetched = {}
    BY DEF Init, Releasers
  <2> QED
    BY <1>6, <2>1, <2>2 DEF CallsFollow
<1>9. HandsFollow
  BY <1>2, <1>6 DEF Init, HandsFollow, Answered, Releasing, Releasers, NoRelease
<1> QED
  BY <1>1, <1>3, <1>4, <1>5, <1>7, <1>8, <1>9 DEF IInv

LEMMA NextHolds ==
    ASSUME IInv, Next
    PROVE  IInv' /\ StoreMove
<1>1. ASSUME NEW g \in Groups, PutStep(g)
      PROVE  IInv' /\ StoreMove
  BY <1>1, PutStartStep, HostEnqueueStep, PutReplyStep, PutWakeStep, PutDropStep DEF PutStep
<1>2. ASSUME GetStep
      PROVE  IInv' /\ StoreMove
  BY <1>2, GetStartStep, GetRefusedStep, FlushMoreStep, GetFlushedStep, HostTakeStep,
     GetReplyStep, GetWaitStep, GetWakeStep, CancelledReplyStep, WithdrawnStep DEF GetStep
<1>3. ASSUME PackStep
      PROVE  IInv' /\ StoreMove
  BY <1>3, KeepStep, DiscardStep, PackStepInv, PackNothingStep, PackingEndsStep,
     HostMarkPackedStep, HandOverStep DEF PackStep
<1>4. ASSUME NEW r \in Releasers, ReleaseStep(r)
      PROVE  IInv' /\ StoreMove
  BY <1>4, HostReleaseStep, ReleaseReplyStep DEF ReleaseStep
<1>5. ASSUME NEW k \in DOMAIN size.tasks, ResizeStep(k)
      PROVE  IInv' /\ StoreMove
  BY <1>5, HostResizeStep, ResizeReplyStep DEF ResizeStep
<1>6. ASSUME CloseStep
      PROVE  IInv' /\ StoreMove
  BY <1>6, CloseStartStep, FlushMoreStep, CloseFlushedStep, HostCloseStep, CloseReplyStep,
     CloseDrainedStep, CloseEndStep, CloseDropStep DEF CloseStep
<1>7. ASSUME NEW g \in Groups,
             PutCancel(g) \/ CleanOwner(g) \/ CleanOwnerFails(g) \/ Discard(g, "stopped")
      PROVE  IInv' /\ StoreMove
  BY <1>7, PutCancelStep, CleanOwnerStep, CleanOwnerFailsStep, DiscardStep
<1>8. CASE SnapshotStart \/ FlushMore("snapshot") \/ SnapshotEnds
  BY <1>8, SnapshotStep, FlushMoreStep
<1>9. CASE FinishStart \/ HostFinish \/ FinishReply
  BY <1>9, FinishStartStep, HostFinishStep, FinishReplyStep
<1>10. CASE GetCancel \/ TrainerRelease \/ SetMaxsize
  BY <1>10, GetCancelStep, TrainerReleaseStep, SetMaxsizeStep
<1> QED
  BY <1>1, <1>2, <1>3, <1>4, <1>5, <1>6, <1>7, <1>8, <1>9, <1>10 DEF Next

LEMMA StutterHolds ==
    ASSUME IInv, UNCHANGED vars
    PROVE  IInv' /\ StoreMove
<1>1. SizeTypes'
  BY SizeFrame DEF vars, store, IInv
<1> QED
  BY <1>1, SizeOnly DEF vars

(* For any groups, sizes, settings, cancellations and failed drops: the    *)
(* store keeps its invariant under its client, a put drops the records it  *)
(* did not transfer and no others, the queue is closed after the stages    *)
(* have ended, and every leased group is in one hand whose progress agrees *)
(* with the phase of its entry.                                            *)
THEOREM Invariant == Spec => []IInv
<1>1. IInv /\ [Next]_vars => IInv'
  BY NextHolds, StutterHolds
<1> QED
  BY InitHolds, <1>1, PTL DEF Spec

(* The queue never runs ahead of the owners of its records: each group in  *)
(* the queue, leased or not, is still stored by its rollout owner, whatever *)
(* puts are cancelled, refused or answered late.                           *)
THEOREM RecordsBack == Spec => []RecordsBackEntries
<1>1. IInv => RecordsBackEntries
  BY DEF IInv, PutsFollow, RecordsBackEntries, Store!Entries
<1> QED
  BY Invariant, <1>1, PTL

(* The leases the host has given are exactly those the client works on,    *)
(* each in the hands of one activity, also when a take is cancelled after  *)
(* it has been handled.                                                    *)
THEOREM LeasesTracked == Spec => []LeasesAreTracked
<1>1. IInv => LeasesAreTracked
  <2>1. SUFFICES ASSUME IInv, hosted PROVE LeasesAreTracked
    BY DEF LeasesAreTracked
  <2> DEFINE P == Releasing("packing")
             T == Releasing("trainer")
             B == {g \in Groups : phase[g] \in {"packing", "packed"}}
  <2>2. HandsFollow /\ ClientTypes /\ CallsFollow
    BY <2>1 DEF IInv
  <2>3. /\ DOMAIN InHands = 1..6
        /\ InHands[1] = stage.fetched /\ InHands[2] = stage.batch
        /\ InHands[3] = stage.packed /\ InHands[4] = Answered
        /\ InHands[5] = P /\ InHands[6] = T
    BY DEF InHands, Answered, Releasing
  <2>4. UNION {InHands[i] : i \in DOMAIN InHands}
           = stage.fetched \cup stage.batch \cup stage.packed \cup Answered \cup P \cup T
    <3>1. \A i : i \in DOMAIN InHands <=> i \in {1, 2, 3, 4, 5, 6}
      BY <2>3
    <3> QED
      BY <2>3, <3>1
  <2>5. /\ stage.fetched \subseteq Groups /\ stage.batch \subseteq Groups
        /\ stage.packed \subseteq Groups /\ Answered \subseteq Groups
        /\ P \subseteq Groups /\ T \subseteq Groups
    BY <2>2, HandTypes
  <2> HIDE DEF P, T, B
  <2>6. stage.fetched \cup stage.batch \cup stage.packed \cup Answered \cup P \cup T = B
    BY <2>2, <2>5 DEF HandsFollow, P, T, B
  <2>7. /\ Answered # {} => get.pc = "taken"
        /\ stage.fetched # {} => get.pc \in {"examine", "releasing", "stopped"}
        /\ P # {} => get.pc \in {"releasing", "undoing", "stopped"}
        /\ get.pc = "marked" => stage.packed = {}
    <3>1. Answered # {} => get.pc = "taken"
      BY <2>2 DEF CallsFollow, Answered
    <3>2. P # {} => rel["packing"] # NoRelease
      BY DEF P, Releasing, NoRelease
    <3> QED
      BY <2>2, <3>1, <3>2 DEF CallsFollow
  <2>8. /\ stage.fetched \cap stage.batch = {} /\ stage.fetched \cap stage.packed = {}
        /\ stage.fetched \cap Answered = {} /\ stage.fetched \cap P = {}
        /\ stage.fetched \cap T = {} /\ stage.batch \cap stage.packed = {}
        /\ stage.batch \cap Answered = {} /\ stage.batch \cap P = {}
        /\ stage.batch \cap T = {} /\ stage.packed \cap Answered = {}
        /\ stage.packed \cap P = {} /\ stage.packed \cap T = {}
        /\ Answered \cap P = {} /\ Answered \cap T = {} /\ P \cap T = {}
    BY <2>2, <2>7 DEF HandsFollow, P, T
  <2>9. \A i, j \in 1..6 : i # j => InHands[i] \cap InHands[j] = {}
    BY <2>3, <2>8
  <2> QED
    BY <2>3, <2>4, <2>6, <2>9 DEF LeasesAreTracked, B
<1> QED
  BY Invariant, <1>1, PTL

(* Every step of the client is a step of the store or leaves it alone: as  *)
(* long as the client has issued no more resizes than the bound of the     *)
(* store allows, a behaviour of the queue is one of the store, so all that *)
(* is proved of the store under an arbitrary client holds under this one.  *)
THEOREM ImplementsStore ==
    Spec /\ [](Len(resizes) <= MaxResizes) => StoreSpec
<1> DEFINE Within == Len(resizes) <= MaxResizes
<1>1. Init => Store!Init
  BY DEF Init
<1>2. IInv /\ Within' /\ [Next]_vars => [Store!Next]_Store!vars
  <2> SUFFICES ASSUME IInv, Within', [Next]_vars PROVE [Store!Next]_Store!vars
    OBVIOUS
  <2>1. StoreMove
    BY NextHolds, StutterHolds
  <2>2. ASSUME NEW m \in 1..MaxSize, Store!IssueResize(m)
        PROVE  Store!Next
    <3>1. resizes \in Seq(1..MaxSize) /\ resizes' = Append(resizes, m)
      BY <2>2 DEF IInv, StoreProofs!Inv, StoreProofs!TypeOK, Store!IssueResize
    <3>2. Len(resizes') = Len(resizes) + 1 /\ Len(resizes) \in Nat
      BY <3>1, AppendProperties, LenProperties
    <3>3. Len(resizes) < MaxResizes
      BY <3>2, ClientAssumption
    <3> QED
      BY <2>2, <3>3 DEF Store!Next
  <2> QED
    BY <2>1, <2>2 DEF StoreMove
<1> QED
  BY <1>1, <1>2, Invariant, PTL DEF Spec, StoreSpec, Store!Spec

=============================================================================
