--------------- MODULE DistributedTrajectoryQueueLimitProofs ---------------
(***************************************************************************)
(* Theorems about the limit of the queue and its minimum batch, as the     *)
(* client, its resize tasks and the host keep them: that the host ends up  *)
(* with the last limit issued once no resize is on its way, and that a     *)
(* minimum the host keeps pending always has the room it needs.            *)
(*                                                                         *)
(* LInv says where every resize that was issued stands: applied, still to  *)
(* come, or lost to a cancellation.  RInv adds the one get_many at work:   *)
(* what its request, its answer and the reservation it made have to do     *)
(* with each other, and that no resize still to come takes the room away.  *)
(***************************************************************************)
EXTENDS DistributedTrajectoryQueueProofs

-----------------------------------------------------------------------------
(* What the limit of the host is meant to be.                              *)

(* The limit in force once the k-th resize has been applied.               *)
LimitAt(k) == IF k = 0 THEN Settings[1].maxsize ELSE resizes[k]

Waits == {"taking", "taken", "waiting", "withdrawing"}
Idle == {"collect", "examine", "releasing", "collected", "marking", "marked", "stopped"}

(* The client's target is the last resize it issued, and the reservation of *)
(* the running get_many is part of it; what a task reports as handled, the *)
(* host has applied or has overtaken.                                      *)
SizeFollows ==
    /\ size.effective = Target(get.minimumTakeSize, size.setting)
    /\ get.pc \in Idle => get.minimumTakeSize = 0
    /\ ~closed => size.effective = LimitAt(Len(resizes))
    /\ hosted => \A k \in DOMAIN size.tasks :
                    size.tasks[k] \in {"replied", "done"} => generation >= k

(* No flush waits for a task that another one's cancellation has given up. *)
TasksFollow ==
    /\ \A k \in size.uncollected : size.tasks[k] \notin {"orphan", "lost"}
    /\ get.pc = "flush" =>
          \A k \in size.awaits["get"] :
             /\ k \in DOMAIN size.tasks /\ k \notin size.uncollected
             /\ size.tasks[k] \notin {"orphan", "lost"}

(* With neither snapshots nor cancellations the flush of get_many misses   *)
(* no task: one that is not done is in _resize_tasks or waited for by it.  *)
FlushFollows ==
    ~used.schedule.ordered =>
       /\ get.pc # "flush" => size.awaits["get"] = None
       /\ size.awaits["snapshot"] = None
       /\ shut.closing # "flush" => size.awaits["close"] = None
       /\ shut.closing = "open" =>
             \A k \in DOMAIN size.tasks :
                \/ size.tasks[k] = "done" \/ k \in size.uncollected
                \/ get.pc = "flush" /\ k \in size.awaits["get"]

(* A minimum the host keeps is the one get_many waits for.                 *)
MinimumFollows ==
    /\ get.pc \in Idle => ~get.wait
    /\ get.pc = "flush" => get.wait
    /\ get.wait /\ get.pc \in Waits \cup {"flush"} =>
          get.count > 0 /\ get.minimumTakeSize = get.count + held
    /\ hosted /\ pendingMinimum # None /\ ~minimumError =>
          /\ get.wait /\ get.pc \in Waits
          /\ pendingMinimum = Store!Request(ConsumerId, get.count)

(* What an answer says of the minimum.                                     *)
AnswerFollows ==
    get.answer # None =>
       /\ get.answer.outcome # "lease_error"
       /\ get.answer.outcome \in {"leases", "cancelled"} => pendingMinimum = None
       /\ get.answer.outcome = "capacity_error" =>
             minimumError \/ (pendingMinimum = None /\ ResizeLost)
       /\ get.answer.groups # {} => get.answer.outcome = "leases"
       /\ get.answer.closed => get.answer.outcome \in {"leases", "cancelled"}
       /\ get.pc = "withdrawn" => get.answer.outcome = "cancelled"

(* The first take of a minimum may be on its way with resizes ahead of it, *)
(* which the host is to handle before it.                                  *)
Ahead == used.schedule.ordered /\ get.pc = "taking" /\ pendingMinimum = None

(* While a minimum is waited for, the limit has room for it and the groups *)
(* of the batch, or has before the host handles the take; no resize still  *)
(* to come takes the room away.                                            *)
RoomFollows ==
    hosted /\ ~minimumError /\ get.wait /\ get.pc \in Waits =>
       /\ get.pc = "taking" =>
             get.after \in 0..Len(resizes) /\ LimitAt(get.after) >= get.minimumTakeSize
       /\ \A k \in DOMAIN resizes : k > generation =>
             \/ resizes[k] >= get.minimumTakeSize
             \/ size.tasks[k] = "lost"
             \/ Ahead /\ k <= get.after
       /\ pendingMinimum # None => maxReadyGroups >= get.count
       /\ \/ ResizeLost
          \/ maxReadyGroups >= get.minimumTakeSize
          \/ Ahead /\ generation < get.after

LInv == StoreProofs!LimitInForce /\ SizeFollows /\ TasksFollow

MInv == MinimumFollows /\ AnswerFollows /\ RoomFollows
RInv == FlushFollows /\ MInv

-----------------------------------------------------------------------------
(* The limit the host works with.                                          *)

LEMMA Lengths ==
    ASSUME IInv
    PROVE  /\ resizes \in Seq(1..MaxSize) /\ Len(resizes) \in Nat
           /\ DOMAIN resizes = 1..Len(resizes)
           /\ DOMAIN size.tasks = 1..Len(resizes) /\ Len(size.tasks) = Len(resizes)
           /\ generation \in 0..Len(resizes) /\ maxReadyGroups \in Nat \ {0}
           /\ \A k \in 1..Len(resizes) : resizes[k] \in 1..MaxSize
           /\ size \in SizeRecords(DOMAIN resizes) /\ size.setting \in DOMAIN Settings
<1>1. /\ resizes \in Seq(1..MaxSize) /\ generation \in 0..Len(resizes)
      /\ maxReadyGroups \in Nat \ {0}
      /\ size.tasks \in Seq(TaskStates) /\ Len(size.tasks) = Len(resizes)
      /\ size \in SizeRecords(DOMAIN resizes) /\ size.setting \in DOMAIN Settings
  BY DEF IInv, StoreProofs!Inv, StoreProofs!TypeOK, SizeTypes, SizeRecords
<1>2. /\ Len(resizes) \in Nat /\ DOMAIN resizes = 1..Len(resizes)
      /\ DOMAIN size.tasks = 1..Len(size.tasks)
  BY <1>1, LenProperties
<1>3. \A k \in 1..Len(resizes) : resizes[k] \in 1..MaxSize
  BY <1>1, <1>2, ElementOfSeq
<1> QED
  BY <1>1, <1>2, <1>3

LEMMA LengthsNext ==
    ASSUME IInv'
    PROVE  /\ resizes' \in Seq(1..MaxSize) /\ Len(resizes') \in Nat
           /\ DOMAIN resizes' = 1..Len(resizes')
           /\ DOMAIN size'.tasks = 1..Len(size'.tasks) /\ Len(size'.tasks) = Len(resizes')
           /\ generation' \in 0..Len(resizes')
<1>1. /\ resizes' \in Seq(1..MaxSize) /\ generation' \in 0..Len(resizes')
      /\ size'.tasks \in Seq(TaskStates) /\ Len(size'.tasks) = Len(resizes')
  BY DEF IInv, StoreProofs!Inv, StoreProofs!TypeOK, SizeTypes, SizeRecords
<1> QED
  BY <1>1, LenProperties

LEMMA InForceFollows ==
    ASSUME IInv, StoreProofs!LimitInForce, StoreMove
    PROVE  StoreProofs!LimitInForce' /\ generation' >= generation
<1>0. generation \in 0..Len(resizes) /\ resizes \in Seq(1..MaxSize) /\ Len(resizes) \in Nat
  BY Lengths
<1>1. CASE [Store!Next]_Store!vars
  <2>1. [StoreProofs!Next]_StoreProofs!vars
    BY <1>1, SameStore
  <2>2. StoreProofs!TypeOK
    BY DEF IInv, StoreProofs!Inv
  <2> QED
    BY <2>1, <2>2, StoreAssumptions, StoreProofs!LimitStep
<1>2. ASSUME NEW m \in 1..MaxSize, Store!IssueResize(m)
      PROVE  StoreProofs!LimitInForce' /\ generation' >= generation
  <2>1. /\ resizes' = Append(resizes, m) /\ generation' = generation
        /\ maxReadyGroups' = maxReadyGroups
    BY <1>2 DEF Store!IssueResize
  <2>2. \A k \in 1..Len(resizes) : resizes'[k] = resizes[k]
    BY <1>0, <2>1, AppendProperties
  <2> QED
    BY <1>0, <2>1, <2>2 DEF StoreProofs!LimitInForce
<1> QED
  BY <1>1, <1>2 DEF StoreMove

(* What _sync_maxsize does to the resizes and their tasks.                 *)
LEMMA SyncedLimits ==
    ASSUME IInv, NEW s \in DOMAIN Settings, NEW m \in 0..MaxSize, IssueResize(m, s)
    PROVE  LET z == Synced(m, s) IN
           /\ z.setting = s /\ z.effective = Target(m, s) /\ z.awaits = size.awaits
           /\ UNCHANGED <<maxReadyGroups, generation, pendingMinimum, minimumError, hosted>>
           /\ \A k \in 1..Len(resizes) :
                 resizes'[k] = resizes[k] /\ z.tasks[k] = size.tasks[k]
           /\ \/ /\ Len(resizes') = Len(resizes) /\ Len(z.tasks) = Len(resizes)
                 /\ z.uncollected = size.uncollected
                 /\ closed \/ Target(m, s) = size.effective
              \/ /\ Len(resizes') = Len(resizes) + 1 /\ Len(z.tasks) = Len(resizes) + 1
                 /\ z.uncollected = size.uncollected \cup {Len(resizes) + 1}
                 /\ resizes'[Len(resizes) + 1] = Target(m, s)
                 /\ z.tasks[Len(resizes) + 1] = "sent"
<1>0. /\ resizes \in Seq(1..MaxSize) /\ Len(resizes) \in Nat
      /\ size \in SizeRecords(DOMAIN resizes) /\ Len(size.tasks) = Len(resizes)
  BY Lengths
<1>1. size.tasks \in Seq(TaskStates) /\ "sent" \in TaskStates
  BY <1>0 DEF SizeRecords, TaskStates
<1>2. CASE Resizes(m, s)
  <2>1. Store!IssueResize(Target(m, s))
    BY <1>2 DEF IssueResize
  <2>2. /\ resizes' = Append(resizes, Target(m, s))
        /\ UNCHANGED <<maxReadyGroups, generation, pendingMinimum, minimumError, hosted>>
    BY <2>1 DEF Store!IssueResize
  <2> DEFINE t == Append(size.tasks, "sent")
             u == size.uncollected \cup {Len(resizes) + 1}
  <2>3. /\ Len(resizes') = Len(resizes) + 1
        /\ resizes'[Len(resizes) + 1] = Target(m, s)
        /\ \A k \in 1..Len(resizes) : resizes'[k] = resizes[k]
    <3>1. Target(m, s) \in 1..MaxSize
      BY TargetType
    <3> QED
      BY <1>0, <2>2, <3>1, AppendProperties
  <2>4. /\ Len(t) = Len(resizes) + 1 /\ t[Len(resizes) + 1] = "sent"
        /\ \A k \in 1..Len(resizes) : t[k] = size.tasks[k]
    BY <1>0, <1>1, AppendProperties
  <2>5. Synced(m, s) = [size EXCEPT !.setting = s, !.effective = Target(m, s),
                                   !.tasks = t, !.uncollected = u]
    BY <1>2 DEF Synced
  <2> HIDE DEF t
  <2>6. LET z == Synced(m, s) IN
        /\ z.setting = s /\ z.effective = Target(m, s) /\ z.awaits = size.awaits
        /\ z.tasks = t /\ z.uncollected = u
    BY <1>0, <2>5 DEF SizeRecords
  <2> QED
    BY <2>2, <2>3, <2>4, <2>6
<1>3. CASE ~Resizes(m, s)
  <2>1. UNCHANGED store
    BY <1>3 DEF IssueResize
  <2>2. Synced(m, s) = [size EXCEPT !.setting = s, !.effective = Target(m, s)]
    BY <1>0, <1>3 DEF Synced, SizeRecords
  <2>3. LET z == Synced(m, s) IN
        /\ z.setting = s /\ z.effective = Target(m, s) /\ z.awaits = size.awaits
        /\ z.tasks = size.tasks /\ z.uncollected = size.uncollected
    BY <1>0, <2>2 DEF SizeRecords
  <2> QED
    BY <1>0, <1>3, <2>1, <2>3 DEF Resizes, store
<1> QED
  BY <1>2, <1>3

(* The ways in which a step may change what SizeFollows reads.             *)

LEMMA SizeSame ==
    ASSUME IInv, IInv', SizeFollows, generation' >= generation, hosted' => hosted,
           resizes' = resizes, size' = size, shut'.closed = shut.closed,
           get'.minimumTakeSize = get.minimumTakeSize,
           get'.pc = get.pc \/ get'.pc \notin Idle \/ get.minimumTakeSize = 0
    PROVE  SizeFollows'
<1>1. /\ generation \in Nat /\ generation' \in Nat /\ DOMAIN size.tasks = 1..Len(resizes)
      /\ Len(resizes) \in Nat
  BY Lengths DEF IInv, StoreProofs!Inv, StoreProofs!TypeOK
<1>2. \A k \in DOMAIN size.tasks : generation >= k => generation' >= k
  BY <1>1
<1>3. Target(get.minimumTakeSize, size.setting)' = Target(get.minimumTakeSize, size.setting)
  BY DEF Target
<1> QED
  BY <1>2, <1>3 DEF SizeFollows, closed, LimitAt

(* tasks may be cancelled or advance otherwise, but are handled by no one  *)
LEMMA SizeSynced ==
    ASSUME IInv, SizeFollows, NEW s \in DOMAIN Settings, NEW m \in 0..MaxSize,
           IssueResize(m, s), size'.setting = s, size'.effective = Target(m, s),
           Len(size'.tasks) = Len(Synced(m, s).tasks),
           DOMAIN size'.tasks = 1..Len(size'.tasks),
           \A k \in 1..Len(size'.tasks) : size'.tasks[k] \in {"replied", "done"} =>
              Synced(m, s).tasks[k] \in {"replied", "done"},
           shut'.closed = shut.closed,
           get'.minimumTakeSize = m, get'.pc \in Idle => m = 0
    PROVE  SizeFollows'
<1> DEFINE z == Synced(m, s)
<1>0. /\ Len(resizes) \in Nat /\ DOMAIN size.tasks = 1..Len(resizes)
  BY Lengths
<1>1. /\ UNCHANGED <<maxReadyGroups, generation, pendingMinimum, minimumError, hosted>>
      /\ \A k \in 1..Len(resizes) :
            resizes'[k] = resizes[k] /\ z.tasks[k] = size.tasks[k]
      /\ \/ /\ Len(resizes') = Len(resizes) /\ Len(z.tasks) = Len(resizes)
            /\ closed \/ Target(m, s) = size.effective
         \/ /\ Len(resizes') = Len(resizes) + 1 /\ Len(z.tasks) = Len(resizes) + 1
            /\ resizes'[Len(resizes) + 1] = Target(m, s)
            /\ z.tasks[Len(resizes) + 1] = "sent"
  BY SyncedLimits
<1>2. Target(get.minimumTakeSize, size.setting)' = Target(m, s)
  BY DEF Target
<1> HIDE DEF z
<1>3. hosted' => \A k \in DOMAIN size'.tasks :
                    size'.tasks[k] \in {"replied", "done"} => generation' >= k
  BY <1>0, <1>1 DEF SizeFollows, z
<1>4. ~shut'.closed => size'.effective = IF Len(resizes') = 0 THEN Settings[1].maxsize
                                         ELSE resizes'[Len(resizes')]
  BY <1>0, <1>1 DEF SizeFollows, closed, LimitAt
<1>5. Settings[1].maxsize = Settings[1].maxsize'
  OBVIOUS
<1> QED
  BY <1>2, <1>3, <1>4 DEF SizeFollows, closed, LimitAt

LEMMA TasksSame ==
    ASSUME TasksFollow, size' = size, get'.pc = get.pc \/ get'.pc # "flush"
    PROVE  TasksFollow'
  BY DEF TasksFollow

LEMMA TasksSynced ==
    ASSUME IInv, TasksFollow, NEW s \in DOMAIN Settings, NEW m \in 0..MaxSize,
           IssueResize(m, s), size' = Synced(m, s), get'.pc = get.pc \/ get'.pc # "flush"
    PROVE  TasksFollow'
<1> DEFINE z == Synced(m, s)
<1>0. /\ Len(resizes) \in Nat /\ DOMAIN size.tasks = 1..Len(resizes)
      /\ size.uncollected \subseteq 1..Len(resizes)
  BY Lengths DEF SizeRecords
<1>1. /\ z.awaits = size.awaits
      /\ \A k \in 1..Len(resizes) : z.tasks[k] = size.tasks[k]
      /\ \/ Len(z.tasks) = Len(resizes) /\ z.uncollected = size.uncollected
         \/ /\ Len(z.tasks) = Len(resizes) + 1
            /\ z.uncollected = size.uncollected \cup {Len(resizes) + 1}
            /\ z.tasks[Len(resizes) + 1] = "sent"
  BY SyncedLimits
<1>2. DOMAIN size'.tasks = 1..Len(size'.tasks)
  <2>1. /\ z \in SizeRecords(DOMAIN resizes')
    BY SyncedTypes DEF IInv
  <2> QED
    BY <2>1, LenProperties DEF SizeRecords
<1> HIDE DEF z
<1>3. size' = z
  BY DEF z
<1>4. \A k \in z.uncollected : z.tasks[k] \notin {"orphan", "lost"}
  <2>1. ASSUME NEW k \in size.uncollected PROVE z.tasks[k] \notin {"orphan", "lost"}
    BY <1>0, <1>1, <2>1 DEF TasksFollow
  <2>2. z.tasks[Len(resizes) + 1] = "sent" => z.tasks[Len(resizes) + 1] \notin {"orphan", "lost"}
    OBVIOUS
  <2> QED
    BY <1>1, <2>1, <2>2
<1>5. ASSUME get'.pc = "flush", NEW k \in z.awaits["get"]
      PROVE  /\ k \in DOMAIN size'.tasks /\ k \notin z.uncollected
             /\ z.tasks[k] \notin {"orphan", "lost"}
  <2>1. /\ k \in 1..Len(resizes) /\ k \notin size.uncollected
        /\ size.tasks[k] \notin {"orphan", "lost"}
    BY <1>0, <1>1, <1>5 DEF TasksFollow
  <2>2. k # Len(resizes) + 1 /\ k \in 1..Len(z.tasks)
    BY <1>0, <1>1, <2>1
  <2> QED
    BY <1>1, <1>2, <1>3, <2>1, <2>2
<1> QED
  BY <1>3, <1>4, <1>5 DEF TasksFollow

LEMMA NotifyKeeps ==
    ASSUME ClientTypes, NotifyItems
    PROVE  /\ get'.pc = get.pc /\ get'.count = get.count /\ get'.wait = get.wait
           /\ get'.after = get.after /\ get'.answer = get.answer
           /\ get'.minimumTakeSize = get.minimumTakeSize
<1> DEFINE w == get.woken \/ ItemsRegistered
<1>1. get' = [get EXCEPT !.woken = w] /\ get \in GetRecords
  BY DEF NotifyItems, ClientTypes
<1> HIDE DEF w
<1> QED
  BY <1>1 DEF GetRecords

LEMMA AtKeeps ==
    ASSUME NEW pc
    PROVE  /\ At(pc).pc = pc /\ At(pc).minimumTakeSize = 0 /\ At(pc).wait = FALSE
           /\ At(pc).answer = None
  BY DEF At

(* Steps that concern neither the limit nor the reservation.               *)
LEMMA SizePuts ==
    ASSUME IInv, IInv', SizeFollows, TasksFollow, generation' >= generation, NEW g \in Groups,
           \/ PutStart(g) \/ HostEnqueue(g) \/ PutReply(g) \/ PutWake(g) \/ PutCancel(g)
           \/ PutDrop(g) \/ CleanOwner(g) \/ CleanOwnerFails(g) \/ CloseDrop(g)
    PROVE  SizeFollows' /\ TasksFollow'
<1>1. /\ size' = size /\ resizes' = resizes /\ hosted' = hosted
  <2>1. CASE HostEnqueue(g)
    BY <2>1 DEF HostEnqueue, Store!Enqueue, Store!limitVars, store
  <2>2. CASE ~HostEnqueue(g)
    BY <2>2 DEF PutStart, PutReply, PutWake, PutCancel, PutDrop, CleanOwner, CleanOwnerFails,
       CloseDrop, store
  <2> QED
    BY <2>1, <2>2
<1>2. get'.pc = get.pc /\ get'.minimumTakeSize = get.minimumTakeSize
  <2>1. CASE PutReply(g)
    BY <2>1, NotifyKeeps DEF PutReply, IInv
  <2>2. CASE ~PutReply(g)
    BY <2>2 DEF PutStart, HostEnqueue, PutWake, PutCancel, PutDrop, CleanOwner,
       CleanOwnerFails, CloseDrop
  <2> QED
    BY <2>1, <2>2
<1>3. shut'.closed = shut.closed
  <2>1. shut \in ShutRecords
    BY DEF IInv, ClientTypes
  <2> QED
    BY <2>1 DEF PutStart, HostEnqueue, PutReply, PutWake, PutCancel, PutDrop, CleanOwner,
       CleanOwnerFails, CloseDrop, ShutRecords
<1> QED
  BY <1>1, <1>2, <1>3, SizeSame, TasksSame

LEMMA SizePacks ==
    ASSUME IInv, IInv', SizeFollows, TasksFollow, generation' >= generation,
           \/ GetRefused \/ Pack \/ PackNothing \/ PackingEnds \/ HostMarkPacked \/ HandOver
           \/ \E g \in Groups, next \in {"releasing", "stopped"} : Keep(g) \/ Discard(g, next)
    PROVE  SizeFollows' /\ TasksFollow'
<1>1. size' = size /\ resizes' = resizes /\ hosted' = hosted
  <2>1. CASE HostMarkPacked
    BY <2>1 DEF HostMarkPacked, Store!MarkPacked, Store!limitVars
  <2>2. CASE ~HostMarkPacked
    BY <2>2 DEF GetRefused, Pack, PackNothing, PackingEnds, HandOver, Keep, Discard, store
  <2> QED
    BY <2>1, <2>2
<1>2. get.pc \in Idle
  BY DEF GetRefused, Collecting, Pack, PackNothing, PackingEnds, Collected, HostMarkPacked,
     HandOver, Keep, Discard, Idle
<1>3. get.minimumTakeSize = 0 /\ get'.minimumTakeSize = 0 /\ get'.pc # "flush"
  <2>1. PICK pc : get' = At(pc) /\ pc # "flush"
    <3>1. CASE GetRefused \/ Pack \/ PackNothing \/ PackingEnds
      BY <3>1 DEF GetRefused, Pack, PackNothing, PackingEnds
    <3>2. CASE HostMarkPacked
      BY <3>2 DEF HostMarkPacked
    <3>3. CASE HandOver
      BY <3>3 DEF HandOver
    <3>4. CASE \E g \in Groups, next \in {"releasing", "stopped"} : Keep(g) \/ Discard(g, next)
      <4>1. PICK g \in Groups, next \in {"releasing", "stopped"} : Keep(g) \/ Discard(g, next)
        BY <3>4
      <4>2. CASE Keep(g)
        BY <4>2 DEF Keep
      <4>3. CASE Discard(g, next)
        BY <4>3 DEF Discard
      <4> QED
        BY <4>1, <4>2, <4>3
    <3> QED
      BY <3>1, <3>2, <3>3, <3>4
  <2> QED
    BY <1>2, <2>1, AtKeeps DEF SizeFollows
<1>4. shut'.closed = shut.closed
  BY DEF GetRefused, Pack, PackNothing, PackingEnds, HostMarkPacked, HandOver, Keep, Discard,
     IInv, ClientTypes, ShutRecords
<1> QED
  BY <1>1, <1>3, <1>4, SizeSame, TasksSame

LEMMA SizeOthers ==
    ASSUME IInv, IInv', SizeFollows, TasksFollow, generation' >= generation,
           \/ HostTake \/ GetWait \/ GetWake \/ TrainerRelease
           \/ \E r \in Releasers : HostRelease(r)
           \/ FinishStart \/ HostFinish \/ FinishReply
           \/ HostClose \/ CloseReply \/ CloseDrained \/ CloseEnd
    PROVE  SizeFollows' /\ TasksFollow'
<1>1. size' = size /\ resizes' = resizes /\ (hosted' => hosted)
  <2>1. CASE HostTake
    BY <2>1 DEF HostTake, Store!Take, Store!limitVars
  <2>2. CASE \E r \in Releasers : HostRelease(r)
    BY <2>2 DEF HostRelease, Store!Release, Store!limitVars
  <2>3. CASE HostFinish
    BY <2>3 DEF HostFinish, Store!Finish, Store!limitVars, store
  <2>4. CASE HostClose
    BY <2>4 DEF HostClose, Store!Close, Store!limitVars
  <2>5. CASE \/ GetWait \/ GetWake \/ TrainerRelease \/ FinishStart \/ FinishReply
             \/ CloseReply \/ CloseDrained \/ CloseEnd
    <3>1. UNCHANGED store /\ size' = size
      BY <2>5 DEF GetWait, GetWake, TrainerRelease, FinishStart, FinishReply, CloseReply,
         CloseDrained, CloseEnd
    <3> QED
      BY <3>1 DEF store
  <2> QED
    BY <2>1, <2>2, <2>3, <2>4, <2>5
<1>2. get \in GetRecords /\ shut \in ShutRecords
  BY DEF IInv, ClientTypes
<1>3. get'.minimumTakeSize = get.minimumTakeSize
      /\ (get'.pc = get.pc \/ get'.pc \notin Idle \cup {"flush"})
  <2>1. CASE HostTake
    BY <1>2, <2>1 DEF HostTake, GetRecords, Idle
  <2>2. CASE GetWait \/ GetWake
    BY <1>2, <2>2 DEF GetWait, GetWake, Taking, GetRecords, Idle
  <2>3. CASE FinishReply
    BY <2>3, NotifyKeeps DEF FinishReply, IInv
  <2>4. CASE \/ TrainerRelease \/ \E r \in Releasers : HostRelease(r)
             \/ FinishStart \/ HostFinish
             \/ HostClose \/ CloseReply \/ CloseDrained \/ CloseEnd
    BY <2>4 DEF TrainerRelease, HostRelease, FinishStart, HostFinish, HostClose, CloseReply,
       CloseDrained, CloseEnd
  <2> QED
    BY <2>1, <2>2, <2>3, <2>4
<1>4. shut'.closed = shut.closed
  BY <1>2 DEF HostTake, GetWait, GetWake, TrainerRelease, HostRelease, FinishStart, HostFinish,
     FinishReply, HostClose, CloseReply, CloseDrained, CloseEnd, ShutRecords
<1> QED
  BY <1>1, <1>3, <1>4, SizeSame, TasksSame

(* Leaving get_many.                                                       *)
LEMMA SizeEnds ==
    ASSUME IInv, IInv', SizeFollows, TasksFollow, NEW pc, pc # "flush", EndGet(pc), shut'.closed = shut.closed
    PROVE  SizeFollows' /\ TasksFollow'
<1>1. size.setting \in DOMAIN Settings /\ 0 \in 0..MaxSize
  BY Lengths, SettingFacts
<1>2. /\ get' = At(pc) /\ size' = Synced(0, size.setting)
      /\ IssueResize(0, size.setting)
  BY DEF EndGet
<1>3. size'.setting = size.setting /\ size'.effective = Target(0, size.setting)
  BY <1>1, <1>2, SyncedLimits
<1>4. DOMAIN size'.tasks = 1..Len(size'.tasks)
  BY LengthsNext
<1>5. get'.minimumTakeSize = 0 /\ get'.pc # "flush"
  BY <1>2, AtKeeps
<1> QED
  BY <1>1, <1>2, <1>3, <1>4, <1>5, SizeSynced, TasksSynced

LEMMA SizeGets ==
    ASSUME IInv, IInv', SizeFollows, TasksFollow, generation' >= generation,
           GetStart \/ GetReply \/ Withdrawn \/ CancelledReply
    PROVE  SizeFollows' /\ TasksFollow'
<1>0. get \in GetRecords /\ shut' = shut
  BY DEF IInv, ClientTypes, GetStart, GetReply, Withdrawn, CancelledReply
<1>1. CASE GetStart
  <2>1. CASE /\ get' = [At("flush") EXCEPT !.count = minBatch - held, !.wait = TRUE,
                                           !.minimumTakeSize = minBatch]
             /\ IssueResize(minBatch, size.setting)
             /\ size' = Collect("get", Synced(minBatch, size.setting))
    <3>1. size.setting \in DOMAIN Settings /\ minBatch \in 0..MaxSize
      BY Lengths, SettingFacts DEF minBatch
    <3> DEFINE z == Synced(minBatch, size.setting)
    <3>2. /\ z \in SizeRecords(DOMAIN resizes')
          /\ z.setting = size.setting /\ z.effective = Target(minBatch, size.setting)
      BY <2>1, <3>1, SyncedTypes, SyncedLimits DEF IInv
    <3> HIDE DEF z
    <3>3. size' = [z EXCEPT !.awaits["get"] = z.uncollected, !.uncollected = {}]
      BY <2>1 DEF Collect, z
    <3>4. /\ size'.setting = z.setting /\ size'.effective = z.effective
          /\ size'.tasks = z.tasks
      BY <3>2, <3>3 DEF SizeRecords
    <3>5. get'.minimumTakeSize = minBatch /\ get'.pc \notin Idle
      BY <2>1 DEF At, Idle
    <3>6. DOMAIN size'.tasks = 1..Len(size'.tasks)
      BY LengthsNext
    <3>7. SizeFollows'
      BY <1>0, <2>1, <3>1, <3>2, <3>4, <3>5, <3>6, SizeSynced DEF z
    <3>8. TasksFollow'
      <4>1. size'.uncollected = {} /\ size'.awaits["get"] = z.uncollected
        BY <3>2, <3>3 DEF SizeRecords
      <4>2. \A k \in z.uncollected : k \in DOMAIN z.tasks /\ z.tasks[k] \notin {"orphan", "lost"}
        <5>1. /\ Len(resizes) \in Nat /\ DOMAIN size.tasks = 1..Len(resizes)
              /\ size.uncollected \subseteq 1..Len(resizes)
          BY Lengths DEF SizeRecords
        <5>2. /\ \A k \in 1..Len(resizes) : z.tasks[k] = size.tasks[k]
              /\ \/ Len(z.tasks) = Len(resizes) /\ z.uncollected = size.uncollected
                 \/ /\ Len(z.tasks) = Len(resizes) + 1
                    /\ z.uncollected = size.uncollected \cup {Len(resizes) + 1}
                    /\ z.tasks[Len(resizes) + 1] = "sent"
          BY <2>1, <3>1, SyncedLimits DEF z
        <5>3. DOMAIN z.tasks = 1..Len(z.tasks)
          BY <3>4, <3>6
        <5> QED
          BY <5>1, <5>2, <5>3 DEF TasksFollow
      <4> QED
        BY <3>4, <4>1, <4>2 DEF TasksFollow
    <3> QED
      BY <3>7, <3>8
  <2>2. CASE get' = [Taking EXCEPT !.count = maxBatch - held] /\ UNCHANGED <<store, size>>
    <3>1. get'.minimumTakeSize = get.minimumTakeSize /\ get'.pc \notin Idle \cup {"flush"}
      BY <1>0, <2>2 DEF Taking, GetRecords, Idle
    <3>2. resizes' = resizes /\ hosted' = hosted
      BY <2>2 DEF store
    <3> QED
      BY <1>0, <2>2, <3>1, <3>2, SizeSame, TasksSame
  <2> QED
    BY <1>1, <2>1, <2>2 DEF GetStart
<1>2. CASE GetReply
  BY <1>0, <1>2, SizeEnds DEF GetReply
<1>3. CASE Withdrawn
  BY <1>0, <1>3, SizeEnds DEF Withdrawn
<1>4. CASE CancelledReply
  <2>1. CASE UNCHANGED <<store, size>> /\ get' = [get EXCEPT !.pc = "undoing", !.answer = None]
    <3>1. get'.minimumTakeSize = get.minimumTakeSize /\ get'.pc \notin Idle \cup {"flush"}
      BY <1>0, <2>1 DEF GetRecords, Idle
    <3>2. resizes' = resizes /\ hosted' = hosted
      BY <2>1 DEF store
    <3> QED
      BY <1>0, <2>1, <3>1, <3>2, SizeSame, TasksSame
  <2>2. CASE UNCHANGED <<store, size>>
             /\ get' = [get EXCEPT !.pc = "withdrawing", !.answer = None]
    <3>1. get'.minimumTakeSize = get.minimumTakeSize /\ get'.pc \notin Idle \cup {"flush"}
      BY <1>0, <2>2 DEF GetRecords, Idle
    <3>2. resizes' = resizes /\ hosted' = hosted
      BY <2>2 DEF store
    <3> QED
      BY <1>0, <2>2, <3>1, <3>2, SizeSame, TasksSame
  <2>3. CASE EndGet(IF TakeFailed THEN "stopped" ELSE "collect")
    BY <1>0, <2>3, SizeEnds
  <2> QED
    BY <1>4, <2>1, <2>2, <2>3 DEF CancelledReply
<1> QED
  BY <1>1, <1>2, <1>3, <1>4

(* The tasks a cancelled flush leaves behind.                              *)
LEMMA CancelledTasks ==
    ASSUME IInv, IInv', CancelFlush, IssueResize(0, size.setting)
    PROVE  LET z == Synced(0, size.setting) IN
           /\ size'.setting = z.setting /\ size'.effective = z.effective
           /\ size'.uncollected = z.uncollected
           /\ Len(size'.tasks) = Len(z.tasks) /\ DOMAIN size'.tasks = 1..Len(size'.tasks)
           /\ \A k \in 1..Len(resizes) :
                 \/ size.tasks[k] = "sent" /\ k \in size.awaits["get"]
                    /\ size'.tasks[k] \in {"lost", "orphan"}
                 \/ size.tasks[k] # "sent" /\ k \in size.awaits["get"]
                    /\ size'.tasks[k] = "done"
                 \/ size'.tasks[k] = size.tasks[k] /\ k \notin size.awaits["get"]
           /\ \A k \in (Len(resizes) + 1)..Len(z.tasks) : size'.tasks[k] = z.tasks[k]
<1> DEFINE ks == size.awaits["get"]
           z == Synced(0, size.setting)
           n == Len(size.tasks)
<1>0. /\ size.setting \in DOMAIN Settings /\ 0 \in 0..MaxSize
      /\ DOMAIN size.tasks = 1..n /\ n = Len(resizes) /\ n \in Nat
      /\ size.tasks \in Seq(TaskStates)
  BY Lengths, SettingFacts DEF SizeRecords
<1>1. z \in SizeRecords(DOMAIN resizes')
  BY <1>0, SyncedTypes DEF IInv
<1>2. /\ \A k \in 1..Len(resizes) : z.tasks[k] = size.tasks[k]
      /\ Len(z.tasks) = n \/ Len(z.tasks) = n + 1
  BY <1>0, SyncedLimits
<1>3. z.tasks \in Seq(TaskStates)
  BY <1>1 DEF SizeRecords
<1> HIDE DEF z
<1>4. PICK lost \in SUBSET {k \in ks : size.tasks[k] = "sent"} :
         size' = [z EXCEPT !.awaits["get"] = None,
                           !.tasks = CancelResizes(ks, lost)
                              \o SubSeq(z.tasks, n + 1, Len(z.tasks))]
  BY <1>1 DEF CancelFlush, z, SizeRecords
<1> DEFINE c == CancelResizes(ks, lost)
           r == SubSeq(z.tasks, n + 1, Len(z.tasks))
           t == c \o r
<1>5. c \in [1..n -> TaskStates]
  <2>1. \A k \in 1..n : size.tasks[k] \in TaskStates
    BY <1>0, ElementOfSeq
  <2> QED
    BY <1>0, <2>1 DEF CancelResizes, TaskStates
<1>6. \A k \in 1..n :
         \/ size.tasks[k] = "sent" /\ k \in ks /\ c[k] \in {"lost", "orphan"}
         \/ size.tasks[k] # "sent" /\ k \in ks /\ c[k] = "done"
         \/ c[k] = size.tasks[k] /\ k \notin ks
  BY <1>0 DEF CancelResizes
<1> HIDE DEF c
<1>7. c \in Seq(TaskStates) /\ Len(c) = n
  BY <1>0, <1>5, SeqDef, LenProperties
<1>8. /\ r \in Seq(TaskStates) /\ Len(r) = Len(z.tasks) - n
      /\ \A i \in 1..Len(r) : r[i] = z.tasks[n + i]
  <2>1. \A i \in (n + 1)..Len(z.tasks) : z.tasks[i] \in TaskStates
    BY <1>0, <1>2, <1>3, ElementOfSeq
  <2>2. /\ r \in Seq(TaskStates)
        /\ Len(r) = IF n + 1 <= Len(z.tasks) THEN Len(z.tasks) - (n + 1) + 1 ELSE 0
        /\ \A i \in 1..(Len(z.tasks) - (n + 1) + 1) : r[i] = z.tasks[(n + 1) + i - 1]
    BY <1>0, <1>2, <1>3, <2>1, SubSeqProperties
  <2>3. n \in Nat /\ Len(z.tasks) \in {n, n + 1}
    BY <1>0, <1>2
  <2> HIDE DEF r, n
  <2>4. Len(r) = Len(z.tasks) - n
    <3>1. Len(r) = IF n + 1 <= Len(z.tasks) THEN Len(z.tasks) - (n + 1) + 1 ELSE 0
      BY <2>2
    <3> QED
      BY <2>3, <3>1
  <2>5. ASSUME NEW i \in 1..Len(r) PROVE r[i] = z.tasks[n + i]
    <3>1. i \in 1..(Len(z.tasks) - (n + 1) + 1) /\ (n + 1) + i - 1 = n + i
      BY <2>3, <2>4
    <3> QED
      BY <2>2, <3>1
  <2> QED
    BY <2>2, <2>4, <2>5
<1> HIDE DEF r
<1>9. /\ Len(t) = Len(z.tasks)
      /\ \A k \in 1..n : t[k] = c[k]
      /\ \A k \in (n + 1)..Len(z.tasks) : t[k] = z.tasks[k]
  <2>1. /\ Len(t) = Len(c) + Len(r)
        /\ \A i \in 1..(Len(c) + Len(r)) : t[i] = IF i <= Len(c) THEN c[i] ELSE r[i - Len(c)]
    <3>1. c \in Seq(TaskStates) /\ r \in Seq(TaskStates)
      BY <1>7, <1>8
    <3> QED
      BY <3>1, ConcatProperties DEF t
  <2>2. Len(c) = n /\ Len(r) = Len(z.tasks) - n /\ Len(z.tasks) \in Nat /\ Len(z.tasks) >= n
        /\ Len(c) + Len(r) = Len(z.tasks)
    BY <1>0, <1>2, <1>7, <1>8
  <2>3. \A k \in 1..n : t[k] = c[k]
    BY <1>0, <2>1, <2>2
  <2>4. ASSUME NEW k \in (n + 1)..Len(z.tasks) PROVE t[k] = z.tasks[k]
    <3>1. k \in 1..(Len(c) + Len(r)) /\ ~(k <= Len(c)) /\ k - n \in 1..Len(r)
          /\ n + (k - n) = k /\ k - Len(c) = k - n
      BY <1>0, <2>2
    <3>2. t[k] = r[k - n]
      BY <2>1, <3>1
    <3>3. r[k - n] = z.tasks[n + (k - n)]
      BY <1>8, <3>1
    <3> QED
      BY <3>1, <3>2, <3>3
  <2> QED
    BY <2>1, <2>2, <2>3, <2>4
<1> DEFINE y == [z EXCEPT !.awaits["get"] = None]
<1> HIDE DEF t
<1>10. size' = [y EXCEPT !.tasks = t]
  BY <1>4 DEF t, c, r
<1>11. /\ size'.setting = z.setting /\ size'.effective = z.effective
       /\ size'.uncollected = z.uncollected /\ size'.tasks = t
  <2>1. y \in SizeRecords(DOMAIN resizes') /\ y.setting = z.setting
        /\ y.effective = z.effective /\ y.uncollected = z.uncollected
    BY <1>1 DEF SizeRecords
  <2> HIDE DEF y
  <2> QED
    BY <1>10, <2>1 DEF SizeRecords
<1>12. DOMAIN size'.tasks = 1..Len(size'.tasks)
  BY LengthsNext
<1> QED
  BY <1>0, <1>6, <1>9, <1>11, <1>12 DEF z

LEMMA SizeCancels ==
    ASSUME IInv, IInv', SizeFollows, TasksFollow, generation' >= generation, GetCancel
    PROVE  SizeFollows' /\ TasksFollow'
<1>0. shut' = shut /\ get \in GetRecords
  BY DEF GetCancel, IInv, ClientTypes
<1>1. CASE /\ get.pc = "flush" /\ get' = At("collect") /\ CancelFlush
           /\ IssueResize(0, size.setting)
  <2> DEFINE z == Synced(0, size.setting)
             n == Len(resizes)
  <2>0. /\ size.setting \in DOMAIN Settings /\ 0 \in 0..MaxSize
        /\ n \in Nat /\ DOMAIN size.tasks = 1..n /\ size.uncollected \subseteq 1..n
        /\ size.tasks \in Seq(TaskStates) /\ Len(size.tasks) = n
    BY Lengths, SettingFacts DEF SizeRecords
  <2>1. /\ z.setting = size.setting /\ z.effective = Target(0, size.setting)
        /\ \A k \in 1..n : z.tasks[k] = size.tasks[k]
        /\ \/ Len(z.tasks) = n /\ z.uncollected = size.uncollected
           \/ /\ Len(z.tasks) = n + 1 /\ z.uncollected = size.uncollected \cup {n + 1}
              /\ z.tasks[n + 1] = "sent"
    BY <1>1, <2>0, SyncedLimits
  <2>2. /\ size'.setting = z.setting /\ size'.effective = z.effective
        /\ size'.uncollected = z.uncollected
        /\ Len(size'.tasks) = Len(z.tasks) /\ DOMAIN size'.tasks = 1..Len(size'.tasks)
        /\ \A k \in 1..n :
              \/ size.tasks[k] = "sent" /\ k \in size.awaits["get"]
                 /\ size'.tasks[k] \in {"lost", "orphan"}
              \/ size.tasks[k] # "sent" /\ k \in size.awaits["get"]
                 /\ size'.tasks[k] = "done"
              \/ size'.tasks[k] = size.tasks[k] /\ k \notin size.awaits["get"]
        /\ \A k \in (n + 1)..Len(z.tasks) : size'.tasks[k] = z.tasks[k]
    BY <1>1, CancelledTasks
  <2>3. \A k \in 1..n : size.tasks[k] \in TaskStates
    BY <2>0, ElementOfSeq
  <2> HIDE DEF z
  <2>4. get'.pc = "collect" /\ get'.minimumTakeSize = 0
    BY <1>1, AtKeeps
  <2>5. \A k \in 1..Len(size'.tasks) : size'.tasks[k] \in {"replied", "done"} =>
           z.tasks[k] \in {"replied", "done"}
    <3>1. \A k \in size.awaits["get"] : size.tasks[k] \notin {"orphan", "lost"}
      BY <1>1 DEF TasksFollow
    <3>2. ASSUME NEW k \in 1..n, size'.tasks[k] \in {"replied", "done"}
          PROVE  z.tasks[k] \in {"replied", "done"}
      <4>1. CASE size.tasks[k] # "sent" /\ k \in size.awaits["get"]
        BY <2>1, <2>3, <3>1, <4>1 DEF TaskStates
      <4>2. CASE size'.tasks[k] = size.tasks[k]
        BY <2>1, <3>2, <4>2
      <4> QED
        BY <2>2, <3>2, <4>1, <4>2
    <3>3. ASSUME NEW k \in 1..Len(size'.tasks), k \notin 1..n
          PROVE  size'.tasks[k] = z.tasks[k]
      <4>1. k \in (n + 1)..Len(z.tasks)
        <5>1. Len(z.tasks) \in {n, n + 1} /\ Len(size'.tasks) = Len(z.tasks)
          BY <2>1, <2>2
        <5> QED
          BY <2>0, <3>3, <5>1
      <4> QED
        BY <2>2, <4>1
    <3>4. ASSUME NEW k \in 1..Len(size'.tasks), size'.tasks[k] \in {"replied", "done"}
          PROVE  z.tasks[k] \in {"replied", "done"}
      <4>1. CASE k \in 1..n
        BY <3>2, <3>4, <4>1
      <4>2. CASE k \notin 1..n
        BY <3>3, <3>4, <4>2
      <4> QED
        BY <4>1, <4>2
    <3> QED
      BY <3>4
  <2>6. SizeFollows'
    BY <1>0, <1>1, <2>0, <2>1, <2>2, <2>4, <2>5, SizeSynced DEF z
  <2>7. TasksFollow'
    <3>1. \A k \in size.uncollected :
             k \notin size.awaits["get"] /\ size.tasks[k] \notin {"orphan", "lost"}
      BY <1>1 DEF TasksFollow
    <3>2. \A k \in size.uncollected : size'.tasks[k] \notin {"orphan", "lost"}
      BY <2>0, <2>2, <3>1
    <3>3. \A k \in size'.uncollected : size'.tasks[k] \notin {"orphan", "lost"}
      BY <2>0, <2>1, <2>2, <3>2
    <3> QED
      BY <2>4, <3>3 DEF TasksFollow
  <2> QED
    BY <2>6, <2>7
<1>2. CASE \/ get.pc = "waiting" /\ get' = [get EXCEPT !.pc = "withdrawing"]
              /\ UNCHANGED <<store, size>>
           \/ get.pc \in {"taking", "taken"} /\ get' = [get EXCEPT !.cancelled = TRUE]
              /\ UNCHANGED <<store, size>>
  <2>1. /\ get'.minimumTakeSize = get.minimumTakeSize
        /\ get'.pc = get.pc \/ get'.pc \notin Idle \cup {"flush"}
    BY <1>0, <1>2 DEF GetRecords, Idle
  <2>2. resizes' = resizes /\ hosted' = hosted /\ size' = size
    BY <1>2 DEF store
  <2> QED
    BY <1>0, <2>1, <2>2, SizeSame, TasksSame
<1> QED
  BY <1>1, <1>2 DEF GetCancel

LEMMA SizeReleases ==
    ASSUME IInv, IInv', SizeFollows, TasksFollow, generation' >= generation,
           NEW r \in Releasers, ReleaseReply(r)
    PROVE  SizeFollows' /\ TasksFollow'
<1>1. shut'.closed = shut.closed
  BY DEF ReleaseReply, IInv, ClientTypes, ShutRecords
<1>2. CASE r = "trainer"
  <2>1. UNCHANGED <<store, get, size>>
    BY <1>2 DEF ReleaseReply
  <2>2. resizes' = resizes /\ hosted' = hosted
    BY <2>1 DEF store
  <2> QED
    BY <1>1, <2>1, <2>2, SizeSame, TasksSame
<1>3. CASE r # "trainer"
  <2>1. PICK pc : EndGet(pc) /\ pc \in {"stopped", "examine", "collect"}
    BY <1>3 DEF ReleaseReply, AfterRelease
  <2> QED
    BY <1>1, <2>1, SizeEnds
<1> QED
  BY <1>2, <1>3

LEMMA SizeSets ==
    ASSUME IInv, IInv', SizeFollows, TasksFollow, SetMaxsize
    PROVE  SizeFollows' /\ TasksFollow'
<1> DEFINE m == get.minimumTakeSize
           s == size.setting + 1
<1>1. /\ size.setting < Len(Settings) /\ size' = Synced(m, s) /\ IssueResize(m, s)
      /\ get' = get /\ shut' = shut
  BY DEF SetMaxsize
<1>2. m \in 0..MaxSize /\ s \in DOMAIN Settings
  <2>1. Settings \in Seq([maxsize : Nat \ {0}, minBatch : Nat \ {0},
                          maxBatch : Nat \ {0}])
    BY SettingsAssumption
  <2>2. Len(Settings) \in Nat /\ DOMAIN Settings = 1..Len(Settings)
    BY <2>1, LenProperties
  <2>3. size.setting \in DOMAIN Settings /\ m \in 0..MaxSize
    BY Lengths DEF IInv, ClientTypes, GetRecords
  <2> QED
    BY <1>1, <2>2, <2>3
<1>3. get'.pc \in Idle => m = 0
  BY <1>1 DEF SizeFollows
<1>4. get'.minimumTakeSize = m /\ get'.pc = get.pc /\ shut'.closed = shut.closed
  BY <1>1
<1> HIDE DEF m, s
<1>5. size'.setting = s /\ size'.effective = Target(m, s)
  BY <1>1, <1>2, SyncedLimits
<1>6. DOMAIN size'.tasks = 1..Len(size'.tasks)
  BY LengthsNext
<1>7. SizeFollows'
  BY <1>1, <1>2, <1>3, <1>4, <1>5, <1>6, SizeSynced
<1>8. TasksFollow'
  BY <1>1, <1>2, <1>4, TasksSynced
<1> QED
  BY <1>7, <1>8

(* Steps of a flush: the tasks change hands.                               *)
LEMMA CollectFields ==
    ASSUME IInv, NEW f \in {"get", "snapshot", "close"}
    PROVE  LET c == Collect(f, size)
               d == FlushDone(f) IN
           /\ c.setting = size.setting /\ c.effective = size.effective
           /\ c.tasks = size.tasks /\ c.uncollected = {}
           /\ c.awaits[f] = size.uncollected
           /\ \A e \in {"get", "snapshot", "close"} \ {f} : c.awaits[e] = size.awaits[e]
           /\ d.setting = size.setting /\ d.effective = size.effective
           /\ d.tasks = size.tasks /\ d.uncollected = size.uncollected
           /\ d.awaits[f] = None
           /\ \A e \in {"get", "snapshot", "close"} \ {f} : d.awaits[e] = size.awaits[e]
<1>1. size \in SizeRecords(DOMAIN resizes)
  BY Lengths
<1> QED
  BY <1>1 DEF SizeRecords, Collect, FlushDone

LEMMA SizeFlushes ==
    ASSUME IInv, IInv', SizeFollows, TasksFollow,
           \/ FlushMore("get") \/ FlushMore("snapshot") \/ FlushMore("close")
           \/ GetFlushed \/ SnapshotStart \/ SnapshotEnds \/ CloseStart \/ CloseFlushed
    PROVE  SizeFollows' /\ TasksFollow'
<1>1. PICK f \in {"get", "snapshot", "close"} :
         \/ size' = Collect(f, size)
         \/ size' = FlushDone(f) /\ (f = "get" => GetFlushed)
  BY DEF FlushMore, GetFlushed, SnapshotStart, SnapshotEnds, CloseStart, CloseFlushed
<1>2. /\ size'.setting = size.setting /\ size'.effective = size.effective
      /\ size'.tasks = size.tasks
      /\ \/ size'.uncollected = size.uncollected
         \/ size'.uncollected = {}
      /\ \/ size'.awaits["get"] = size.awaits["get"]
         \/ size'.awaits["get"] = size.uncollected /\ size'.uncollected = {}
         \/ GetFlushed /\ size'.uncollected = size.uncollected
  BY <1>1, CollectFields
<1>3. /\ resizes' = resizes /\ hosted' = hosted /\ generation' = generation
  BY DEF FlushMore, GetFlushed, SnapshotStart, SnapshotEnds, CloseStart, CloseFlushed, store
<1>4. get \in GetRecords /\ shut \in ShutRecords /\ Len(resizes) \in Nat
      /\ DOMAIN size.tasks = 1..Len(resizes) /\ size.uncollected \subseteq 1..Len(resizes)
  BY Lengths DEF IInv, ClientTypes, SizeRecords
<1>5. /\ get'.minimumTakeSize = get.minimumTakeSize
      /\ get'.pc = get.pc \/ get'.pc = "taking"
  <2>1. CASE GetFlushed
    BY <1>4, <2>1 DEF GetFlushed, Taking, GetRecords
  <2>2. CASE CloseFlushed
    BY <2>2, NotifyKeeps DEF CloseFlushed, IInv
  <2>3. CASE ~GetFlushed /\ ~CloseFlushed
    BY <2>3 DEF FlushMore, SnapshotStart, SnapshotEnds, CloseStart
  <2> QED
    BY <2>1, <2>2, <2>3
<1>6. closed => shut'.closed
  BY <1>4 DEF FlushMore, GetFlushed, SnapshotStart, SnapshotEnds, CloseStart, CloseFlushed,
     closed, ShutRecords
<1>7. Target(get.minimumTakeSize, size.setting)' = Target(get.minimumTakeSize, size.setting)
  BY <1>2, <1>5 DEF Target
<1>8. SizeFollows'
  BY <1>2, <1>3, <1>5, <1>6, <1>7 DEF SizeFollows, closed, LimitAt, Idle
<1>9. TasksFollow'
  <2>1. CASE GetFlushed
    <3>1. get'.pc # "flush"
      BY <1>4, <2>1 DEF GetFlushed, Taking, GetRecords
    <3> QED
      BY <1>2, <3>1 DEF TasksFollow
  <2>2. CASE ~GetFlushed
    BY <1>2, <1>4, <1>5, <2>2 DEF TasksFollow
  <2> QED
    BY <2>1, <2>2
<1> QED
  BY <1>8, <1>9

(* A task of a resize goes on.                                             *)
LEMMA TaskFields ==
    ASSUME IInv, NEW k \in DOMAIN size.tasks, NEW t,
           size' = [size EXCEPT !.tasks[k] = t]
    PROVE  /\ size'.setting = size.setting /\ size'.effective = size.effective
           /\ size'.uncollected = size.uncollected /\ size'.awaits = size.awaits
           /\ DOMAIN size'.tasks = DOMAIN size.tasks /\ size'.tasks[k] = t
           /\ \A j \in DOMAIN size.tasks : j # k => size'.tasks[j] = size.tasks[j]
<1>1. size \in SizeRecords(DOMAIN resizes)
  BY Lengths
<1> QED
  BY <1>1 DEF SizeRecords

LEMMA SizeHostResizes ==
    ASSUME IInv, IInv', SizeFollows, TasksFollow, generation' >= generation,
           NEW k \in DOMAIN size.tasks, HostResize(k)
    PROVE  SizeFollows' /\ TasksFollow'
<1>0. DOMAIN size.tasks = 1..Len(resizes) /\ Len(resizes) \in Nat
      /\ generation \in Nat /\ generation' \in Nat /\ size \in SizeRecords(DOMAIN resizes)
  BY Lengths DEF IInv, StoreProofs!Inv, StoreProofs!TypeOK
<1> DEFINE t == IF size.tasks[k] = "sent" THEN "replied" ELSE "done"
<1>1. /\ size' = [size EXCEPT !.tasks[k] = t] /\ t \in {"replied", "done"}
      /\ get' = get /\ shut' = shut
      /\ IF hosted THEN Store!Resize(k) ELSE UNCHANGED store
  BY <1>0 DEF HostResize, SizeRecords
<1> HIDE DEF t
<1>2. /\ size'.setting = size.setting /\ size'.effective = size.effective
      /\ size'.uncollected = size.uncollected /\ size'.awaits = size.awaits
      /\ DOMAIN size'.tasks = DOMAIN size.tasks /\ size'.tasks[k] = t
      /\ \A j \in DOMAIN size.tasks : j # k => size'.tasks[j] = size.tasks[j]
  BY <1>1, TaskFields
<1>3. hosted' = hosted /\ resizes' = resizes /\ (hosted => generation' >= k)
  BY <1>0, <1>1 DEF Store!Resize, store
<1>4. hosted' => \A j \in DOMAIN size'.tasks :
                    size'.tasks[j] \in {"replied", "done"} => generation' >= j
  BY <1>0, <1>2, <1>3 DEF SizeFollows
<1>5. Target(get.minimumTakeSize, size.setting)' = Target(get.minimumTakeSize, size.setting)
  BY <1>1, <1>2 DEF Target
<1>6. SizeFollows'
  BY <1>1, <1>2, <1>3, <1>4, <1>5 DEF SizeFollows, closed, LimitAt
<1>7. TasksFollow'
  BY <1>1, <1>2 DEF TasksFollow
<1> QED
  BY <1>6, <1>7

LEMMA SizeReplies ==
    ASSUME IInv, IInv', SizeFollows, TasksFollow, NEW k \in DOMAIN size.tasks, ResizeReply(k)
    PROVE  SizeFollows' /\ TasksFollow'
<1>1. /\ size.tasks[k] = "replied" /\ size' = [size EXCEPT !.tasks[k] = "done"]
      /\ shut' = shut /\ NotifyItems
      /\ hosted' = hosted /\ resizes' = resizes /\ generation' = generation
  BY DEF ResizeReply, store
<1>2. /\ size'.setting = size.setting /\ size'.effective = size.effective
      /\ size'.uncollected = size.uncollected /\ size'.awaits = size.awaits
      /\ DOMAIN size'.tasks = DOMAIN size.tasks /\ size'.tasks[k] = "done"
      /\ \A j \in DOMAIN size.tasks : j # k => size'.tasks[j] = size.tasks[j]
  BY <1>1, TaskFields
<1>3. get'.pc = get.pc /\ get'.minimumTakeSize = get.minimumTakeSize
  BY <1>1, NotifyKeeps DEF IInv
<1>4. Target(get.minimumTakeSize, size.setting)' = Target(get.minimumTakeSize, size.setting)
  BY <1>2, <1>3 DEF Target
<1>5. SizeFollows'
  BY <1>1, <1>2, <1>3, <1>4 DEF SizeFollows, closed, LimitAt
<1>6. TasksFollow'
  <2>1. size.uncollected \subseteq DOMAIN size.tasks
    BY Lengths DEF SizeRecords
  <2> QED
    BY <1>2, <1>3, <2>1 DEF TasksFollow
<1> QED
  BY <1>5, <1>6

LEMMA SizeStutter ==
    ASSUME SizeFollows, TasksFollow, UNCHANGED vars
    PROVE  SizeFollows' /\ TasksFollow'
<1>1. /\ size' = size /\ get' = get /\ shut' = shut
      /\ resizes' = resizes /\ hosted' = hosted /\ generation' = generation
  BY DEF vars, store
<1>2. Target(get.minimumTakeSize, size.setting)' = Target(get.minimumTakeSize, size.setting)
  BY <1>1 DEF Target
<1> QED
  BY <1>1, <1>2 DEF SizeFollows, TasksFollow, closed, LimitAt

(* Every step keeps the limit and the client's idea of it.                 *)
LEMMA LimitNext ==
    ASSUME IInv, LInv, Next
    PROVE  LInv'
<1>1. IInv' /\ StoreMove
  BY NextHolds
<1>2. StoreProofs!LimitInForce' /\ generation' >= generation
  BY <1>1, InForceFollows DEF LInv
<1>3. SizeFollows /\ TasksFollow
  BY DEF LInv
<1>4. SizeFollows' /\ TasksFollow'
  <2>1. ASSUME NEW g \in Groups,
               \/ PutStep(g) \/ PutCancel(g) \/ CleanOwner(g) \/ CleanOwnerFails(g)
               \/ CloseDrop(g)
        PROVE  SizeFollows' /\ TasksFollow'
    BY <1>1, <1>2, <1>3, <2>1, SizePuts DEF PutStep
  <2>2. ASSUME NEW g \in Groups, Discard(g, "stopped")
        PROVE  SizeFollows' /\ TasksFollow'
    BY <1>1, <1>2, <1>3, <2>2, SizePacks
  <2>3. CASE GetStep
    <3>1. CASE GetRefused
      BY <1>1, <1>2, <1>3, <3>1, SizePacks
    <3>2. CASE HostTake \/ GetWait \/ GetWake
      BY <1>1, <1>2, <1>3, <3>2, SizeOthers
    <3>3. CASE FlushMore("get") \/ GetFlushed
      BY <1>1, <1>3, <3>3, SizeFlushes
    <3>4. CASE GetStart \/ GetReply \/ CancelledReply \/ Withdrawn
      BY <1>1, <1>2, <1>3, <3>4, SizeGets
    <3> QED
      BY <2>3, <3>1, <3>2, <3>3, <3>4 DEF GetStep
  <2>4. CASE GetCancel
    BY <1>1, <1>2, <1>3, <2>4, SizeCancels
  <2>5. CASE PackStep
    <3>1. \/ Pack \/ PackNothing \/ PackingEnds \/ HostMarkPacked \/ HandOver
          \/ \E g \in Groups, next \in {"releasing", "stopped"} : Keep(g) \/ Discard(g, next)
      BY <2>5 DEF PackStep
    <3> QED
      BY <1>1, <1>2, <1>3, <3>1, SizePacks
  <2>6. CASE TrainerRelease
    BY <1>1, <1>2, <1>3, <2>6, SizeOthers
  <2>7. ASSUME NEW r \in Releasers, ReleaseStep(r)
        PROVE  SizeFollows' /\ TasksFollow'
    <3>1. CASE HostRelease(r)
      BY <1>1, <1>2, <1>3, <3>1, SizeOthers
    <3>2. CASE ReleaseReply(r)
      BY <1>1, <1>2, <1>3, <3>2, SizeReleases
    <3> QED
      BY <2>7, <3>1, <3>2 DEF ReleaseStep
  <2>8. CASE SetMaxsize
    BY <1>1, <1>3, <2>8, SizeSets
  <2>9. ASSUME NEW k \in DOMAIN size.tasks, ResizeStep(k)
        PROVE  SizeFollows' /\ TasksFollow'
    BY <1>1, <1>2, <1>3, <2>9, SizeHostResizes, SizeReplies DEF ResizeStep
  <2>10. CASE SnapshotStart \/ FlushMore("snapshot") \/ SnapshotEnds
    BY <1>1, <1>3, <2>10, SizeFlushes
  <2>11. CASE FinishStart \/ HostFinish \/ FinishReply
    BY <1>1, <1>2, <1>3, <2>11, SizeOthers
  <2>12. CASE CloseStep
    <3>1. CASE CloseStart \/ FlushMore("close") \/ CloseFlushed
      BY <1>1, <1>3, <3>1, SizeFlushes
    <3>2. CASE HostClose \/ CloseReply \/ CloseDrained \/ CloseEnd
      BY <1>1, <1>2, <1>3, <3>2, SizeOthers
    <3> QED
      BY <2>1, <2>12, <3>1, <3>2 DEF CloseStep
  <2> QED
    BY <2>1, <2>2, <2>3, <2>4, <2>5, <2>6, <2>7, <2>8, <2>9, <2>10, <2>11, <2>12 DEF Next
<1> QED
  BY <1>2, <1>4 DEF LInv

LEMMA LimitInit == Init => LInv
<1> SUFFICES ASSUME Init PROVE LInv
  OBVIOUS
<1>1. StoreProofs!LimitInForce
  BY DEF Init, Store!Init, StoreProofs!LimitInForce
<1>2. /\ size.setting = 1 /\ size.effective = Settings[1].maxsize /\ size.tasks = <<>>
      /\ size.uncollected = {} /\ get = At("collect") /\ resizes = <<>>
  BY DEF Init, Store!Init
<1>3. /\ get.pc = "collect" /\ get.minimumTakeSize = 0
  BY <1>2, AtKeeps
<1>4. Len(resizes) = 0 /\ DOMAIN size.tasks = {}
  BY <1>2
<1>5. Target(0, 1) = Settings[1].maxsize
  <2>1. Settings[1].maxsize \in Nat
    BY SettingFacts
  <2> QED
    BY <2>1, MaxOfTwo DEF Target
<1> QED
  BY <1>1, <1>2, <1>3, <1>4, <1>5 DEF LInv, SizeFollows, TasksFollow, LimitAt

(* The limit the client works with and the one the host works with follow  *)
(* the resizes in every reachable state.                                   *)
THEOREM LimitInvariant == Spec => [](IInv /\ LInv)
<1>1. IInv /\ LInv /\ [Next]_vars => LInv'
  <2> SUFFICES ASSUME IInv, LInv, [Next]_vars PROVE LInv'
    OBVIOUS
  <2>1. CASE Next
    BY <2>1, LimitNext
  <2>2. CASE UNCHANGED vars
    <3>1. SizeFollows' /\ TasksFollow'
      BY <2>2, SizeStutter DEF LInv
    <3>2. StoreProofs!LimitInForce'
      BY <2>2, StutterHolds, InForceFollows DEF LInv
    <3> QED
      BY <3>1, <3>2 DEF LInv
  <2> QED
    BY <2>1, <2>2
<1> QED
  BY Invariant, LimitInit, <1>1, PTL DEF Spec

(* When every resize task is done the host works with the client's target, *)
(* in whatever order the resizes were handled, and whoever was cancelled.  *)
THEOREM LimitSettles == Spec => []LimitConverges
<1>1. IInv /\ LInv => LimitConverges
  <2> SUFFICES ASSUME IInv, LInv PROVE LimitConverges
    OBVIOUS
  <2>1. size.effective = Max({maxsize, get.minimumTakeSize})
    BY DEF LInv, SizeFollows, Target, maxsize
  <2>2. ASSUME hosted, ~closed, \A k \in DOMAIN size.tasks : size.tasks[k] = "done"
        PROVE  maxReadyGroups = size.effective
    <3> DEFINE n == Len(resizes)
    <3>1. /\ n \in Nat /\ DOMAIN size.tasks = 1..n /\ generation \in 0..n
      BY Lengths
    <3>2. size.effective = LimitAt(n)
      BY <2>2 DEF LInv, SizeFollows
    <3>3. n # 0 => generation >= n
      BY <2>2, <3>1 DEF LInv, SizeFollows
    <3>4. generation = n
      BY <3>1, <3>3
    <3> QED
      BY <3>2, <3>4 DEF LInv, StoreProofs!LimitInForce, LimitAt
  <2> QED
    BY <2>1, <2>2 DEF LimitConverges
<1> QED
  BY LimitInvariant, <1>1, PTL

-----------------------------------------------------------------------------
(* The minimum of a batch.                                                 *)

LEMMA GetFacts ==
    ASSUME IInv
    PROVE  /\ get \in GetRecords /\ get.count \in Nat /\ get.minimumTakeSize \in Nat
           /\ get.after \in Nat /\ held \in Nat /\ get.wait \in BOOLEAN
           /\ get.answer # None => get.answer \in Answers
           /\ hosted /\ get.pc # "stopped" => ~closed /\ shut.closing = "open"
           /\ pendingMinimum # None => pendingMinimum.consumer = ConsumerId
           /\ DOMAIN size.tasks = DOMAIN resizes /\ DOMAIN resizes = 1..Len(resizes)
           /\ Len(resizes) \in Nat /\ generation \in 0..Len(resizes)
           /\ maxReadyGroups \in Nat \ {0} /\ used.schedule \in Schedules
           /\ \A k \in DOMAIN resizes : resizes[k] \in Nat
<1>1. MaxSize \in Nat
  BY SettingFacts
<1>2. get \in GetRecords /\ held \in Nat /\ used.schedule \in Schedules
  BY HeldType DEF IInv, ClientTypes, UsedRecords
<1>3. hosted /\ get.pc # "stopped" => ~closed /\ shut.closing = "open"
  BY DEF IInv, ShutFollows
<1>4. pendingMinimum # None => pendingMinimum.consumer = ConsumerId
  BY DEF IInv, StoreProofs!Inv, StoreProofs!TypeOK
<1>5. \A k \in DOMAIN resizes : resizes[k] \in Nat
  BY <1>1, Lengths
<1> QED
  BY <1>1, <1>2, <1>3, <1>4, <1>5, Lengths DEF GetRecords

(* A step that leaves get_many and what the host knows of it alone.        *)
LEMMA MinimumSame ==
    ASSUME IInv, MInv,
           get'.pc = get.pc, get'.count = get.count, get'.wait = get.wait,
           get'.after = get.after, get'.answer = get.answer,
           get'.minimumTakeSize = get.minimumTakeSize, stage'.batch = stage.batch,
           \/ /\ pendingMinimum' = pendingMinimum /\ (minimumError => minimumError')
              /\ (hosted' => hosted)
           \/ get.answer = None /\ ~hosted',
           UNCHANGED <<resizes, maxReadyGroups, generation>>,
           DOMAIN size'.tasks = DOMAIN size.tasks,
           \A k \in DOMAIN size.tasks : size.tasks[k] = "lost" => size'.tasks[k] = "lost",
           used'.schedule = used.schedule
    PROVE  MInv'
<1>0. /\ DOMAIN size.tasks = DOMAIN resizes /\ held' = held /\ (ResizeLost => ResizeLost')
  BY GetFacts DEF held, ResizeLost
<1>1. Store!Request(ConsumerId, get.count)' = Store!Request(ConsumerId, get.count)
  BY DEF Store!Request, Store!Limit
<1>2. MinimumFollows'
  BY <1>0, <1>1 DEF MInv, MinimumFollows
<1>3. AnswerFollows'
  BY <1>0 DEF MInv, AnswerFollows
<1>4. RoomFollows'
  BY <1>0 DEF MInv, RoomFollows, Ahead, LimitAt
<1> QED
  BY <1>2, <1>3, <1>4 DEF MInv

(* A step that is outside the wait for a minimum, or leaves it.            *)
LEMMA MinimumEnds ==
    ASSUME IInv,
           get'.pc \notin Waits \cup {"flush"}, get'.answer = None,
           get'.pc \in Idle => ~get'.wait,
           hosted => pendingMinimum = None \/ minimumError,
           pendingMinimum' = pendingMinimum, minimumError' = minimumError, hosted' = hosted
    PROVE  MInv'
<1>1. MinimumFollows'
  BY DEF MinimumFollows
<1>2. AnswerFollows'
  BY DEF AnswerFollows
<1>3. RoomFollows'
  BY DEF RoomFollows
<1> QED
  BY <1>1, <1>2, <1>3 DEF MInv

LEMMA MinimumPuts ==
    ASSUME IInv, MInv, NEW g \in Groups,
           \/ PutStart(g) \/ HostEnqueue(g) \/ PutReply(g) \/ PutWake(g) \/ PutCancel(g)
           \/ PutDrop(g) \/ CleanOwner(g) \/ CleanOwnerFails(g) \/ CloseDrop(g)
    PROVE  MInv'
<1>1. /\ size' = size /\ stage' = stage /\ hosted' = hosted
      /\ UNCHANGED <<resizes, maxReadyGroups, generation, pendingMinimum>>
      /\ minimumError => minimumError'
  <2>1. CASE HostEnqueue(g)
    BY <2>1 DEF HostEnqueue, Store!Enqueue, Store!limitVars, store
  <2>2. CASE ~HostEnqueue(g)
    <3>1. UNCHANGED <<store, size, stage>>
      BY <2>2 DEF PutStart, PutReply, PutWake, PutCancel, PutDrop, CleanOwner,
         CleanOwnerFails, CloseDrop
    <3> QED
      BY <3>1 DEF store
  <2> QED
    BY <2>1, <2>2
<1>2. /\ get'.pc = get.pc /\ get'.count = get.count /\ get'.wait = get.wait
      /\ get'.after = get.after /\ get'.answer = get.answer
      /\ get'.minimumTakeSize = get.minimumTakeSize
  <2>1. CASE PutReply(g)
    BY <2>1, NotifyKeeps DEF PutReply, IInv
  <2>2. CASE ~PutReply(g)
    BY <2>2 DEF PutStart, HostEnqueue, PutWake, PutCancel, PutDrop, CleanOwner,
       CleanOwnerFails, CloseDrop
  <2> QED
    BY <2>1, <2>2
<1>3. used'.schedule = used.schedule
  <2>1. used \in UsedRecords
    BY DEF IInv, ClientTypes
  <2> QED
    BY <2>1 DEF PutStart, HostEnqueue, PutReply, PutWake, PutCancel, PutDrop, CleanOwner,
       CleanOwnerFails, CloseDrop, DropFails, UsedRecords
<1> QED
  BY <1>1, <1>2, <1>3, MinimumSame

LEMMA MinimumOthers ==
    ASSUME IInv, MInv,
           \/ FlushMore("get") \/ FlushMore("snapshot") \/ FlushMore("close")
           \/ SnapshotStart \/ SnapshotEnds \/ CloseStart \/ CloseFlushed
           \/ TrainerRelease \/ \E r \in Releasers : HostRelease(r)
           \/ ReleaseReply("trainer")
           \/ \E k \in DOMAIN size.tasks : ResizeReply(k)
           \/ FinishStart \/ HostFinish \/ FinishReply
           \/ HostClose \/ CloseReply \/ CloseDrained \/ CloseEnd
    PROVE  MInv'
<1>1. /\ \/ pendingMinimum' = pendingMinimum /\ (minimumError => minimumError') /\ hosted' = hosted
         \/ HostClose /\ ~hosted'
      /\ UNCHANGED <<resizes, maxReadyGroups, generation>>
  <2>1. CASE \E r \in Releasers : HostRelease(r)
    BY <2>1 DEF HostRelease, Store!Release, Store!limitVars
  <2>2. CASE HostFinish
    BY <2>2 DEF HostFinish, Store!Finish, Store!limitVars, store
  <2>3. CASE HostClose
    BY <2>3 DEF HostClose, Store!Close, Store!limitVars
  <2>4. CASE ReleaseReply("trainer")
    BY <2>4 DEF ReleaseReply, store
  <2>5. CASE ~(\E r \in Releasers : HostRelease(r)) /\ ~HostFinish /\ ~HostClose
             /\ ~ReleaseReply("trainer")
    BY <2>5 DEF FlushMore, SnapshotStart, SnapshotEnds, CloseStart, CloseFlushed,
       TrainerRelease, ResizeReply, FinishStart, FinishReply, CloseReply, CloseDrained,
       CloseEnd, store
  <2> QED
    BY <2>1, <2>2, <2>3, <2>4, <2>5
<1>2. HostClose => get.answer = None
  BY DEF HostClose, IInv, ShutFollows, CallsFollow
<1>3. /\ get'.pc = get.pc /\ get'.count = get.count /\ get'.wait = get.wait
      /\ get'.after = get.after /\ get'.answer = get.answer
      /\ get'.minimumTakeSize = get.minimumTakeSize
  <2>1. NotifyItems \/ get' = get
    BY DEF FlushMore, SnapshotStart, SnapshotEnds, CloseStart, CloseFlushed,
       TrainerRelease, HostRelease, ReleaseReply, ResizeReply, FinishStart, HostFinish,
       FinishReply, HostClose, CloseReply, CloseDrained, CloseEnd
  <2> QED
    BY <2>1, NotifyKeeps DEF IInv
<1>4. stage'.batch = stage.batch /\ used' = used
  <2>1. stage \in StageRecords
    BY DEF IInv, ClientTypes
  <2> QED
    BY <2>1 DEF FlushMore, SnapshotStart, SnapshotEnds, CloseStart, CloseFlushed,
       TrainerRelease, HostRelease, ReleaseReply, ResizeReply, FinishStart, HostFinish,
       FinishReply, HostClose, CloseReply, CloseDrained, CloseEnd, StageRecords
<1>5. /\ DOMAIN size'.tasks = DOMAIN size.tasks
      /\ \A k \in DOMAIN size.tasks : size.tasks[k] = "lost" => size'.tasks[k] = "lost"
  <2>1. ASSUME NEW k \in DOMAIN size.tasks, ResizeReply(k)
        PROVE  <1>5!1 /\ <1>5!2
    <3>1. size' = [size EXCEPT !.tasks[k] = "done"] /\ size.tasks[k] = "replied"
      BY <2>1 DEF ResizeReply
    <3>2. /\ DOMAIN size'.tasks = DOMAIN size.tasks
          /\ \A j \in DOMAIN size.tasks : j # k => size'.tasks[j] = size.tasks[j]
      BY <3>1, TaskFields
    <3> QED
      BY <3>1, <3>2
  <2>2. CASE ~\E k \in DOMAIN size.tasks : ResizeReply(k)
    <3>1. \/ size' = size
          \/ \E f \in {"get", "snapshot", "close"} :
                size' = Collect(f, size) \/ size' = FlushDone(f)
      BY <2>2 DEF FlushMore, SnapshotStart, SnapshotEnds, CloseStart, CloseFlushed,
         TrainerRelease, HostRelease, ReleaseReply, FinishStart, HostFinish,
         FinishReply, HostClose, CloseReply, CloseDrained, CloseEnd
    <3>2. size'.tasks = size.tasks
      BY <3>1, CollectFields
    <3> QED
      BY <3>2
  <2> QED
    BY <2>1, <2>2
<1> QED
  BY <1>1, <1>2, <1>3, <1>4, <1>5, MinimumSame

(* Where get_many is not waiting for a minimum, the host keeps none.       *)
LEMMA NoneKept ==
    ASSUME MInv, get.pc \notin Waits \/ ~get.wait
    PROVE  hosted => pendingMinimum = None \/ minimumError
  BY DEF MInv, MinimumFollows

LEMMA MinimumLeft ==
    ASSUME IInv, NEW pc, pc \notin Waits \cup {"flush"}, EndGet(pc),
           hosted => pendingMinimum = None \/ minimumError
    PROVE  MInv'
<1>1. size.setting \in DOMAIN Settings /\ 0 \in 0..MaxSize
  BY Lengths, SettingFacts
<1>2. get' = At(pc) /\ IssueResize(0, size.setting)
  BY DEF EndGet
<1>3. UNCHANGED <<maxReadyGroups, generation, pendingMinimum, minimumError, hosted>>
  BY <1>1, <1>2, SyncedLimits
<1>4. get'.pc = pc /\ get'.wait = FALSE /\ get'.answer = None
  BY <1>2, AtKeeps
<1> QED
  BY <1>3, <1>4, MinimumEnds

LEMMA MinimumPacks ==
    ASSUME IInv, MInv,
           \/ GetRefused \/ Pack \/ PackNothing \/ PackingEnds \/ HostMarkPacked \/ HandOver
           \/ \E g \in Groups, next \in {"releasing", "stopped"} : Keep(g) \/ Discard(g, next)
    PROVE  MInv'
<1>1. UNCHANGED <<pendingMinimum, minimumError, hosted>>
  <2>1. CASE HostMarkPacked
    BY <2>1 DEF HostMarkPacked, Store!MarkPacked
  <2>2. CASE ~HostMarkPacked
    BY <2>2 DEF GetRefused, Pack, PackNothing, PackingEnds, HandOver, Keep, Discard, store
  <2> QED
    BY <2>1, <2>2
<1>2. get.pc \in Idle
  BY DEF GetRefused, Collecting, Pack, PackNothing, PackingEnds, Collected, HostMarkPacked,
     HandOver, Keep, Discard, Idle
<1>3. PICK pc : get' = At(pc) /\ pc \notin Waits \cup {"flush"}
  <2>1. CASE GetRefused \/ Pack \/ PackNothing \/ PackingEnds
    BY <2>1 DEF GetRefused, Pack, PackNothing, PackingEnds, Waits
  <2>2. CASE HostMarkPacked
    BY <2>2 DEF HostMarkPacked, Waits
  <2>3. CASE HandOver
    BY <2>3 DEF HandOver, Waits
  <2>4. ASSUME NEW g \in Groups, NEW next \in {"releasing", "stopped"},
               Keep(g) \/ Discard(g, next)
        PROVE  \E pc : get' = At(pc) /\ pc \notin Waits \cup {"flush"}
    <3>1. CASE Keep(g)
      <4> DEFINE q == IF stage.fetched = {g} THEN "collect" ELSE "examine"
      <4>1. get' = At(q) /\ q \notin Waits \cup {"flush"}
        BY <3>1 DEF Keep, Waits
      <4> QED
        BY <4>1
    <3>2. CASE Discard(g, next)
      BY <3>2 DEF Discard, Waits
    <3> QED
      BY <2>4, <3>1, <3>2
  <2> QED
    BY <2>1, <2>2, <2>3, <2>4
<1>4. hosted => pendingMinimum = None \/ minimumError
  BY <1>2, NoneKept DEF Idle, Waits
<1>5. get'.pc = pc /\ get'.wait = FALSE /\ get'.answer = None
  BY <1>3, AtKeeps
<1> QED
  BY <1>1, <1>3, <1>4, <1>5, MinimumEnds

(* An answer that ends get_many leaves no minimum at the host.             *)
LEMMA AnswerEnds ==
    ASSUME IInv, MInv, get.pc \in {"taken", "withdrawn"},
           \/ get.answer.groups # {} \/ get.answer.closed \/ TakeFailed \/ ~get.wait
           \/ get.pc = "withdrawn"
    PROVE  hosted => pendingMinimum = None \/ minimumError
<1>1. get.answer # None
  BY DEF IInv, CallsFollow
<1>2. get.answer.outcome
         \in {"leases", "pending", "cancelled", "lease_error", "capacity_error"}
  BY <1>1, GetFacts DEF Answers
<1>3. CASE get.pc = "withdrawn"
  BY <1>3, NoneKept DEF Waits
<1>4. CASE ~get.wait
  BY <1>4, NoneKept
<1>5. CASE get.answer.groups # {} \/ get.answer.closed
  BY <1>1, <1>5 DEF MInv, AnswerFollows
<1>6. CASE TakeFailed
  BY <1>1, <1>2, <1>6 DEF TakeFailed, MInv, AnswerFollows
<1> QED
  BY <1>3, <1>4, <1>5, <1>6

LEMMA MinimumReplies ==
    ASSUME IInv, MInv, GetReply \/ Withdrawn
    PROVE  MInv'
<1>1. PICK pc : pc \in {"examine", "stopped", "collected", "collect"} /\ EndGet(pc)
  <2>1. CASE GetReply
    BY <2>1 DEF GetReply
  <2>2. CASE Withdrawn
    BY <2>2 DEF Withdrawn
  <2> QED
    BY <2>1, <2>2
<1>2. hosted => pendingMinimum = None \/ minimumError
  BY AnswerEnds DEF GetReply, Withdrawn
<1> QED
  BY <1>1, <1>2, MinimumLeft DEF Waits

LEMMA MinimumReleases ==
    ASSUME IInv, MInv, NEW r \in Releasers, ReleaseReply(r)
    PROVE  MInv'
<1>1. CASE r = "trainer"
  BY <1>1, MinimumOthers
<1>2. CASE r = "packing"
  <2>1. PICK pc : EndGet(pc) /\ pc \in {"stopped", "examine", "collect"}
    BY <1>2 DEF ReleaseReply, AfterRelease
  <2>2. get.pc \in {"releasing", "undoing", "stopped"}
    <3>1. rel["packing"] # NoRelease
      BY <1>2 DEF ReleaseReply, NoRelease
    <3> QED
      BY <3>1 DEF IInv, CallsFollow
  <2>3. hosted => pendingMinimum = None \/ minimumError
    BY <2>2, NoneKept DEF Waits
  <2> QED
    BY <2>1, <2>3, MinimumLeft DEF Waits
<1> QED
  BY <1>1, <1>2 DEF Releasers

(* A step of get_many within its wait for a minimum.                       *)
LEMMA MinimumWithin ==
    ASSUME IInv, MInv, get.pc \in Waits \ {"taking"}, get'.pc \in Waits \ {"taking"},
           get'.count = get.count, get'.wait = get.wait, get'.answer = None,
           get'.minimumTakeSize = get.minimumTakeSize, get'.after = get.after,
           UNCHANGED <<store, size, stage, used>>
    PROVE  MInv'
<1>0. /\ held' = held /\ (ResizeLost <=> ResizeLost')
      /\ UNCHANGED <<pendingMinimum, minimumError, hosted, resizes, maxReadyGroups, generation>>
  BY DEF held, ResizeLost, store
<1>1. Store!Request(ConsumerId, get.count)' = Store!Request(ConsumerId, get.count)
  BY DEF Store!Request, Store!Limit
<1>2. MinimumFollows'
  BY <1>0, <1>1 DEF MInv, MinimumFollows, Waits, Idle
<1>3. AnswerFollows'
  BY DEF AnswerFollows
<1>4. RoomFollows'
  BY <1>0 DEF MInv, RoomFollows, Ahead, LimitAt
<1> QED
  BY <1>2, <1>3, <1>4 DEF MInv

LEMMA MinimumWaits ==
    ASSUME IInv, MInv, GetWait
    PROVE  MInv'
<1>1. get' = [get EXCEPT !.pc = "waiting", !.answer = None] /\ get.pc = "taken"
      /\ UNCHANGED <<store, size, stage, used>>
  BY DEF GetWait
<1>2. /\ get'.pc = "waiting" /\ get'.count = get.count /\ get'.wait = get.wait
      /\ get'.answer = None /\ get'.minimumTakeSize = get.minimumTakeSize
      /\ get'.after = get.after
  BY <1>1, GetFacts DEF GetRecords
<1> QED
  BY <1>1, <1>2, MinimumWithin DEF Waits

LEMMA MinimumCancelled ==
    ASSUME IInv, MInv, CancelledReply
    PROVE  MInv'
<1>0. get.pc = "taken" /\ get \in GetRecords /\ get.answer # None
  BY GetFacts DEF CancelledReply, IInv, CallsFollow
<1>1. CASE /\ get.answer.groups # {}
           /\ get' = [get EXCEPT !.pc = "undoing", !.answer = None]
           /\ UNCHANGED <<store, size>>
  <2>1. get'.pc = "undoing" /\ get'.answer = None
    BY <1>0, <1>1 DEF GetRecords
  <2>2. hosted => pendingMinimum = None \/ minimumError
    BY <1>0, <1>1, AnswerEnds
  <2>3. UNCHANGED <<pendingMinimum, minimumError, hosted>>
    BY <1>1 DEF store
  <2> QED
    BY <2>1, <2>2, <2>3, MinimumEnds DEF Waits, Idle
<1>2. CASE /\ get' = [get EXCEPT !.pc = "withdrawing", !.answer = None]
           /\ UNCHANGED <<store, size>>
  <2>1. UNCHANGED <<stage, used>>
    BY DEF CancelledReply
  <2>2. /\ get'.pc = "withdrawing" /\ get'.count = get.count /\ get'.wait = get.wait
        /\ get'.answer = None /\ get'.minimumTakeSize = get.minimumTakeSize
        /\ get'.after = get.after
    BY <1>0, <1>2 DEF GetRecords
  <2> QED
    BY <1>0, <1>2, <2>1, <2>2, MinimumWithin DEF Waits
<1>3. CASE /\ ~get.wait \/ get.answer.closed \/ TakeFailed
           /\ EndGet(IF TakeFailed THEN "stopped" ELSE "collect")
  <2>1. hosted => pendingMinimum = None \/ minimumError
    BY <1>0, <1>3, AnswerEnds
  <2>2. PICK pc : pc \in {"stopped", "collect"} /\ EndGet(pc)
    BY <1>3
  <2> QED
    BY <2>1, <2>2, MinimumLeft DEF Waits
<1> QED
  BY <1>1, <1>2, <1>3 DEF CancelledReply

LEMMA MinimumCancels ==
    ASSUME IInv, MInv, GetCancel
    PROVE  MInv'
<1>0. get \in GetRecords /\ stage' = stage /\ used'.schedule = used.schedule
  BY GetFacts DEF GetCancel, IInv, ClientTypes, UsedRecords
<1>1. CASE /\ get.pc = "flush" /\ get' = At("collect") /\ IssueResize(0, size.setting)
  <2>1. size.setting \in DOMAIN Settings /\ 0 \in 0..MaxSize
    BY Lengths, SettingFacts
  <2>2. UNCHANGED <<maxReadyGroups, generation, pendingMinimum, minimumError, hosted>>
    BY <1>1, <2>1, SyncedLimits
  <2>3. get'.pc = "collect" /\ get'.wait = FALSE /\ get'.answer = None
    BY <1>1, AtKeeps
  <2>4. hosted => pendingMinimum = None \/ minimumError
    BY <1>1, NoneKept DEF Waits
  <2> QED
    BY <2>2, <2>3, <2>4, MinimumEnds DEF Waits
<1>2. CASE /\ get.pc = "waiting" /\ get' = [get EXCEPT !.pc = "withdrawing"]
           /\ UNCHANGED <<store, size>>
  <2>1. /\ get'.pc = "withdrawing" /\ get'.count = get.count /\ get'.wait = get.wait
        /\ get'.answer = get.answer /\ get'.minimumTakeSize = get.minimumTakeSize
        /\ get'.after = get.after
    BY <1>0, <1>2 DEF GetRecords
  <2>2. get.answer = None
    BY <1>2 DEF IInv, CallsFollow
  <2>3. /\ held' = held /\ (ResizeLost <=> ResizeLost')
        /\ UNCHANGED <<pendingMinimum, minimumError, hosted, resizes, maxReadyGroups, generation>>
    BY <1>0, <1>2 DEF held, ResizeLost, store
  <2>4. Store!Request(ConsumerId, get.count)' = Store!Request(ConsumerId, get.count)
    BY <2>1 DEF Store!Request, Store!Limit
  <2>5. MinimumFollows'
    BY <1>2, <2>1, <2>3, <2>4 DEF MInv, MinimumFollows, Waits, Idle
  <2>6. AnswerFollows'
    BY <2>1, <2>2 DEF AnswerFollows
  <2>7. RoomFollows'
    BY <1>0, <1>2, <2>1, <2>3 DEF MInv, RoomFollows, Ahead, LimitAt, Waits
  <2> QED
    BY <2>5, <2>6, <2>7 DEF MInv
<1>3. CASE get' = [get EXCEPT !.cancelled = TRUE] /\ UNCHANGED <<store, size>>
  <2>1. /\ get'.pc = get.pc /\ get'.count = get.count /\ get'.wait = get.wait
        /\ get'.answer = get.answer /\ get'.minimumTakeSize = get.minimumTakeSize
        /\ get'.after = get.after
    BY <1>0, <1>3 DEF GetRecords
  <2>2. UNCHANGED <<pendingMinimum, minimumError, hosted, resizes, maxReadyGroups, generation>>
    BY <1>3 DEF store
  <2> QED
    BY <1>0, <1>3, <2>1, <2>2, MinimumSame
<1> QED
  BY <1>1, <1>2, <1>3 DEF GetCancel

(* The client's target has room for what it reserves, and the last resize  *)
(* it issued carries that target.                                          *)
LEMMA TargetHolds ==
    ASSUME IInv, LInv, hosted, get.pc # "stopped"
    PROVE  LimitAt(Len(resizes)) >= get.minimumTakeSize /\ LimitAt(Len(resizes)) \in Nat
<1>1. /\ get.minimumTakeSize \in Nat /\ get.minimumTakeSize \in 0..MaxSize
      /\ size.setting \in DOMAIN Settings /\ ~closed
  BY GetFacts, Lengths DEF GetRecords
<1>2. Settings[size.setting].maxsize \in Nat
  BY <1>1, SettingFacts
<1>3. LimitAt(Len(resizes)) = Max({Settings[size.setting].maxsize, get.minimumTakeSize})
  BY <1>1 DEF LInv, SizeFollows, Target
<1> QED
  BY <1>1, <1>2, <1>3, MaxOfTwo

LEMMA MinimumWakes ==
    ASSUME IInv, LInv, MInv, GetWake
    PROVE  MInv'
<1>0. /\ get \in GetRecords /\ get.pc = "waiting" /\ get.answer = None
      /\ get' = Taking /\ UNCHANGED <<store, size, stage, used>>
  BY GetFacts DEF GetWake, IInv, CallsFollow
<1>1. /\ get'.pc = "taking" /\ get'.count = get.count /\ get'.wait = get.wait
      /\ get'.answer = None /\ get'.minimumTakeSize = get.minimumTakeSize
      /\ get'.after = Len(resizes)
  BY <1>0 DEF GetRecords, Taking
<1>2. /\ held' = held /\ (ResizeLost <=> ResizeLost')
      /\ UNCHANGED <<pendingMinimum, minimumError, hosted, resizes, maxReadyGroups, generation>>
  BY <1>0 DEF held, ResizeLost, store
<1>3. Store!Request(ConsumerId, get.count)' = Store!Request(ConsumerId, get.count)
  BY <1>1 DEF Store!Request, Store!Limit
<1>4. MinimumFollows'
  BY <1>0, <1>1, <1>2, <1>3 DEF MInv, MinimumFollows, Waits, Idle
<1>5. AnswerFollows'
  BY <1>1 DEF AnswerFollows
<1>6. RoomFollows'
  <2>1. hosted => LimitAt(Len(resizes)) >= get.minimumTakeSize
    BY <1>0, TargetHolds
  <2>2. LimitAt(Len(resizes))' = LimitAt(Len(resizes))
    BY <1>2 DEF LimitAt
  <2>3. Len(resizes) \in Nat
    BY GetFacts
  <2> QED
    BY <1>0, <1>1, <1>2, <2>1, <2>2, <2>3 DEF MInv, RoomFollows, Ahead, LimitAt, Waits
<1> QED
  BY <1>4, <1>5, <1>6 DEF MInv

LEMMA MinimumStarts ==
    ASSUME IInv, MInv, GetStart
    PROVE  MInv'
<1>0. /\ get.pc = "collect" /\ get \in GetRecords /\ held \in Nat /\ get.answer = None
      /\ ~get.wait /\ stage' = stage
      /\ hosted => pendingMinimum = None \/ minimumError
  <2>1. get.pc = "collect" /\ stage' = stage
    BY DEF GetStart, Collecting
  <2> QED
    BY <2>1, GetFacts, NoneKept DEF IInv, CallsFollow, MInv, MinimumFollows, Waits, Idle
<1>1. size.setting \in DOMAIN Settings /\ minBatch \in 0..MaxSize /\ minBatch \in Nat
  <2>1. size.setting \in DOMAIN Settings
    BY Lengths
  <2>2. MaxSize \in Nat /\ minBatch \in 1..MaxSize
    BY <2>1, SettingFacts DEF minBatch
  <2> QED
    BY <2>1, <2>2
<1>2. CASE /\ held < minBatch
           /\ get' = [At("flush") EXCEPT !.count = minBatch - held, !.wait = TRUE,
                                         !.minimumTakeSize = minBatch]
           /\ IssueResize(minBatch, size.setting)
  <2>1. UNCHANGED <<pendingMinimum, minimumError, hosted>>
    BY <1>1, <1>2, SyncedLimits
  <2>2. /\ get'.pc = "flush" /\ get'.wait = TRUE /\ get'.count = minBatch - held
        /\ get'.minimumTakeSize = minBatch /\ get'.answer = None
    BY <1>2 DEF At
  <2>3. held' = held /\ minBatch - held > 0 /\ minBatch = (minBatch - held) + held
    BY <1>0, <1>1, <1>2 DEF held
  <2>4. MinimumFollows'
    BY <1>0, <2>1, <2>2, <2>3 DEF MinimumFollows, Waits, Idle
  <2>5. AnswerFollows' /\ RoomFollows'
    BY <2>2 DEF AnswerFollows, RoomFollows, Waits
  <2> QED
    BY <2>4, <2>5 DEF MInv
<1>3. CASE get' = [Taking EXCEPT !.count = maxBatch - held] /\ UNCHANGED <<store, size>>
  <2>1. UNCHANGED <<pendingMinimum, minimumError, hosted>>
    BY <1>3 DEF store
  <2>2. get'.pc = "taking" /\ get'.wait = get.wait /\ get'.answer = None
    BY <1>0, <1>3 DEF GetRecords, Taking
  <2>3. MinimumFollows'
    BY <1>0, <2>1, <2>2 DEF MinimumFollows, Idle
  <2>4. AnswerFollows' /\ RoomFollows'
    BY <1>0, <2>2 DEF AnswerFollows, RoomFollows
  <2> QED
    BY <2>3, <2>4 DEF MInv
<1> QED
  BY <1>2, <1>3 DEF GetStart

(* Once the flush is over, every resize has been handled, or the host is   *)
(* to handle it before the take that leaves now.                           *)
LEMMA MinimumFlushed ==
    ASSUME IInv, LInv, RInv, GetFlushed
    PROVE  MInv'
<1> DEFINE n == Len(resizes)
<1>0. /\ get.pc = "flush" /\ get \in GetRecords /\ get.answer = None
      /\ FlushEnds("get") /\ get' = Taking /\ size' = FlushDone("get")
      /\ UNCHANGED <<store, stage, used>>
  BY GetFacts DEF GetFlushed, IInv, CallsFollow
<1>1. /\ get'.pc = "taking" /\ get'.count = get.count /\ get'.wait = get.wait
      /\ get'.answer = None /\ get'.minimumTakeSize = get.minimumTakeSize
      /\ get'.after = n
  BY <1>0 DEF GetRecords, Taking
<1>2. size'.tasks = size.tasks
  BY <1>0, CollectFields
<1>3. /\ held' = held /\ used' = used
      /\ UNCHANGED <<pendingMinimum, minimumError, hosted, resizes, maxReadyGroups, generation>>
  BY <1>0 DEF held, store
<1>4. get.wait /\ get.count > 0 /\ get.minimumTakeSize = get.count + held
  BY <1>0 DEF RInv, MInv, MinimumFollows
<1>5. hosted => pendingMinimum = None \/ minimumError
  BY <1>0, NoneKept DEF RInv, Waits
<1>6. MinimumFollows'
  BY <1>1, <1>3, <1>4, <1>5 DEF MinimumFollows, Waits, Idle
<1>7. AnswerFollows'
  BY <1>1 DEF AnswerFollows
<1>9. /\ n = Len(resizes) /\ n \in Nat /\ generation \in 0..n /\ generation \in Nat
      /\ DOMAIN resizes = 1..n /\ DOMAIN size.tasks = 1..n
  BY GetFacts
<1> HIDE DEF n
<1>8. RoomFollows'
  <2> SUFFICES ASSUME hosted, ~minimumError PROVE RoomFollows'
    BY <1>3 DEF RoomFollows
  <2>1. n \in Nat /\ generation \in 0..n /\ DOMAIN resizes = 1..n
        /\ DOMAIN size.tasks = 1..n /\ generation \in Nat
    BY <1>9
  <2>3. LimitAt(n) >= get.minimumTakeSize /\ LimitAt(n) \in Nat
    BY <1>0, <1>9, TargetHolds
  <2>4. used.schedule.ordered \/ generation = n
    <3>1. SUFFICES ASSUME ~used.schedule.ordered PROVE generation = n
      OBVIOUS
    <3>2. shut.closing = "open"
      BY <1>0, GetFacts
    <3>3. \A k \in 1..n : size.tasks[k] = "done"
      BY <1>0, <2>1, <3>1, <3>2 DEF RInv, FlushFollows, FlushEnds, Flushed
    <3>4. \A k \in 1..n : generation >= k
      BY <2>1, <3>3 DEF LInv, SizeFollows
    <3> QED
      BY <2>1, <3>4
  <2>5. generation = n => maxReadyGroups = LimitAt(n)
    BY <2>1 DEF LInv, StoreProofs!LimitInForce, LimitAt
  <2>6. pendingMinimum = None
    BY <1>5
  <2>7. Ahead' <=> used.schedule.ordered
    BY <1>1, <1>3, <2>6 DEF Ahead
  <2>8. get'.after \in 0..Len(resizes') /\ LimitAt(get.after)' >= get'.minimumTakeSize
    <3>1. LimitAt(get.after)' = LimitAt(n)
      BY <1>1, <1>3 DEF LimitAt
    <3> QED
      BY <1>1, <1>3, <1>9, <2>3, <3>1
  <2>9. \A k \in 1..n : k > generation => used.schedule.ordered /\ k <= get'.after
    BY <1>1, <2>1, <2>4
  <2>10. maxReadyGroups >= get.minimumTakeSize \/ (used.schedule.ordered /\ generation < n)
    BY <2>1, <2>3, <2>4, <2>5
  <2> QED
    BY <1>1, <1>3, <2>1, <2>6, <2>7, <2>8, <2>9, <2>10 DEF RoomFollows
<1> QED
  BY <1>6, <1>7, <1>8 DEF MInv

(* By the time the host handles the take of a minimum, it has handled the  *)
(* resizes ahead of it, or they are lost.                                  *)
LEMMA HandledBefore ==
    ASSUME IInv, LInv, MInv, HostTake, hosted, ~minimumError, get.wait, get.pc = "taking"
    PROVE  /\ \A k \in DOMAIN resizes : k > generation =>
                 resizes[k] >= get.minimumTakeSize \/ size.tasks[k] = "lost"
           /\ ResizeLost \/ maxReadyGroups >= get.minimumTakeSize
<1>1. /\ DOMAIN size.tasks = DOMAIN resizes /\ DOMAIN resizes = 1..Len(resizes)
      /\ Len(resizes) \in Nat /\ generation \in Nat /\ get.after \in Nat
  BY GetFacts
<1>2. used.schedule.ordered => \A k \in 1..get.after : ~OnItsWay(k)
  BY DEF HostTake
<1>3. /\ get.after \in 0..Len(resizes)
      /\ \A k \in DOMAIN resizes : k > generation =>
            \/ resizes[k] >= get.minimumTakeSize \/ size.tasks[k] = "lost"
            \/ Ahead /\ k <= get.after
      /\ \/ ResizeLost \/ maxReadyGroups >= get.minimumTakeSize
         \/ Ahead /\ generation < get.after
  BY DEF MInv, RoomFollows, Waits
<1>4. \A k \in DOMAIN resizes : k > generation /\ Ahead /\ k <= get.after =>
         size.tasks[k] = "lost"
  <2>1. SUFFICES ASSUME NEW k \in DOMAIN resizes, k > generation, Ahead, k <= get.after
                 PROVE  size.tasks[k] = "lost"
    OBVIOUS
  <2>2. size.tasks[k] \notin {"sent", "orphan"}
    BY <1>1, <1>2, <2>1 DEF Ahead, OnItsWay
  <2>3. size.tasks[k] \notin {"replied", "done"}
    BY <1>1, <2>1 DEF LInv, SizeFollows
  <2>4. size.tasks[k] \in TaskStates
    <3>1. size.tasks \in Seq(TaskStates) /\ k \in 1..Len(size.tasks)
      BY <1>1, <2>1, Lengths DEF SizeRecords
    <3> QED
      BY <3>1, ElementOfSeq
  <2> QED
    BY <2>2, <2>3, <2>4 DEF TaskStates
<1>5. Ahead /\ generation < get.after => ResizeLost
  <2>1. SUFFICES ASSUME Ahead, generation < get.after PROVE ResizeLost
    OBVIOUS
  <2>2. get.after \in DOMAIN resizes
    BY <1>1, <1>3, <2>1
  <2> QED
    BY <1>1, <1>4, <2>1, <2>2 DEF ResizeLost
<1> QED
  BY <1>3, <1>4, <1>5

LEMMA MinimumTakes ==
    ASSUME IInv, LInv, MInv, HostTake
    PROVE  MInv'
<1> DEFINE n == IF get.pc = "withdrawing" THEN 0
                ELSE IF get.wait THEN get.count ELSE -get.count
           o == Store!TakeOutcome(ConsumerId, n)
           gs == IF o = "leases" THEN Store!Taken(n) ELSE {}
           c == Store!TakeClosed(ConsumerId, n)
           a == [outcome |-> o, groups |-> gs, closed |-> c]
           q == IF get.pc = "taking" THEN "taken" ELSE "withdrawn"
<1>0. /\ get.pc \in {"taking", "withdrawing"} /\ Store!Take(ConsumerId, n)
      /\ UNCHANGED <<stage, size, used>>
      /\ get \in GetRecords /\ get.count \in Nat /\ get.wait \in BOOLEAN
  BY GetFacts DEF HostTake
<1>1. get' = [get EXCEPT !.pc = q, !.answer = a]
  BY DEF HostTake
<1>2. /\ hosted /\ hosted' = hosted
      /\ UNCHANGED <<minimumError, resizes, maxReadyGroups, generation>>
      /\ o = "pending" => pendingMinimum' = Store!Request(ConsumerId, n)
      /\ o \in {"cancelled", "leases"} => pendingMinimum' = None
      /\ o \notin {"pending", "cancelled", "leases"} => pendingMinimum' = pendingMinimum
  BY <1>0 DEF Store!Take, Store!limitVars
<1>3. ResizeLost' = ResizeLost /\ held' = held
  BY <1>0 DEF ResizeLost, held
<1>4. get.pc = "withdrawing" => o = "cancelled"
  BY GetFacts DEF Store!TakeOutcome, Store!MayWithdraw
<1>5. get.pc = "taking" /\ ~get.wait => minimumError \/ o \in {"leases", "cancelled"}
  <2>1. SUFFICES ASSUME get.pc = "taking", ~get.wait, ~minimumError
                 PROVE  o \in {"leases", "cancelled"}
    OBVIOUS
  <2>2. pendingMinimum = None
    BY <1>2, <2>1, NoneKept
  <2>3. n = -get.count /\ n \in Int /\ n <= 0
    BY <1>0, <2>1
  <2> HIDE DEF n
  <2> QED
    BY <2>1, <2>2, <2>3 DEF Store!TakeOutcome, Store!MayWithdraw
<1>6. minimumError /\ get.pc = "taking" => o \in {"capacity_error", "cancelled"}
  BY GetFacts DEF Store!TakeOutcome, Store!MayWithdraw
<1>7. ASSUME get.pc = "taking", get.wait, ~minimumError
      PROVE  /\ n = get.count /\ o \in {"leases", "pending", "capacity_error"}
             /\ o = "capacity_error" => pendingMinimum = None /\ ResizeLost
             /\ o = "pending" => maxReadyGroups >= get.count
  <2>1. n = get.count /\ n > 0 /\ n \in Nat /\ get.minimumTakeSize = n + held
        /\ held \in Nat /\ maxReadyGroups \in Nat
    BY <1>0, <1>7, GetFacts DEF MInv, MinimumFollows, Waits
  <2> HIDE DEF n
  <2>2. pendingMinimum # None => pendingMinimum = Store!Request(ConsumerId, n)
    BY <1>2, <1>7, <2>1 DEF MInv, MinimumFollows
  <2>3. o \in {"leases", "pending", "capacity_error"}
    BY <1>7, <2>1, <2>2 DEF Store!TakeOutcome, Store!MayWithdraw
  <2>4. o = "capacity_error" => n > maxReadyGroups
    BY <1>7, <2>1, <2>2 DEF Store!TakeOutcome, Store!MayWithdraw
  <2>5. o = "pending" => n <= maxReadyGroups
    BY <1>7, <2>1, <2>2 DEF Store!TakeOutcome, Store!MayWithdraw
  <2>6. ResizeLost \/ maxReadyGroups >= get.minimumTakeSize
    BY <1>2, <1>7, HandledBefore
  <2>7. pendingMinimum # None => maxReadyGroups >= get.count
    BY <1>2, <1>7 DEF MInv, RoomFollows, Waits
  <2> QED
    BY <2>1, <2>3, <2>4, <2>5, <2>6, <2>7
<1>8. gs # {} => o = "leases"
  OBVIOUS
<1>9. c => o \in {"leases", "cancelled"}
  BY DEF Store!TakeClosed
<1>10. q \in {"taken", "withdrawn"} /\ (q = "taken" <=> get.pc = "taking")
  BY <1>0
<1>11. o \in {"leases", "pending", "cancelled", "capacity_error", "lease_error"}
  BY DEF Store!TakeOutcome, Store!MayWithdraw
<1>12. a.outcome = o /\ a.groups = gs /\ a.closed = c
  OBVIOUS
<1> HIDE DEF n, o, gs, c, a, q
<1>13. /\ get'.pc = q /\ get'.count = get.count /\ get'.wait = get.wait
       /\ get'.answer = a /\ get'.minimumTakeSize = get.minimumTakeSize
       /\ get'.after = get.after
  BY <1>0, <1>1 DEF GetRecords
<1>14. Store!Request(ConsumerId, get.count)' = Store!Request(ConsumerId, get.count)
  BY <1>13 DEF Store!Request, Store!Limit
<1>15. MinimumFollows'
  <2>1. /\ get'.pc \notin Idle \cup {"flush"}
        /\ get'.wait /\ get'.pc \in Waits \cup {"flush"} =>
              get'.count > 0 /\ get'.minimumTakeSize = get'.count + held'
    BY <1>0, <1>3, <1>10, <1>13 DEF MInv, MinimumFollows, Waits, Idle
  <2>2. hosted' /\ pendingMinimum' # None /\ ~minimumError' =>
           /\ get'.wait /\ get'.pc \in Waits
           /\ pendingMinimum' = Store!Request(ConsumerId, get.count)'
    BY <1>0, <1>2, <1>4, <1>5, <1>7, <1>10, <1>13, <1>14 DEF Waits
  <2> QED
    BY <2>1, <2>2 DEF MinimumFollows
<1>16. AnswerFollows'
  <2>1. o # "lease_error"
    BY <1>0, <1>4, <1>5, <1>6, <1>7
  <2>2. o = "capacity_error" =>
           minimumError' \/ (pendingMinimum' = None /\ ResizeLost')
    BY <1>0, <1>2, <1>3, <1>4, <1>5, <1>7
  <2> QED
    BY <1>0, <1>2, <1>4, <1>8, <1>9, <1>10, <1>12, <1>13, <2>1, <2>2 DEF AnswerFollows
<1>17. RoomFollows'
  <2> SUFFICES ASSUME ~minimumError, get.wait, q = "taken" PROVE RoomFollows'
    BY <1>2, <1>10, <1>13 DEF RoomFollows, Waits
  <2>1. get.pc = "taking"
    BY <1>10
  <2>2. /\ \A k \in DOMAIN resizes : k > generation =>
              resizes[k] >= get.minimumTakeSize \/ size.tasks[k] = "lost"
        /\ ResizeLost \/ maxReadyGroups >= get.minimumTakeSize
    BY <1>2, <2>1, HandledBefore
  <2>3. pendingMinimum' # None => maxReadyGroups >= get.count
    BY <1>2, <1>7, <2>1
  <2> QED
    BY <1>0, <1>2, <1>3, <1>13, <2>2, <2>3 DEF RoomFollows
<1> QED
  BY <1>15, <1>16, <1>17 DEF MInv

LEMMA MinimumSets ==
    ASSUME IInv, MInv, SetMaxsize
    PROVE  MInv'
<1> DEFINE m == get.minimumTakeSize
           s == size.setting + 1
           z == Synced(m, s)
           n == Len(resizes)
<1>0. /\ size.setting < Len(Settings) /\ size' = z /\ IssueResize(m, s)
      /\ get' = get /\ stage' = stage /\ used' = used
  BY DEF SetMaxsize
<1>1. m \in 0..MaxSize /\ s \in DOMAIN Settings
  <2>1. Settings \in Seq([maxsize : Nat \ {0}, minBatch : Nat \ {0},
                          maxBatch : Nat \ {0}])
    BY SettingsAssumption
  <2>2. Len(Settings) \in Nat /\ DOMAIN Settings = 1..Len(Settings)
    BY <2>1, LenProperties
  <2>3. size.setting \in DOMAIN Settings /\ m \in 0..MaxSize
    BY Lengths DEF IInv, ClientTypes, GetRecords
  <2> QED
    BY <1>0, <2>2, <2>3
<1>2. Target(m, s) >= m
  <2>1. Settings[s].maxsize \in Nat /\ m \in Nat
    BY <1>1, SettingFacts, GetFacts
  <2> QED
    BY <2>1, MaxOfTwo DEF Target
<1>3. /\ n = Len(resizes) /\ n \in Nat /\ DOMAIN resizes = 1..n /\ DOMAIN size.tasks = 1..n
  BY GetFacts
<1> HIDE DEF s
<1>4. /\ UNCHANGED <<maxReadyGroups, generation, pendingMinimum, minimumError, hosted>>
      /\ \A k \in 1..Len(resizes) : resizes'[k] = resizes[k] /\ z.tasks[k] = size.tasks[k]
      /\ \/ Len(resizes') = Len(resizes) /\ Len(z.tasks) = Len(resizes)
         \/ /\ Len(resizes') = Len(resizes) + 1 /\ Len(z.tasks) = Len(resizes) + 1
            /\ resizes'[Len(resizes) + 1] = Target(m, s)
  BY <1>0, <1>1, SyncedLimits
<1>5. /\ DOMAIN resizes' = 1..Len(resizes') /\ z \in SizeRecords(DOMAIN resizes')
      /\ Len(z.tasks) = Len(resizes')
  <2>1. /\ StoreProofs!Inv' /\ z \in SizeRecords(DOMAIN resizes')
        /\ Len(z.tasks) = Len(resizes')
    BY <1>0, <1>1, SyncedTypes DEF IInv
  <2>2. resizes' \in Seq(1..MaxSize)
    BY <2>1 DEF StoreProofs!Inv, StoreProofs!TypeOK
  <2> QED
    BY <2>1, <2>2, LenProperties
<1>6. DOMAIN z.tasks = 1..Len(z.tasks)
  BY <1>5, LenProperties DEF SizeRecords
<1> HIDE DEF z, n
<1>7. /\ held' = held /\ (ResizeLost => ResizeLost')
  BY <1>0, <1>3, <1>4, <1>6 DEF held, ResizeLost
<1>8. Store!Request(ConsumerId, get.count)' = Store!Request(ConsumerId, get.count)
  BY <1>0 DEF Store!Request, Store!Limit
<1>9. MinimumFollows'
  BY <1>0, <1>4, <1>7, <1>8 DEF MInv, MinimumFollows
<1>10. AnswerFollows'
  BY <1>0, <1>4, <1>7 DEF MInv, AnswerFollows
<1>11. RoomFollows'
  <2> SUFFICES ASSUME hosted, ~minimumError, get.wait, get.pc \in Waits
               PROVE  RoomFollows'
    BY <1>0, <1>4 DEF RoomFollows
  <2>1. /\ get.pc = "taking" => get.after \in 0..n /\ LimitAt(get.after) >= m
        /\ \A k \in DOMAIN resizes : k > generation =>
              resizes[k] >= m \/ size.tasks[k] = "lost" \/ (Ahead /\ k <= get.after)
        /\ pendingMinimum # None => maxReadyGroups >= get.count
        /\ ResizeLost \/ maxReadyGroups >= m \/ (Ahead /\ generation < get.after)
    <3>1. RoomFollows
      BY DEF MInv
    <3> QED
      BY <1>3, <3>1 DEF RoomFollows
  <2>2. Ahead' <=> Ahead
    BY <1>0, <1>4 DEF Ahead
  <2>3. get.pc = "taking" => get.after \in 0..Len(resizes') /\ LimitAt(get.after)' >= m
    <3>1. SUFFICES ASSUME get.pc = "taking"
                   PROVE  get.after \in 0..Len(resizes') /\ LimitAt(get.after)' >= m
      OBVIOUS
    <3>2. get.after \in 0..n
      BY <2>1, <3>1
    <3>3. LimitAt(get.after)' = LimitAt(get.after)
      BY <1>0, <1>3, <1>4, <3>2 DEF LimitAt
    <3> QED
      BY <1>3, <1>4, <2>1, <3>1, <3>2, <3>3
  <2>4. \A k \in DOMAIN resizes' : k > generation =>
           resizes'[k] >= m \/ size'.tasks[k] = "lost" \/ (Ahead /\ k <= get.after)
    <3>1. ASSUME NEW k \in DOMAIN resizes
          PROVE  resizes'[k] = resizes[k] /\ size'.tasks[k] = size.tasks[k]
      BY <1>0, <1>3, <1>4
    <3>2. ASSUME NEW k \in DOMAIN resizes', k \notin DOMAIN resizes
          PROVE  resizes'[k] = Target(m, s)
      <4>1. /\ k \in 1..Len(resizes') /\ k \notin 1..n
            /\ Len(resizes') \in {n, n + 1}
        BY <1>3, <1>4, <1>5, <3>2
      <4>2. k = n + 1 /\ Len(resizes') = n + 1
        BY <1>3, <4>1
      <4> QED
        BY <1>3, <1>4, <4>2
    <3> QED
      BY <1>2, <2>1, <3>1, <3>2
  <2> QED
    BY <1>0, <1>4, <1>7, <2>1, <2>2, <2>3, <2>4 DEF RoomFollows
<1> QED
  BY <1>9, <1>10, <1>11 DEF MInv

LEMMA MinimumResizes ==
    ASSUME IInv, MInv, NEW k \in DOMAIN size.tasks, HostResize(k)
    PROVE  MInv'
<1> DEFINE t == IF size.tasks[k] = "sent" THEN "replied" ELSE "done"
           m == get.minimumTakeSize
<1>0. /\ get' = get /\ stage' = stage /\ used' = used
      /\ IF hosted THEN Store!Resize(k) ELSE UNCHANGED store
      /\ size.tasks[k] \in {"sent", "orphan"} /\ size' = [size EXCEPT !.tasks[k] = t]
  <2>1. size \in SizeRecords(DOMAIN resizes)
    BY Lengths
  <2> QED
    BY <2>1 DEF HostResize, OnItsWay, SizeRecords
<1> HIDE DEF t
<1>1. /\ DOMAIN size'.tasks = DOMAIN size.tasks
      /\ \A j \in DOMAIN size.tasks : j # k => size'.tasks[j] = size.tasks[j]
  BY <1>0, TaskFields
<1>2. \A j \in DOMAIN size.tasks : size.tasks[j] = "lost" => size'.tasks[j] = "lost"
  BY <1>0, <1>1
<1>3. CASE hosted /\ k > generation
  <2>1. /\ maxReadyGroups' = resizes[k] /\ generation' = k /\ resizes' = resizes
        /\ UNCHANGED <<pendingMinimum, minimumError, hosted>>
    BY <1>0, <1>3 DEF Store!Resize
  <2>2. /\ DOMAIN size.tasks = DOMAIN resizes /\ DOMAIN resizes = 1..Len(resizes)
        /\ Len(resizes) \in Nat /\ generation \in Nat /\ get.after \in Nat
        /\ held' = held /\ (ResizeLost => ResizeLost')
        /\ resizes[k] \in Nat /\ m \in Nat /\ held \in Nat /\ get.count \in Nat
    BY <1>0, <1>1, <1>2, GetFacts DEF ResizeLost, held
  <2>3. Store!Request(ConsumerId, get.count)' = Store!Request(ConsumerId, get.count)
    BY <1>0 DEF Store!Request, Store!Limit
  <2>4. MinimumFollows'
    BY <1>0, <2>1, <2>2, <2>3 DEF MInv, MinimumFollows
  <2>5. AnswerFollows'
    BY <1>0, <2>1, <2>2 DEF MInv, AnswerFollows
  <2>6. RoomFollows'
    <3> SUFFICES ASSUME ~minimumError, get.wait, get.pc \in Waits PROVE RoomFollows'
      BY <1>0, <2>1 DEF RoomFollows
    <3>1. /\ get.pc = "taking" => get.after \in 0..Len(resizes) /\ LimitAt(get.after) >= m
          /\ \A j \in DOMAIN resizes : j > generation =>
                resizes[j] >= m \/ size.tasks[j] = "lost" \/ (Ahead /\ j <= get.after)
      <4>1. RoomFollows
        BY DEF MInv
      <4> QED
        BY <1>3, <4>1 DEF RoomFollows
    <3>2. (Ahead' <=> Ahead) /\ m = get.count + held
      BY <1>0, <2>1 DEF Ahead, MInv, MinimumFollows
    <3>3. resizes[k] >= m \/ (Ahead /\ k < get.after)
      <4>1. resizes[k] >= m \/ (Ahead /\ k <= get.after)
        BY <1>0, <1>3, <2>2, <3>1
      <4>2. k # 0 /\ (k = get.after /\ Ahead => resizes[k] >= m)
        BY <2>2, <3>1 DEF LimitAt, Ahead
      <4> QED
        BY <2>2, <4>1, <4>2
    <3>4. LimitAt(get.after)' = LimitAt(get.after)
      BY <1>0, <2>1 DEF LimitAt
    <3>5. \A j \in DOMAIN resizes : j > k =>
             resizes[j] >= m \/ size'.tasks[j] = "lost" \/ (Ahead /\ j <= get.after)
      BY <1>2, <1>3, <2>2, <3>1
    <3>6. pendingMinimum # None => resizes[k] >= get.count
      BY <2>2, <3>2, <3>3 DEF Ahead
    <3> QED
      BY <1>0, <2>1, <3>1, <3>2, <3>3, <3>4, <3>5, <3>6 DEF RoomFollows
  <2> QED
    BY <2>4, <2>5, <2>6 DEF MInv
<1>4. CASE ~(hosted /\ k > generation)
  <2>1. /\ UNCHANGED <<resizes, maxReadyGroups, generation>>
        /\ pendingMinimum' = pendingMinimum /\ minimumError' = minimumError
        /\ hosted' = hosted
    BY <1>0, <1>4 DEF Store!Resize, store
  <2> QED
    BY <1>0, <1>1, <1>2, <2>1, MinimumSame
<1> QED
  BY <1>3, <1>4

-----------------------------------------------------------------------------
(* The flush of get_many.                                                  *)

(* Its guarantee is needed where calls may overtake one another; there,    *)
(* neither snapshots nor cancellations are to interfere.                   *)
Undisturbed == used.schedule.ordered \/ (~used.schedule.snapshots /\ MaxCancels = 0)

LEMMA FlushSame ==
    ASSUME FlushFollows, size' = size, used'.schedule = used.schedule,
           get'.pc = get.pc \/ (get.pc # "flush" /\ get'.pc # "flush"),
           shut'.closing = shut.closing \/ (shut.closing # "flush" /\ shut'.closing \notin {"open", "flush"})
    PROVE  FlushFollows'
  BY DEF FlushFollows

LEMMA FlushPuts ==
    ASSUME IInv, FlushFollows, NEW g \in Groups,
           \/ PutStart(g) \/ HostEnqueue(g) \/ PutReply(g) \/ PutWake(g) \/ PutCancel(g)
           \/ PutDrop(g) \/ CleanOwner(g) \/ CleanOwnerFails(g) \/ CloseDrop(g)
    PROVE  FlushFollows'
<1>1. size' = size /\ used'.schedule = used.schedule
  <2>1. used \in UsedRecords
    BY DEF IInv, ClientTypes
  <2> QED
    BY <2>1 DEF PutStart, HostEnqueue, PutReply, PutWake, PutCancel, PutDrop, CleanOwner,
       CleanOwnerFails, CloseDrop, DropFails, UsedRecords
<1>2. get'.pc = get.pc
  <2>1. CASE PutReply(g)
    BY <2>1, NotifyKeeps DEF PutReply, IInv
  <2>2. CASE ~PutReply(g)
    BY <2>2 DEF PutStart, HostEnqueue, PutWake, PutCancel, PutDrop, CleanOwner,
       CleanOwnerFails, CloseDrop
  <2> QED
    BY <2>1, <2>2
<1>3. shut'.closing = shut.closing
  <2>1. shut \in ShutRecords
    BY DEF IInv, ClientTypes
  <2> QED
    BY <2>1 DEF PutStart, HostEnqueue, PutReply, PutWake, PutCancel, PutDrop, CleanOwner,
       CleanOwnerFails, CloseDrop, ShutRecords
<1> QED
  BY <1>1, <1>2, <1>3, FlushSame

LEMMA FlushPacks ==
    ASSUME IInv, FlushFollows,
           \/ GetRefused \/ Pack \/ PackNothing \/ PackingEnds \/ HostMarkPacked \/ HandOver
           \/ \E g \in Groups, next \in {"releasing", "stopped"} : Keep(g) \/ Discard(g, next)
    PROVE  FlushFollows'
<1>1. size' = size /\ used' = used
  BY DEF GetRefused, Pack, PackNothing, PackingEnds, HostMarkPacked, HandOver, Keep, Discard
<1>2. get.pc # "flush"
  BY DEF GetRefused, Collecting, Pack, PackNothing, PackingEnds, Collected, HostMarkPacked,
     HandOver, Keep, Discard
<1>3. PICK pc : get' = At(pc) /\ pc # "flush"
  <2>1. CASE GetRefused \/ Pack \/ PackNothing \/ PackingEnds
    BY <2>1 DEF GetRefused, Pack, PackNothing, PackingEnds
  <2>2. CASE HostMarkPacked
    BY <2>2 DEF HostMarkPacked
  <2>3. CASE HandOver
    BY <2>3 DEF HandOver
  <2>4. ASSUME NEW g \in Groups, NEW next \in {"releasing", "stopped"},
               Keep(g) \/ Discard(g, next)
        PROVE  \E pc : get' = At(pc) /\ pc # "flush"
    <3>1. CASE Keep(g)
      <4> DEFINE q == IF stage.fetched = {g} THEN "collect" ELSE "examine"
      <4>1. get' = At(q) /\ q # "flush"
        BY <3>1 DEF Keep
      <4> QED
        BY <4>1
    <3>2. CASE Discard(g, next)
      BY <3>2 DEF Discard
    <3> QED
      BY <2>4, <3>1, <3>2
  <2> QED
    BY <2>1, <2>2, <2>3, <2>4
<1>4. get'.pc # "flush"
  BY <1>3, AtKeeps
<1>5. shut'.closing = shut.closing
  BY DEF GetRefused, Pack, PackNothing, PackingEnds, HostMarkPacked, HandOver, Keep, Discard,
     IInv, ClientTypes, ShutRecords
<1> QED
  BY <1>1, <1>2, <1>4, <1>5, FlushSame

LEMMA FlushOthers ==
    ASSUME IInv, FlushFollows,
           \/ HostTake \/ GetWait \/ GetWake \/ TrainerRelease
           \/ \E r \in Releasers : HostRelease(r)
           \/ FinishStart \/ HostFinish \/ FinishReply
           \/ HostClose \/ CloseReply \/ CloseDrained \/ CloseEnd
    PROVE  FlushFollows'
<1>1. size' = size /\ used' = used
  BY DEF HostTake, GetWait, GetWake, TrainerRelease, HostRelease, FinishStart, HostFinish,
     FinishReply, HostClose, CloseReply, CloseDrained, CloseEnd
<1>2. get \in GetRecords /\ shut \in ShutRecords
  BY DEF IInv, ClientTypes
<1>3. get'.pc = get.pc \/ (get.pc # "flush" /\ get'.pc # "flush")
  <2>1. CASE HostTake
    BY <1>2, <2>1 DEF HostTake, GetRecords
  <2>2. CASE GetWait \/ GetWake
    BY <1>2, <2>2 DEF GetWait, GetWake, Taking, GetRecords
  <2>3. CASE FinishReply
    BY <2>3, NotifyKeeps DEF FinishReply, IInv
  <2>4. CASE \/ TrainerRelease \/ \E r \in Releasers : HostRelease(r)
             \/ FinishStart \/ HostFinish
             \/ HostClose \/ CloseReply \/ CloseDrained \/ CloseEnd
    BY <2>4 DEF TrainerRelease, HostRelease, FinishStart, HostFinish, HostClose, CloseReply,
       CloseDrained, CloseEnd
  <2> QED
    BY <2>1, <2>2, <2>3, <2>4
<1>4. \/ shut'.closing = shut.closing
      \/ shut.closing # "flush" /\ shut'.closing \notin {"open", "flush"}
  <2>1. CASE HostClose \/ CloseReply \/ CloseDrained \/ CloseEnd
    BY <1>2, <2>1 DEF HostClose, CloseReply, CloseDrained, CloseEnd, ShutRecords
  <2>2. CASE ~(HostClose \/ CloseReply \/ CloseDrained \/ CloseEnd)
    BY <1>2, <2>2 DEF HostTake, GetWait, GetWake, TrainerRelease, HostRelease, FinishStart,
       HostFinish, FinishReply, ShutRecords
  <2> QED
    BY <2>1, <2>2
<1> QED
  BY <1>1, <1>3, <1>4, FlushSame

(* A resize that is issued is collected by the next flush.                 *)
LEMMA FlushSynced ==
    ASSUME IInv, FlushFollows, NEW s \in DOMAIN Settings, NEW m \in 0..MaxSize,
           IssueResize(m, s), size' = Synced(m, s), used'.schedule = used.schedule,
           get'.pc = get.pc \/ (get.pc # "flush" /\ get'.pc # "flush"),
           shut'.closing = shut.closing
    PROVE  FlushFollows'
<1> DEFINE z == Synced(m, s)
<1>1. Len(resizes) \in Nat /\ DOMAIN size.tasks = 1..Len(resizes)
  BY Lengths
<1>2. /\ z.awaits = size.awaits
      /\ \A k \in 1..Len(resizes) : z.tasks[k] = size.tasks[k]
      /\ \/ Len(z.tasks) = Len(resizes) /\ z.uncollected = size.uncollected
         \/ /\ Len(z.tasks) = Len(resizes) + 1
            /\ z.uncollected = size.uncollected \cup {Len(resizes) + 1}
  BY SyncedLimits
<1>3. DOMAIN z.tasks = 1..Len(z.tasks)
  <2>1. z \in SizeRecords(DOMAIN resizes')
    BY SyncedTypes DEF IInv
  <2> QED
    BY <2>1, LenProperties DEF SizeRecords
<1> HIDE DEF z
<1>4. size' = z
  BY DEF z
<1>5. \A k \in DOMAIN z.tasks : k \in z.uncollected \/ k \in DOMAIN size.tasks
  BY <1>1, <1>2, <1>3
<1> QED
  BY <1>1, <1>2, <1>4, <1>5 DEF FlushFollows

LEMMA FlushEndsGet ==
    ASSUME IInv, FlushFollows, NEW pc, pc # "flush", get.pc # "flush", EndGet(pc),
           used' = used, shut'.closing = shut.closing
    PROVE  FlushFollows'
<1>1. size.setting \in DOMAIN Settings /\ 0 \in 0..MaxSize
  BY Lengths, SettingFacts
<1>2. get' = At(pc) /\ size' = Synced(0, size.setting) /\ IssueResize(0, size.setting)
  BY DEF EndGet
<1>3. get'.pc # "flush"
  BY <1>2, AtKeeps
<1> QED
  BY <1>1, <1>2, <1>3, FlushSynced

LEMMA FlushGets ==
    ASSUME IInv, FlushFollows, GetStart \/ GetReply \/ Withdrawn \/ CancelledReply
    PROVE  FlushFollows'
<1>0. /\ get \in GetRecords /\ shut' = shut /\ used' = used
      /\ get.pc \in {"collect", "taken", "withdrawn"}
  BY DEF IInv, ClientTypes, GetStart, Collecting, GetReply, Withdrawn, CancelledReply
<1>1. CASE GetStart
  <2>1. CASE /\ get' = [At("flush") EXCEPT !.count = minBatch - held, !.wait = TRUE,
                                           !.minimumTakeSize = minBatch]
             /\ IssueResize(minBatch, size.setting)
             /\ size' = Collect("get", Synced(minBatch, size.setting))
    <3>1. size.setting \in DOMAIN Settings /\ minBatch \in 0..MaxSize
      BY Lengths, SettingFacts DEF minBatch
    <3> DEFINE z == Synced(minBatch, size.setting)
    <3>2. /\ z \in SizeRecords(DOMAIN resizes') /\ z.awaits = size.awaits
          /\ \A k \in 1..Len(resizes) : z.tasks[k] = size.tasks[k]
          /\ \/ Len(z.tasks) = Len(resizes) /\ z.uncollected = size.uncollected
             \/ /\ Len(z.tasks) = Len(resizes) + 1
                /\ z.uncollected = size.uncollected \cup {Len(resizes) + 1}
      BY <2>1, <3>1, SyncedTypes, SyncedLimits DEF IInv
    <3>3. /\ Len(resizes) \in Nat /\ DOMAIN size.tasks = 1..Len(resizes)
          /\ DOMAIN z.tasks = 1..Len(z.tasks)
      BY <3>2, Lengths, LenProperties DEF SizeRecords
    <3> HIDE DEF z
    <3>4. size' = [z EXCEPT !.awaits["get"] = z.uncollected, !.uncollected = {}]
      BY <2>1 DEF Collect, z
    <3>5. /\ size'.tasks = z.tasks /\ size'.awaits["get"] = z.uncollected
          /\ size'.awaits["snapshot"] = z.awaits["snapshot"]
          /\ size'.awaits["close"] = z.awaits["close"]
      BY <3>2, <3>4 DEF SizeRecords
    <3>6. get'.pc = "flush"
      BY <2>1 DEF At
    <3>7. \A k \in DOMAIN z.tasks : k \in z.uncollected
                                    \/ (k \in DOMAIN size.tasks /\ z.tasks[k] = size.tasks[k])
      BY <3>2, <3>3
    <3>8. size.uncollected \subseteq z.uncollected
      BY <3>2
    <3>9. get.pc # "flush"
      BY <1>1 DEF GetStart, Collecting
    <3> QED
      BY <1>0, <3>2, <3>5, <3>6, <3>7, <3>8, <3>9 DEF FlushFollows
  <2>2. CASE get' = [Taking EXCEPT !.count = maxBatch - held] /\ UNCHANGED <<store, size>>
    <3>1. get'.pc # "flush"
      BY <1>0, <2>2 DEF Taking, GetRecords
    <3> QED
      BY <1>0, <2>2, <3>1, FlushSame
  <2> QED
    BY <1>1, <2>1, <2>2 DEF GetStart
<1>2. CASE GetReply \/ Withdrawn
  <2>1. PICK pc : pc \in {"examine", "stopped", "collected", "collect"} /\ EndGet(pc)
    <3>1. CASE GetReply
      BY <3>1 DEF GetReply
    <3>2. CASE Withdrawn
      BY <3>2 DEF Withdrawn
    <3> QED
      BY <1>2, <3>1, <3>2
  <2> QED
    BY <1>0, <2>1, FlushEndsGet
<1>3. CASE CancelledReply
  <2>1. CASE size' = size /\ get' = [get EXCEPT !.pc = "undoing", !.answer = None]
    <3>1. get'.pc # "flush"
      BY <1>0, <2>1 DEF GetRecords
    <3> QED
      BY <1>0, <2>1, <3>1, FlushSame
  <2>2. CASE size' = size /\ get' = [get EXCEPT !.pc = "withdrawing", !.answer = None]
    <3>1. get'.pc # "flush"
      BY <1>0, <2>2 DEF GetRecords
    <3> QED
      BY <1>0, <2>2, <3>1, FlushSame
  <2>3. CASE EndGet(IF TakeFailed THEN "stopped" ELSE "collect")
    <3>1. PICK pc : pc \in {"stopped", "collect"} /\ EndGet(pc)
      BY <2>3
    <3> QED
      BY <1>0, <3>1, FlushEndsGet
  <2> QED
    BY <1>3, <2>1, <2>2, <2>3 DEF CancelledReply
<1> QED
  BY <1>0, <1>1, <1>2, <1>3

LEMMA FlushCancels ==
    ASSUME IInv, FlushFollows, Undisturbed, GetCancel
    PROVE  FlushFollows'
<1>1. used \in UsedRecords /\ used'.schedule = used.schedule /\ used.cancels < MaxCancels
  BY DEF GetCancel, IInv, ClientTypes, UsedRecords
<1>2. used.schedule.ordered
  BY <1>1 DEF Undisturbed, UsedRecords
<1> QED
  BY <1>1, <1>2 DEF FlushFollows

LEMMA FlushReleases ==
    ASSUME IInv, FlushFollows, NEW r \in Releasers, ReleaseReply(r)
    PROVE  FlushFollows'
<1>1. shut'.closing = shut.closing /\ used' = used
  BY DEF ReleaseReply, IInv, ClientTypes, ShutRecords
<1>2. CASE r = "trainer"
  <2>1. get' = get /\ size' = size
    BY <1>2 DEF ReleaseReply
  <2> QED
    BY <1>1, <2>1, FlushSame
<1>3. CASE r = "packing"
  <2>1. PICK pc : EndGet(pc) /\ pc \in {"stopped", "examine", "collect"}
    BY <1>3 DEF ReleaseReply, AfterRelease
  <2>2. get.pc \in {"releasing", "undoing", "stopped"}
    <3>1. rel["packing"] # NoRelease
      BY <1>3 DEF ReleaseReply, NoRelease
    <3> QED
      BY <3>1 DEF IInv, CallsFollow
  <2> QED
    BY <1>1, <2>1, <2>2, FlushEndsGet
<1> QED
  BY <1>2, <1>3 DEF Releasers

LEMMA FlushSets ==
    ASSUME IInv, FlushFollows, SetMaxsize
    PROVE  FlushFollows'
<1>1. size.setting + 1 \in DOMAIN Settings /\ get.minimumTakeSize \in 0..MaxSize
  <2>1. Settings \in Seq([maxsize : Nat \ {0}, minBatch : Nat \ {0},
                          maxBatch : Nat \ {0}])
    BY SettingsAssumption
  <2>2. Len(Settings) \in Nat /\ DOMAIN Settings = 1..Len(Settings)
    BY <2>1, LenProperties
  <2>3. size.setting \in DOMAIN Settings /\ get.minimumTakeSize \in 0..MaxSize
        /\ size.setting < Len(Settings)
    BY Lengths DEF IInv, ClientTypes, GetRecords, SetMaxsize
  <2> QED
    BY <2>2, <2>3
<1>2. /\ size' = Synced(get.minimumTakeSize, size.setting + 1)
      /\ IssueResize(get.minimumTakeSize, size.setting + 1)
      /\ UNCHANGED <<get, shut, used>>
  BY DEF SetMaxsize
<1> QED
  BY <1>1, <1>2, FlushSynced

LEMMA FlushFlushes ==
    ASSUME IInv, FlushFollows, Undisturbed,
           \/ FlushMore("get") \/ FlushMore("snapshot") \/ FlushMore("close")
           \/ GetFlushed \/ SnapshotStart \/ SnapshotEnds \/ CloseStart \/ CloseFlushed
    PROVE  FlushFollows'
<1>0. get \in GetRecords /\ shut \in ShutRecords /\ used' = used
  BY DEF IInv, ClientTypes, FlushMore, GetFlushed, SnapshotStart, SnapshotEnds, CloseStart,
     CloseFlushed
<1> SUFFICES ASSUME ~used.schedule.ordered PROVE FlushFollows'
  BY <1>0 DEF FlushFollows
<1>1. /\ ~used.schedule.snapshots
      /\ get.pc # "flush" => size.awaits["get"] = None
      /\ size.awaits["snapshot"] = None
      /\ shut.closing # "flush" => size.awaits["close"] = None
  BY DEF Undisturbed, FlushFollows
<1>2. ~FlushMore("snapshot") /\ ~SnapshotStart /\ ~SnapshotEnds
  BY <1>1 DEF FlushMore, SnapshotStart, SnapshotEnds, FlushEnds, Flushed
<1>3. CASE FlushMore("get")
  <2>1. /\ get.pc = "flush" /\ size' = Collect("get", size) /\ get' = get /\ shut' = shut
        /\ \A k \in size.awaits["get"] : size.tasks[k] = "done"
    BY <1>1, <1>3 DEF FlushMore, Flushed
  <2>2. /\ size'.tasks = size.tasks /\ size'.awaits["get"] = size.uncollected
        /\ size'.awaits["snapshot"] = size.awaits["snapshot"]
        /\ size'.awaits["close"] = size.awaits["close"]
    BY <2>1, CollectFields
  <2> QED
    BY <2>1, <2>2 DEF FlushFollows
<1>4. CASE GetFlushed
  <2>1. /\ get.pc = "flush" /\ size' = FlushDone("get") /\ get' = Taking /\ shut' = shut
        /\ \A k \in size.awaits["get"] : size.tasks[k] = "done"
        /\ size.uncollected = {}
    BY <1>4 DEF GetFlushed, FlushEnds, Flushed
  <2>2. /\ size'.tasks = size.tasks /\ size'.awaits["get"] = None
        /\ size'.awaits["snapshot"] = size.awaits["snapshot"]
        /\ size'.awaits["close"] = size.awaits["close"]
    BY <2>1, CollectFields
  <2> QED
    BY <2>1, <2>2 DEF FlushFollows
<1>5. CASE FlushMore("close") \/ CloseStart
  <2>1. /\ size' = Collect("close", size) /\ get' = get
        /\ shut'.closing = "flush"
    BY <1>0, <1>1, <1>5 DEF FlushMore, Flushed, CloseStart, ShutRecords
  <2>2. /\ size'.awaits["get"] = size.awaits["get"]
        /\ size'.awaits["snapshot"] = size.awaits["snapshot"]
    BY <2>1, CollectFields
  <2> QED
    BY <2>1, <2>2 DEF FlushFollows
<1>6. CASE CloseFlushed
  <2>1. /\ size' = FlushDone("close") /\ get'.pc = get.pc
        /\ shut'.closing \in {"draining", "sent"}
    <3>1. get'.pc = get.pc
      BY <1>6, NotifyKeeps DEF CloseFlushed, IInv
    <3> QED
      BY <1>0, <1>6, <3>1 DEF CloseFlushed, ShutRecords
  <2>2. /\ size'.awaits["get"] = size.awaits["get"] /\ size'.awaits["close"] = None
        /\ size'.awaits["snapshot"] = size.awaits["snapshot"]
    BY <2>1, CollectFields
  <2> QED
    BY <2>1, <2>2 DEF FlushFollows
<1> QED
  BY <1>2, <1>3, <1>4, <1>5, <1>6

LEMMA FlushTasks ==
    ASSUME IInv, FlushFollows, NEW k \in DOMAIN size.tasks, HostResize(k) \/ ResizeReply(k)
    PROVE  FlushFollows'
<1>1. size \in SizeRecords(DOMAIN resizes)
  BY Lengths
<1>2. PICK t : size' = [size EXCEPT !.tasks[k] = t]
  BY <1>1 DEF HostResize, ResizeReply, SizeRecords
<1>3. /\ size'.uncollected = size.uncollected /\ size'.awaits = size.awaits
      /\ DOMAIN size'.tasks = DOMAIN size.tasks
      /\ \A j \in DOMAIN size.tasks : j # k => size'.tasks[j] = size.tasks[j]
  BY <1>2, TaskFields
<1>4. size.tasks[k] # "done" /\ shut' = shut /\ used' = used
  BY DEF HostResize, OnItsWay, ResizeReply
<1>5. get'.pc = get.pc
  BY NotifyKeeps DEF HostResize, ResizeReply, IInv
<1> QED
  BY <1>3, <1>4, <1>5 DEF FlushFollows

(* Every step keeps what get_many and the host know of a minimum.          *)
LEMMA MinimumNext ==
    ASSUME IInv, LInv, RInv, Undisturbed, Next
    PROVE  RInv'
<1>0. MInv /\ FlushFollows
  BY DEF RInv
<1> SUFFICES MInv' /\ FlushFollows'
  BY DEF RInv
<1>1. ASSUME NEW g \in Groups,
             \/ PutStep(g) \/ PutCancel(g) \/ CleanOwner(g) \/ CleanOwnerFails(g)
             \/ CloseDrop(g)
      PROVE  MInv' /\ FlushFollows'
  BY <1>0, <1>1, MinimumPuts, FlushPuts DEF PutStep
<1>2. ASSUME NEW g \in Groups, Discard(g, "stopped")
      PROVE  MInv' /\ FlushFollows'
  BY <1>0, <1>2, MinimumPacks, FlushPacks
<1>3. CASE GetStep
  <2>1. CASE GetRefused
    BY <1>0, <2>1, MinimumPacks, FlushPacks
  <2>2. CASE HostTake
    BY <1>0, <2>2, MinimumTakes, FlushOthers
  <2>3. CASE GetWait
    BY <1>0, <2>3, MinimumWaits, FlushOthers
  <2>4. CASE GetWake
    BY <1>0, <2>4, MinimumWakes, FlushOthers
  <2>5. CASE FlushMore("get")
    BY <1>0, <2>5, MinimumOthers, FlushFlushes
  <2>6. CASE GetFlushed
    BY <1>0, <2>6, MinimumFlushed, FlushFlushes
  <2>7. CASE GetStart
    BY <1>0, <2>7, MinimumStarts, FlushGets
  <2>8. CASE GetReply \/ Withdrawn
    BY <1>0, <2>8, MinimumReplies, FlushGets
  <2>9. CASE CancelledReply
    BY <1>0, <2>9, MinimumCancelled, FlushGets
  <2> QED
    BY <1>3, <2>1, <2>2, <2>3, <2>4, <2>5, <2>6, <2>7, <2>8, <2>9 DEF GetStep
<1>4. CASE GetCancel
  BY <1>0, <1>4, MinimumCancels, FlushCancels
<1>5. CASE PackStep
  <2>1. \/ Pack \/ PackNothing \/ PackingEnds \/ HostMarkPacked \/ HandOver
        \/ \E g \in Groups, next \in {"releasing", "stopped"} : Keep(g) \/ Discard(g, next)
    BY <1>5 DEF PackStep
  <2> QED
    BY <1>0, <2>1, MinimumPacks, FlushPacks
<1>6. CASE TrainerRelease
  BY <1>0, <1>6, MinimumOthers, FlushOthers
<1>7. ASSUME NEW r \in Releasers, ReleaseStep(r)
      PROVE  MInv' /\ FlushFollows'
  <2>1. CASE HostRelease(r)
    BY <1>0, <2>1, MinimumOthers, FlushOthers
  <2>2. CASE ReleaseReply(r)
    BY <1>0, <2>2, MinimumReleases, FlushReleases
  <2> QED
    BY <1>7, <2>1, <2>2 DEF ReleaseStep
<1>8. CASE SetMaxsize
  BY <1>0, <1>8, MinimumSets, FlushSets
<1>9. ASSUME NEW k \in DOMAIN size.tasks, ResizeStep(k)
      PROVE  MInv' /\ FlushFollows'
  BY <1>0, <1>9, MinimumResizes, MinimumOthers, FlushTasks DEF ResizeStep
<1>10. CASE SnapshotStart \/ FlushMore("snapshot") \/ SnapshotEnds
  BY <1>0, <1>10, MinimumOthers, FlushFlushes
<1>11. CASE FinishStart \/ HostFinish \/ FinishReply
  BY <1>0, <1>11, MinimumOthers, FlushOthers
<1>12. CASE CloseStep
  <2>1. CASE CloseStart \/ FlushMore("close") \/ CloseFlushed
    BY <1>0, <2>1, MinimumOthers, FlushFlushes
  <2>2. CASE HostClose \/ CloseReply \/ CloseDrained \/ CloseEnd
    BY <1>0, <2>2, MinimumOthers, FlushOthers
  <2> QED
    BY <1>1, <1>12, <2>1, <2>2 DEF CloseStep
<1> QED
  BY <1>1, <1>2, <1>3, <1>4, <1>5, <1>6, <1>7, <1>8, <1>9, <1>10, <1>11, <1>12 DEF Next

LEMMA MinimumStutter ==
    ASSUME IInv, RInv, UNCHANGED vars
    PROVE  RInv'
<1>1. /\ UNCHANGED <<get, stage, size, shut, used>>
      /\ UNCHANGED <<pendingMinimum, minimumError, hosted, resizes, maxReadyGroups, generation>>
  BY DEF vars, store
<1>2. MInv'
  BY <1>1, MinimumSame DEF RInv
<1>3. FlushFollows'
  BY <1>1, FlushSame DEF RInv
<1> QED
  BY <1>2, <1>3 DEF RInv

LEMMA MinimumInit == Init => RInv
<1> SUFFICES ASSUME Init PROVE RInv
  OBVIOUS
<1>1. /\ get.pc = "collect" /\ get.wait = FALSE /\ get.answer = None
      /\ pendingMinimum = None /\ size.tasks = <<>>
      /\ size.awaits = [get |-> None, snapshot |-> None, close |-> None]
  BY AtKeeps DEF Init, Store!Init
<1>2. DOMAIN size.tasks = {}
  BY <1>1
<1>3. FlushFollows
  BY <1>1, <1>2 DEF FlushFollows
<1>4. MinimumFollows
  BY <1>1 DEF MinimumFollows, Waits
<1>5. AnswerFollows /\ RoomFollows
  BY <1>1 DEF AnswerFollows, RoomFollows
<1> QED
  BY <1>3, <1>4, <1>5 DEF RInv, MInv

(* A minimum that the host keeps pending is the one a running get_many     *)
(* asked for, the limit has room for it and the groups of the batch while  *)
(* the autotuner resizes the queue, and the take is not refused for a      *)
(* resize under way: wherever the host handles takes and resizes in their  *)
(* order, and in any order where neither snapshots nor cancellations take  *)
(* resizes away from the flush of get_many.                                *)
THEOREM MinimumHonoured ==
    ASSUME \A s \in Schedules : s.ordered \/ (~s.snapshots /\ MaxCancels = 0)
    PROVE  Spec => []MinimumIsHonoured
<1>1. IInv => Undisturbed
  BY DEF IInv, ClientTypes, UsedRecords, Undisturbed
<1>2. IInv /\ LInv /\ RInv /\ [Next]_vars => RInv'
  <2> SUFFICES ASSUME IInv, LInv, RInv, [Next]_vars PROVE RInv'
    OBVIOUS
  <2>1. CASE Next
    BY <1>1, <2>1, MinimumNext
  <2>2. CASE UNCHANGED vars
    BY <2>2, MinimumStutter
  <2> QED
    BY <2>1, <2>2
<1>3. IInv /\ RInv => MinimumIsHonoured
  <2> SUFFICES ASSUME IInv, RInv PROVE MinimumIsHonoured
    OBVIOUS
  <2>1. MinimumFollows /\ AnswerFollows /\ RoomFollows
    BY DEF RInv, MInv
  <2>2. ASSUME hosted, pendingMinimum # None, ~minimumError
        PROVE  /\ get.wait /\ get.count = pendingMinimum.count
               /\ get.minimumTakeSize = get.count + held
               /\ maxReadyGroups >= get.minimumTakeSize \/ ResizeLost
    <3>1. /\ get.wait /\ get.pc \in Waits
          /\ pendingMinimum = Store!Request(ConsumerId, get.count)
          /\ get.count > 0 /\ get.minimumTakeSize = get.count + held
      BY <2>1, <2>2 DEF MinimumFollows
    <3>2. pendingMinimum.count = get.count
      <4>1. get.count \in Nat
        BY GetFacts
      <4> QED
        BY <3>1, <4>1 DEF Store!Request, Store!Limit
    <3>3. ResizeLost \/ maxReadyGroups >= get.minimumTakeSize
      BY <2>1, <2>2, <3>1 DEF RoomFollows, Ahead
    <3> QED
      BY <3>1, <3>2, <3>3
  <2>3. MinimumIsReserved
    BY <2>2 DEF MinimumIsReserved
  <2>4. NoSpuriousRefusal
    BY <2>1 DEF AnswerFollows, NoSpuriousRefusal
  <2> QED
    BY <2>3, <2>4 DEF MinimumIsHonoured
<1> QED
  BY LimitInvariant, MinimumInit, <1>2, <1>3, PTL DEF Spec

=============================================================================
