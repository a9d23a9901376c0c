------------------------ MODULE TrajectoryQueueStore ------------------------
(***************************************************************************)
(* The host-side trajectory queue: a bounded FIFO of references to         *)
(* finished trajectory groups, and the owner of the leases a consumer      *)
(* holds on the groups it has acquired (distributed/trajectory_store.py,   *)
(* class TrajectoryQueueStore, reached through a queue endpoint).          *)
(*                                                                         *)
(* Every endpoint handler is synchronous on the host's event loop, so each *)
(* one is an atomic action.  The result a handler returns, or the error it *)
(* raises, is a state function (EnqueueStatus, TakeOutcome, ...) that the  *)
(* client module reads together with the action.                           *)
(***************************************************************************)
EXTENDS Integers, Sequences, FiniteSets, FiniteSetsExt

CONSTANTS
    Groups,             \* result ids; each is minted once and never reused
    Consumers,          \* consumer ids
    Generations,        \* packing generation ids
    Records, Bytes,     \* size of each group
    CapacityRecords, CapacityBytes,
    InitialMaxReady,    \* max_ready_groups at creation
    Sizes,              \* sizes a resize may carry
    MaxResizes,         \* bound: resize operations issued
    MaxTake,            \* bound: largest count of a take
    None                \* no consumer, no generation id, no pending minimum

ASSUME SizesAssumption ==
    /\ Records \in [Groups -> Nat]
    /\ Bytes \in [Groups -> Nat]
    /\ CapacityRecords \in Nat \ {0}
    /\ CapacityBytes \in Nat \ {0}
    /\ InitialMaxReady \in Nat \ {0}
    /\ MaxTake \in Nat \ {0}

RecordTotal(gs) == MapThenSumSet(LAMBDA g : Records[g], gs)
ByteTotal(gs) == MapThenSumSet(LAMBDA g : Bytes[g], gs)

ASSUME ResizeAssumption == Sizes \subseteq Nat \ {0} /\ MaxResizes \in Nat

ASSUME NoneAssumption == None \notin Consumers \cup Generations

VARIABLES
    phase,              \* _entries: "absent" before the enqueue that inserts
                        \* the group, "released" after it left the queue
    ready,              \* _ready, the FIFO of groups in phase "ready"
    consumer,           \* consumer_id of each entry
    claim,              \* claim_generation of each entry, 0 if never claimed
    packing,            \* packing_generation_id of each entry
    usedRecords, usedBytes,
    finished,           \* _finished
    pendingMinimum,     \* _pending_minimum: None or [consumer, count]
    minimumError,       \* _minimum_error is not None
    maxReadyGroups,
    generation,         \* generation of the last resize applied
    claimGeneration,    \* _claim_generation
    hosted,             \* the endpoint still knows the queue
    resizes             \* resizes[k]: the size issued with generation k

entryVars == <<phase, ready, consumer, claim, packing, usedRecords, usedBytes>>
limitVars == <<maxReadyGroups, generation, resizes>>
vars == <<entryVars, limitVars, finished, pendingMinimum, minimumError,
          claimGeneration, hosted>>

Phases == {"absent", "ready", "packing", "packed", "released"}

Entries == {g \in Groups : phase[g] \in {"ready", "packing", "packed"}}

Init ==
    /\ phase = [g \in Groups |-> "absent"]
    /\ ready = <<>>
    /\ consumer = [g \in Groups |-> None]
    /\ claim = [g \in Groups |-> 0]
    /\ packing = [g \in Groups |-> None]
    /\ usedRecords = 0
    /\ usedBytes = 0
    /\ finished = FALSE
    /\ pendingMinimum = None
    /\ minimumError = FALSE
    /\ maxReadyGroups = InitialMaxReady
    /\ generation = 0
    /\ claimGeneration = 0
    /\ hosted = TRUE
    /\ resizes = <<>>

-----------------------------------------------------------------------------
(* resize: an older generation is ignored; an equal one carries the same   *)
(* size, because the client numbers its operations and never reuses a      *)
(* number (_schedule_resize).                                              *)

IssueResize(maxsize) ==
    /\ resizes' = Append(resizes, maxsize)
    /\ UNCHANGED <<entryVars, maxReadyGroups, generation, finished,
                   pendingMinimum, minimumError, claimGeneration, hosted>>

(* Variant: resizes are applied in the order they arrive.                   *)
ResizeOnArrival(k) ==
    /\ hosted
    /\ maxReadyGroups' = resizes[k] /\ generation' = k
    /\ resizes' = resizes
    /\ UNCHANGED <<entryVars, finished, pendingMinimum, minimumError,
                   claimGeneration, hosted>>

Resize(k) ==
    /\ hosted
    /\ IF k > generation
       THEN maxReadyGroups' = resizes[k] /\ generation' = k
       ELSE UNCHANGED <<maxReadyGroups, generation>>
    /\ resizes' = resizes
    /\ UNCHANGED <<entryVars, finished, pendingMinimum, minimumError,
                   claimGeneration, hosted>>

-----------------------------------------------------------------------------
(* enqueue *)

Oversize(g) == Records[g] > CapacityRecords \/ Bytes[g] > CapacityBytes

(* Variant: the size of the new group is left out of the check.             *)
BlockedWhenFull(g) ==
    \/ Cardinality(Entries) >= maxReadyGroups
    \/ usedRecords >= CapacityRecords
    \/ usedBytes >= CapacityBytes

Blocked(g) ==
    \/ Cardinality(Entries) >= maxReadyGroups
    \/ usedRecords + Records[g] > CapacityRecords
    \/ usedBytes + Bytes[g] > CapacityBytes

(* Variant: nobody finds out that a minimum is unreachable.                 *)
NeverHopeless == FALSE

MinimumCannotMakeProgress == \A g \in Entries : phase[g] = "ready"

(* The enqueue of g makes the pending minimum acquisition fail for good.   *)
FailsPendingMinimum(g) ==
    /\ pendingMinimum # None
    /\ \/ Oversize(g)
       \/ /\ ~finished
          /\ g \notin Entries
          /\ ~minimumError
          /\ Blocked(g)
          /\ Len(ready) < pendingMinimum.count
          /\ MinimumCannotMakeProgress

(* Variant: a retried enqueue inserts the group again.                      *)
InsertsAgain(g) == ~Oversize(g) /\ ~finished /\ ~minimumError /\ ~Blocked(g)

Inserts(g) ==
    ~Oversize(g) /\ ~finished /\ g \notin Entries /\ ~minimumError /\ ~Blocked(g)

EnqueueStatus(g) ==
    IF FailsPendingMinimum(g) THEN "minimum_unreachable"
    ELSE IF Oversize(g) THEN "oversize"
    ELSE IF finished THEN "closed"
    ELSE IF g \in Entries THEN "accepted"
    ELSE IF minimumError THEN "minimum_unreachable"
    ELSE IF Blocked(g) THEN "full"
    ELSE "accepted"

Enqueue(g) ==
    /\ hosted
    /\ IF Inserts(g)
       THEN /\ phase' = [phase EXCEPT ![g] = "ready"]
            /\ ready' = Append(ready, g)
            /\ usedRecords' = usedRecords + Records[g]
            /\ usedBytes' = usedBytes + Bytes[g]
       ELSE UNCHANGED <<phase, ready, usedRecords, usedBytes>>
    /\ minimumError' = (minimumError \/ FailsPendingMinimum(g))
    /\ UNCHANGED <<consumer, claim, packing, finished, pendingMinimum,
                   limitVars, claimGeneration, hosted>>

-----------------------------------------------------------------------------
(* take: a positive count asks for a minimum, a negative one for at most   *)
(* that many, and zero withdraws the pending minimum.                      *)

Limit(n) == IF n < 0 THEN -n ELSE n

Request(c, n) == [consumer |-> c, count |-> Limit(n)]

(* Variant: anybody may withdraw the pending minimum.                       *)
MayWithdrawAny(c) == TRUE

MayWithdraw(c) == pendingMinimum = None \/ pendingMinimum.consumer = c

TakeOutcome(c, n) ==
    IF n = 0 THEN IF MayWithdraw(c) THEN "cancelled" ELSE "lease_error"
    ELSE IF minimumError THEN "capacity_error"
    ELSE IF pendingMinimum \notin {None, Request(c, n)} THEN "lease_error"
    ELSE IF n < 0
         THEN IF pendingMinimum # None THEN "lease_error" ELSE "leases"
    ELSE IF ~finished /\ n > maxReadyGroups THEN "capacity_error"
    ELSE IF ~finished /\ Len(ready) < n THEN "pending"
    ELSE "leases"

TakeCount(n) == IF Limit(n) < Len(ready) THEN Limit(n) ELSE Len(ready)

(* The groups a successful take acquires: the front of the FIFO.           *)
Taken(n) == {ready[i] : i \in 1..TakeCount(n)}

(* TrajectoryQueueTake.closed of the reply *)
TakeClosed(c, n) ==
    CASE TakeOutcome(c, n) = "cancelled" -> finished /\ ready = <<>>
      [] TakeOutcome(c, n) = "leases" -> finished /\ Len(ready) <= Limit(n)
      [] OTHER -> FALSE

(* Variant: the groups of one take are numbered from the last to the first. *)
ReversedClaim(n, g) ==
    claimGeneration + TakeCount(n) + 1
       - (CHOOSE i \in 1..TakeCount(n) : ready[i] = g)

NextClaim(n, g) ==
    claimGeneration + (CHOOSE i \in 1..TakeCount(n) : ready[i] = g)

Acquire(c, n) ==
    /\ phase' = [g \in Groups |-> IF g \in Taken(n) THEN "packing" ELSE phase[g]]
    /\ consumer' = [g \in Groups |-> IF g \in Taken(n) THEN c ELSE consumer[g]]
    /\ claim' = [g \in Groups |->
                    IF g \in Taken(n) THEN NextClaim(n, g) ELSE claim[g]]
    /\ claimGeneration' = claimGeneration + TakeCount(n)
    /\ ready' = SubSeq(ready, TakeCount(n) + 1, Len(ready))
    /\ UNCHANGED <<packing, usedRecords, usedBytes>>

Take(c, n) ==
    /\ hosted
    /\ pendingMinimum' =
          CASE TakeOutcome(c, n) = "pending" -> Request(c, n)
            [] TakeOutcome(c, n) \in {"cancelled", "leases"} -> None
            [] OTHER -> pendingMinimum
    /\ IF TakeOutcome(c, n) = "leases"
       THEN Acquire(c, n)
       ELSE UNCHANGED <<entryVars, claimGeneration>>
    /\ UNCHANGED <<limitVars, finished, minimumError, hosted>>

-----------------------------------------------------------------------------
(* mark_packed and release check every lease before they change any entry. *)

Lease(g) == [group |-> g, consumer |-> consumer[g], generation |-> claim[g]]

Leased(l) == l.group \in Entries /\ l = Lease(l.group)

CanMarkPacked(ls) == \A l \in ls : Leased(l) /\ phase[l.group] = "packing"

MarkPacked(ls, k) ==
    /\ hosted
    /\ LET gs == {l.group : l \in ls} IN
       IF CanMarkPacked(ls)
       THEN /\ phase' = [g \in Groups |-> IF g \in gs THEN "packed" ELSE phase[g]]
            /\ packing' = [g \in Groups |-> IF g \in gs THEN k ELSE packing[g]]
       ELSE UNCHANGED <<phase, packing>>
    /\ UNCHANGED <<ready, consumer, claim, usedRecords, usedBytes, limitVars,
                   finished, pendingMinimum, minimumError, claimGeneration,
                   hosted>>

(* Variant: a lease is not matched with an entry of the queue.              *)
CanReleaseTwice(ls, disposition, k) ==
    \A l \in ls : phase[l.group] = "packing" => disposition = "discarded"

CanRelease(ls, disposition, k) ==
    \A l \in ls :
       /\ Leased(l)
       /\ CASE phase[l.group] = "packing" ->
                  disposition = "discarded" /\ k = None
            [] phase[l.group] = "packed" -> k = packing[l.group]
            [] OTHER -> FALSE

Release(ls, disposition, k) ==
    /\ hosted
    /\ LET gs == {l.group : l \in ls} IN
       IF CanRelease(ls, disposition, k)
       THEN /\ phase' = [g \in Groups |-> IF g \in gs THEN "released" ELSE phase[g]]
            /\ usedRecords' = usedRecords - RecordTotal(gs)
            /\ usedBytes' = usedBytes - ByteTotal(gs)
       ELSE UNCHANGED <<phase, usedRecords, usedBytes>>
    /\ UNCHANGED <<ready, consumer, claim, packing, limitVars, finished,
                   pendingMinimum, minimumError, claimGeneration, hosted>>

-----------------------------------------------------------------------------

Finish ==
    /\ hosted
    /\ finished' = TRUE
    /\ UNCHANGED <<entryVars, limitVars, pendingMinimum, minimumError,
                   claimGeneration, hosted>>

(* close: the endpoint forgets the queue and returns the references of all *)
(* entries (Entries, read in the state before the step), leased or not.    *)
Close ==
    /\ hosted
    /\ phase' = [g \in Groups |-> IF g \in Entries THEN "released" ELSE phase[g]]
    /\ ready' = <<>>
    /\ usedRecords' = 0
    /\ usedBytes' = 0
    /\ finished' = TRUE
    /\ pendingMinimum' = None
    /\ minimumError' = FALSE
    /\ hosted' = FALSE
    /\ UNCHANGED <<consumer, claim, packing, limitVars, claimGeneration>>

-----------------------------------------------------------------------------
(* The store alone, driven by any legal client: a group is offered until   *)
(* it has left the queue (a retried enqueue repeats the same reference),   *)
(* leases are presented by whoever once received them, so possibly late.   *)

TakeCounts == (-MaxTake)..MaxTake

(* Every lease that was ever handed out and could still be presented.      *)
KnownLeases == {Lease(g) : g \in {h \in Groups : claim[h] > 0}}

Next ==
    \/ \E g \in Groups : phase[g] # "released" /\ Enqueue(g)
    \/ \E c \in Consumers, n \in TakeCounts : Take(c, n)
    \/ \E ls \in SUBSET KnownLeases, k \in Generations : MarkPacked(ls, k)
    \/ \E ls \in SUBSET KnownLeases, k \in Generations \cup {None},
          d \in {"consumed", "discarded"} : ls # {} /\ Release(ls, d, k)
    \/ \E m \in Sizes : Len(resizes) < MaxResizes /\ IssueResize(m)
    \/ \E k \in DOMAIN resizes : Resize(k)
    \/ Finish
    \/ Close

Spec == Init /\ [][Next]_vars

-----------------------------------------------------------------------------
(* Types of the store's state.                                             *)
TypeOK ==
    /\ phase \in [Groups -> Phases]
    /\ ready \in Seq(Groups)
    /\ consumer \in [Groups -> Consumers \cup {None}]
    /\ claim \in [Groups -> Nat]
    /\ packing \in [Groups -> Generations \cup {None}]
    /\ usedRecords \in Nat
    /\ usedBytes \in Nat
    /\ finished \in BOOLEAN
    /\ pendingMinimum \in
          {None} \cup [consumer : Consumers, count : Nat \ {0}]
    /\ minimumError \in BOOLEAN
    /\ maxReadyGroups \in Nat \ {0}
    /\ generation \in 0..Len(resizes)
    /\ claimGeneration \in Nat
    /\ hosted \in BOOLEAN
    /\ resizes \in Seq(Sizes)

(* The deque _ready and the phases of _entries describe the same groups: a *)
(* group is in the FIFO, and there once, exactly while its phase is        *)
(* "ready", so popleft in take never meets a leased or a removed entry.    *)
ReadyMatchesPhase ==
    /\ \A i, j \in DOMAIN ready : ready[i] = ready[j] => i = j
    /\ \A g \in Groups :
          phase[g] = "ready" <=> \E i \in DOMAIN ready : ready[i] = g

(* The counters _used_records and _used_bytes are the sizes of the entries *)
(* present and never exceed the capacities, whatever the order of inserts, *)
(* partly valid release operations and close.                              *)
UsageIsExact ==
    /\ usedRecords = RecordTotal(Entries)
    /\ usedBytes = ByteTotal(Entries)
    /\ usedRecords <= CapacityRecords
    /\ usedBytes <= CapacityBytes

(* A lease names one acquisition: entries under lease have an owner and a  *)
(* claim generation of their own, no ready entry has one, and only packed  *)
(* entries carry a packing generation.  It is what lets _leased_entry      *)
(* reject a lease that is not the current one.                             *)
LeasesAreExclusive ==
    /\ \A g \in Entries :
          IF phase[g] = "ready"
          THEN claim[g] = 0 /\ consumer[g] = None
          ELSE claim[g] \in 1..claimGeneration /\ consumer[g] \in Consumers
    /\ \A g \in Entries : phase[g] = "packed" <=> packing[g] # None
    /\ \A g, h \in Groups : claim[g] = claim[h] /\ claim[g] > 0 => g = h

(* The limit in force is the one of the newest resize the host has seen: a  *)
(* resize overtaken by a later one never brings its own limit back.         *)
LimitIsNewestResize ==
    [][/\ generation' >= generation
       /\ maxReadyGroups' = IF generation' = 0 THEN InitialMaxReady
                            ELSE resizes'[generation']]_vars

(* Groups leave the FIFO in the order they were accepted: when a group is  *)
(* acquired, every group accepted before it is acquired too, with a        *)
(* smaller claim generation.                                               *)
AcquiredInOrder ==
    [][\A i, j \in DOMAIN ready :
          i < j /\ phase'[ready[j]] = "packing" =>
             phase'[ready[i]] = "packing" /\ claim'[ready[i]] < claim'[ready[j]]]_vars

(* A group a consumer leases is never given away: until the entry is       *)
(* removed, its consumer and claim stay, whatever other consumers and the  *)
(* producers do.                                                           *)
LeaseIsStable ==
    [][\A g \in Entries :
          phase[g] # "ready" /\ phase'[g] # "released" =>
             /\ consumer'[g] = consumer[g]
             /\ claim'[g] = claim[g]
             /\ phase[g] = "packed" => phase'[g] = "packed" /\ packing'[g] = packing[g]]_vars

(* A pending minimum belongs to one consumer.  While the queue is hosted   *)
(* it ends only by a take of that consumer, which withdraws it or meets    *)
(* it, and no step replaces it; a take of any other consumer, of whatever  *)
(* count, a withdrawal (count zero) included, leaves it in place; and the  *)
(* groups being collected for it are acquired by nobody else.              *)
MinimumIsExclusive ==
    [][pendingMinimum # None /\ hosted' =>
          /\ pendingMinimum' # pendingMinimum =>
                /\ pendingMinimum' = None
                /\ \E n \in TakeCounts : Take(pendingMinimum.consumer, n)
                /\ \A c \in Consumers \ {pendingMinimum.consumer}, n \in TakeCounts :
                      ~Take(c, n)
          /\ \A g \in Groups :
                phase[g] = "ready" /\ phase'[g] = "packing" =>
                   consumer'[g] = pendingMinimum.consumer]_vars

=============================================================================
