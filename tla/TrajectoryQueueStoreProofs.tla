--------------------- MODULE TrajectoryQueueStoreProofs ---------------------
(***************************************************************************)
(* Proofs about TrajectoryQueueStore for all groups, consumers, capacities *)
(* and sizes.  The parts of Inv are inductive only together: a release    *)
(* keeps the counters natural because they are exact, they stay exact      *)
(* because the ready FIFO holds only entries and the entries are finite,   *)
(* and a lease is unique because a group enters the queue once.            *)
(***************************************************************************)
EXTENDS TrajectoryQueueStore, SequenceTheorems, FiniteSetTheorems,
        WellFoundedInduction, TLAPS

(* The life of a group's lease data: none before the acquisition, a claim  *)
(* generation of its own and an owner from then on, and a packing          *)
(* generation from mark_packed on.                                         *)
Claims ==
    /\ \A g \in Groups : claim[g] <= claimGeneration
    /\ \A g \in Groups :
          phase[g] \in {"absent", "ready"} =>
             claim[g] = 0 /\ consumer[g] = None /\ packing[g] = None
    /\ \A g \in Groups :
          phase[g] \in {"packing", "packed"} =>
             claim[g] > 0 /\ consumer[g] \in Consumers
    /\ \A g \in Groups :
          /\ phase[g] = "packing" => packing[g] = None
          /\ phase[g] = "packed" => packing[g] # None
    /\ \A g, h \in Groups : claim[g] = claim[h] /\ claim[g] > 0 => g = h

(* Groups may be infinite: the entries are what an enqueue at a time made. *)
EntriesAreFinite == IsFiniteSet(Entries)

Inv == TypeOK /\ ReadyMatchesPhase /\ UsageIsExact /\ Claims /\ EntriesAreFinite

-----------------------------------------------------------------------------
(* The operators of take.                                                  *)

LEMMA LimitType ==
    ASSUME NEW n \in Int
    PROVE  Limit(n) \in Nat /\ (n # 0 => Limit(n) # 0)
  BY DEF Limit

LEMMA TakeCountType ==
    ASSUME TypeOK, NEW n \in Int
    PROVE  TakeCount(n) \in Nat /\ TakeCount(n) <= Len(ready)
<1>1. Len(ready) \in Nat
  BY LenProperties DEF TypeOK
<1> QED
  BY <1>1, LimitType DEF TakeCount

LEMMA TakenInGroups ==
    ASSUME TypeOK, NEW n \in Int, NEW g \in Taken(n)
    PROVE  g \in Groups /\ \E i \in 1..TakeCount(n) : i \in DOMAIN ready /\ ready[i] = g
<1>1. PICK i \in 1..TakeCount(n) : ready[i] = g
  BY DEF Taken
<1>2. i \in 1..Len(ready)
  BY <1>1, TakeCountType, LenProperties DEF TypeOK
<1>3. ready[i] \in Groups /\ i \in DOMAIN ready
  BY <1>2, ElementOfSeq, LenProperties DEF TypeOK
<1> QED
  BY <1>1, <1>3

LEMMA NextClaimIsFresh ==
    ASSUME TypeOK, NEW n \in Int, NEW g \in Taken(n)
    PROVE  /\ NextClaim(n, g) \in Nat
           /\ NextClaim(n, g) > claimGeneration
           /\ NextClaim(n, g) <= claimGeneration + TakeCount(n)
           /\ ready[NextClaim(n, g) - claimGeneration] = g
<1> DEFINE i == CHOOSE j \in 1..TakeCount(n) : ready[j] = g
<1>1. i \in 1..TakeCount(n) /\ ready[i] = g
  BY DEF Taken
<1>2. TakeCount(n) \in Nat /\ claimGeneration \in Nat
  BY TakeCountType DEF TypeOK
<1>3. NextClaim(n, g) = claimGeneration + i
  BY DEF NextClaim
<1> HIDE DEF i
<1>4. NextClaim(n, g) - claimGeneration = i
  BY <1>1, <1>2, <1>3
<1> QED
  BY <1>1, <1>2, <1>3, <1>4

(* The FIFO that a take of n leaves.                                       *)
Rest(n) == SubSeq(ready, TakeCount(n) + 1, Len(ready))

LEMMA ReadyTail ==
    ASSUME TypeOK, NEW n \in Int
    PROVE  /\ Rest(n) \in Seq(Groups)
           /\ Len(Rest(n)) = Len(ready) - TakeCount(n)
           /\ \A i \in 1..(Len(ready) - TakeCount(n)) :
                 Rest(n)[i] = ready[TakeCount(n) + i]
<1> DEFINE c == TakeCount(n)
<1>1. c \in Nat /\ c <= Len(ready) /\ Len(ready) \in Nat
  BY TakeCountType, LenProperties DEF TypeOK
<1>a. Rest(n) = SubSeq(ready, c + 1, Len(ready)) /\ TakeCount(n) = c
  BY DEF Rest
<1> HIDE DEF c
<1>2. \A i \in (c + 1)..Len(ready) : ready[i] \in Groups
  <2> TAKE i \in (c + 1)..Len(ready)
  <2>1. i \in 1..Len(ready)
    BY <1>1
  <2> QED
    BY <2>1, ElementOfSeq DEF TypeOK
<1>3. /\ SubSeq(ready, c + 1, Len(ready)) \in Seq(Groups)
      /\ Len(SubSeq(ready, c + 1, Len(ready))) =
            IF c + 1 <= Len(ready) THEN Len(ready) - (c + 1) + 1 ELSE 0
      /\ \A i \in 1..(Len(ready) - (c + 1) + 1) :
            SubSeq(ready, c + 1, Len(ready))[i] = ready[(c + 1) + i - 1]
  <2>1. c + 1 \in Int /\ Len(ready) \in Int
    BY <1>1
  <2> QED
    BY <1>2, <2>1, SubSeqProperties
<1>4. Len(ready) - (c + 1) + 1 = Len(ready) - c
  BY <1>1
<1>5. Len(SubSeq(ready, c + 1, Len(ready))) = Len(ready) - c
  <2>1. CASE c + 1 <= Len(ready)
    BY <1>1, <1>3, <1>4, <2>1
  <2>2. CASE ~(c + 1 <= Len(ready))
    <3>1. Len(ready) - c = 0
      BY <1>1, <2>2
    <3> QED
      BY <1>3, <2>2, <3>1
  <2> QED
    BY <2>1, <2>2
<1>6. \A i \in 1..(Len(ready) - c) :
         SubSeq(ready, c + 1, Len(ready))[i] = ready[c + i]
  <2> TAKE i \in 1..(Len(ready) - c)
  <2>1. i \in 1..(Len(ready) - (c + 1) + 1) /\ (c + 1) + i - 1 = c + i
    BY <1>1, <1>4
  <2>2. SubSeq(ready, c + 1, Len(ready))[i] = ready[(c + 1) + i - 1]
    BY <1>3, <2>1
  <2> QED
    BY <2>1, <2>2
<1> QED
  BY <1>a, <1>3, <1>5, <1>6

(* What take leaves of the FIFO, and which groups it acquires, when the    *)
(* FIFO holds each group once.                                             *)
LEMMA TakenIsFront ==
    ASSUME TypeOK, ReadyMatchesPhase, NEW n \in Int, NEW g \in Groups
    PROVE  /\ g \in Taken(n) => phase[g] = "ready"
           /\ (\E i \in DOMAIN Rest(n) : Rest(n)[i] = g)
                 <=> phase[g] = "ready" /\ g \notin Taken(n)
<1> DEFINE c == TakeCount(n)
<1>1. /\ c \in Nat /\ c <= Len(ready) /\ Len(ready) \in Nat
      /\ DOMAIN ready = 1..Len(ready)
  BY TakeCountType, LenProperties DEF TypeOK
<1>2. /\ DOMAIN Rest(n) = 1..(Len(ready) - c)
      /\ \A i \in 1..(Len(ready) - c) : Rest(n)[i] = ready[c + i]
  BY ReadyTail, LenProperties
<1>3. g \in Taken(n) <=> \E i \in 1..c : ready[i] = g
  BY DEF Taken
<1> HIDE DEF c
<1>4. (\E i \in DOMAIN Rest(n) : Rest(n)[i] = g)
         <=> \E i \in (c + 1)..Len(ready) : ready[i] = g
  <2>1. ASSUME NEW i \in DOMAIN Rest(n), Rest(n)[i] = g
        PROVE  \E j \in (c + 1)..Len(ready) : ready[j] = g
    <3>1. c + i \in (c + 1)..Len(ready) /\ ready[c + i] = g
      BY <1>1, <1>2, <2>1
    <3> QED
      BY <3>1
  <2>2. ASSUME NEW i \in (c + 1)..Len(ready), ready[i] = g
        PROVE  \E j \in DOMAIN Rest(n) : Rest(n)[j] = g
    <3>1. i - c \in 1..(Len(ready) - c) /\ c + (i - c) = i
      BY <1>1
    <3>2. Rest(n)[i - c] = g
      BY <1>2, <2>2, <3>1
    <3> QED
      BY <1>2, <3>1, <3>2
  <2> QED
    BY <2>1, <2>2
<1>5. phase[g] = "ready" <=> \E i \in 1..Len(ready) : ready[i] = g
  BY <1>1 DEF ReadyMatchesPhase
<1>6. \A i, j \in 1..Len(ready) : ready[i] = ready[j] => i = j
  BY <1>1 DEF ReadyMatchesPhase
<1> QED
  BY <1>1, <1>3, <1>4, <1>5, <1>6

-----------------------------------------------------------------------------

LEMMA EntriesInGroups == Entries \subseteq Groups
  BY DEF Entries

LEMMA LeasedGroups ==
    ASSUME NEW ls, \A l \in ls : Leased(l)
    PROVE  {l.group : l \in ls} \subseteq Entries
  BY DEF Leased

-----------------------------------------------------------------------------
(* What each action does to the entries.                                   *)

LEMMA EnqueueEntries ==
    ASSUME TypeOK, NEW g \in Groups, phase[g] # "released", Inserts(g), Enqueue(g)
    PROVE  /\ phase[g] = "absent"
           /\ phase' = [phase EXCEPT ![g] = "ready"]
           /\ Entries' = Entries \cup {g}
<1>1. phase[g] = "absent"
  BY DEF TypeOK, Phases, Inserts, Entries
<1>2. phase' = [phase EXCEPT ![g] = "ready"]
  BY DEF Enqueue
<1>3. \A h \in Groups : phase'[h] = IF h = g THEN "ready" ELSE phase[h]
  BY <1>2 DEF TypeOK
<1>4. \A h : h \in Entries' <=> h \in Entries \cup {g}
  BY <1>1, <1>3 DEF Entries
<1> QED
  BY <1>1, <1>2, <1>4

LEMMA TakeEntries ==
    ASSUME TypeOK, ReadyMatchesPhase, NEW c, NEW n \in Int, Take(c, n)
    PROVE  Entries' = Entries
<1>1. CASE TakeOutcome(c, n) = "leases"
  <2>1. \A g \in Groups : phase'[g] = IF g \in Taken(n) THEN "packing" ELSE phase[g]
    BY <1>1 DEF Take, Acquire
  <2>2. \A g \in Groups : g \in Taken(n) => phase[g] = "ready"
    BY TakenIsFront
  <2> QED
    BY <2>1, <2>2 DEF Entries
<1>2. CASE TakeOutcome(c, n) # "leases"
  BY <1>2 DEF Take, entryVars, Entries
<1> QED
  BY <1>1, <1>2

LEMMA MarkPackedEntries ==
    ASSUME NEW ls, NEW k, MarkPacked(ls, k)
    PROVE  Entries' = Entries
<1> DEFINE gs == {l.group : l \in ls}
<1>1. CASE CanMarkPacked(ls)
  <2>1. gs \subseteq Entries
    BY <1>1, LeasedGroups DEF CanMarkPacked
  <2>2. \A g \in Groups : phase'[g] = IF g \in gs THEN "packed" ELSE phase[g]
    BY <1>1 DEF MarkPacked
  <2> QED
    BY <2>1, <2>2 DEF Entries
<1>2. CASE ~CanMarkPacked(ls)
  BY <1>2 DEF MarkPacked, Entries
<1> QED
  BY <1>1, <1>2

LEMMA ReleaseEntries ==
    ASSUME NEW ls, NEW d, NEW k, Release(ls, d, k), CanRelease(ls, d, k)
    PROVE  /\ {l.group : l \in ls} \in SUBSET Entries
           /\ Entries' = Entries \ {l.group : l \in ls}
<1> DEFINE gs == {l.group : l \in ls}
<1>1. gs \subseteq Entries
  BY LeasedGroups DEF CanRelease
<1>2. \A g \in Groups : phase'[g] = IF g \in gs THEN "released" ELSE phase[g]
  BY DEF Release
<1> QED
  BY <1>1, <1>2 DEF Entries

LEMMA CloseEntries == Close => Entries' = {}
<1> SUFFICES ASSUME Close PROVE Entries' = {}
  OBVIOUS
<1>1. \A g \in Groups : phase'[g] = IF g \in Entries THEN "released" ELSE phase[g]
  BY DEF Close
<1> QED
  BY <1>1 DEF Entries

-----------------------------------------------------------------------------
(* Totals.  A fold over a set is a CHOOSE of a function on its subsets, so *)
(* that the totals are what one expects of a sum, whatever order the       *)
(* groups are added in, is an induction over finite sets: of a family of   *)
(* finite sets one is smallest.                                            *)

LEMMA NatMin ==
    ASSUME NEW T, T \subseteq Nat, T # {}
    PROVE  \E x \in T : \A y \in T : x <= y
<1> DEFINE R == OpToRel(<, Nat)
<1>1. IsWellFoundedOn(R, Nat)
  BY NatLessThanWellFounded
<1>2. \A x, y \in Nat : x < y => <<x, y>> \in R
  BY DEF OpToRel
<1> HIDE DEF R
<1>3. PICK x \in T : \A y \in T : ~(<<y, x>> \in R)
  BY <1>1, WFMin
<1>4. \A y \in T : ~(y < x)
  BY <1>2, <1>3
<1> QED
  BY <1>3, <1>4

(* Induction on the size of finite sets: of any such sets one is smallest. *)
LEMMA Smallest ==
    ASSUME NEW T, T # {}, \A s \in T : IsFiniteSet(s)
    PROVE  \E s \in T : \A r \in T : Cardinality(s) <= Cardinality(r)
<1> DEFINE N == {Cardinality(s) : s \in T}
<1>1. N \subseteq Nat /\ N # {}
  BY FS_CardinalityType
<1>2. PICK n \in N : \A m \in N : n <= m
  BY <1>1, NatMin
<1>3. PICK s \in T : Cardinality(s) = n
  OBVIOUS
<1> QED
  BY <1>2, <1>3

(* RecordTotal and ByteTotal for a function f, and the function on the     *)
(* subsets D that MapThenSumSet chooses: it takes out the elements in the  *)
(* order of Pick.                                                          *)
Pick(s) == CHOOSE x \in s : TRUE

IsFold(f, D, iter) ==
    iter = [s \in D |-> IF s = {} THEN 0 ELSE f[Pick(s)] + iter[s \ {Pick(s)}]]

TotalOf(f, gs) == MapThenSumSet(LAMBDA g : f[g], gs)

LEMMA TotalIs ==
    ASSUME NEW f, NEW gs
    PROVE  TotalOf(f, gs) = (CHOOSE iter : IsFold(f, SUBSET gs, iter))[gs]
  BY DEF TotalOf, MapThenSumSet, MapThenFoldSet, IsFold, Pick

LEMMA PickIn ==
    ASSUME NEW s, s # {}
    PROVE  Pick(s) \in s
  BY DEF Pick

(* There is such a function: one on the small subsets extends to larger    *)
(* ones.                                                                   *)
LEMMA FoldExists ==
    ASSUME NEW f, NEW gs, IsFiniteSet(gs)
    PROVE  \E iter : IsFold(f, SUBSET gs, iter)
<1> DEFINE Small(n) == {s \in SUBSET gs : Cardinality(s) <= n}
           Bad == {n \in Nat : ~ \E iter : IsFold(f, Small(n), iter)}
<1>1. \A s \in SUBSET gs : IsFiniteSet(s) /\ Cardinality(s) \in Nat /\ Cardinality(s) <= Cardinality(gs)
  BY FS_Subset, FS_CardinalityType
<1>2. Bad = {}
  <2> SUFFICES ASSUME Bad # {} PROVE FALSE
    OBVIOUS
  <2>1. Bad \subseteq Nat
    OBVIOUS
  <2> HIDE DEF Bad
  <2>2. PICK n \in Bad : \A m \in Bad : n <= m
    BY <2>1, NatMin
  <2>3. n \in Nat /\ ~ \E iter : IsFold(f, Small(n), iter)
    BY <2>2 DEF Bad
  <2>4. CASE n = 0
    <3>1. Small(0) = {{}}
      <4>1. \A s \in SUBSET gs : Cardinality(s) <= 0 <=> s = {}
        BY <1>1, FS_EmptySet
      <4> QED
        BY <4>1
    <3>2. IsFold(f, Small(0), [s \in Small(0) |-> 0])
      BY <3>1 DEF IsFold
    <3> QED
      BY <2>3, <2>4, <3>2
  <2>5. CASE n # 0
    <3>1. n - 1 \in Nat /\ ~(n <= n - 1)
      BY <2>3, <2>5
    <3>2. n - 1 \notin Bad
      BY <2>2, <3>1
    <3>3. PICK g : IsFold(f, Small(n - 1), g)
      BY <3>1, <3>2 DEF Bad
    <3> DEFINE D == Small(n)
               E == Small(n - 1)
               h == [s \in D |-> IF s = {} THEN 0 ELSE f[Pick(s)] + g[s \ {Pick(s)}]]
    <3>4. \A s \in D : s # {} => s \ {Pick(s)} \in E /\ s \ {Pick(s)} \in D
      <4> SUFFICES ASSUME NEW s \in D, s # {}
                   PROVE  s \ {Pick(s)} \in E /\ s \ {Pick(s)} \in D
        OBVIOUS
      <4>1. Pick(s) \in s
        BY PickIn
      <4>2. s \in SUBSET gs /\ IsFiniteSet(s) /\ Cardinality(s) \in Nat /\ Cardinality(s) <= n
        BY <1>1
      <4>3. Cardinality(s \ {Pick(s)}) = Cardinality(s) - 1
        BY <4>1, <4>2, FS_RemoveElement
      <4> QED
        BY <2>3, <4>2, <4>3
    <3>5. E \subseteq D
      <4>1. \A s \in SUBSET gs : Cardinality(s) <= n - 1 => Cardinality(s) <= n
        BY <1>1, <2>3
      <4> QED
        BY <4>1
    <3> HIDE DEF D, E
    <3>6. \A s \in E : h[s] = g[s]
      <4>1. \A s \in E : g[s] = IF s = {} THEN 0 ELSE f[Pick(s)] + g[s \ {Pick(s)}]
        BY <3>3 DEF IsFold, E
      <4> QED
        BY <3>5, <4>1
    <3>7. h = [s \in D |-> IF s = {} THEN 0 ELSE f[Pick(s)] + h[s \ {Pick(s)}]]
      <4>1. \A s \in D : s # {} => h[s \ {Pick(s)}] = g[s \ {Pick(s)}]
        BY <3>4, <3>6
      <4> HIDE DEF h
      <4>2. h = [s \in D |-> IF s = {} THEN 0 ELSE f[Pick(s)] + g[s \ {Pick(s)}]]
        BY DEF h
      <4> QED
        BY <4>1, <4>2
    <3> HIDE DEF h
    <3>8. IsFold(f, Small(n), h)
      BY <3>7 DEF IsFold, D
    <3> QED
      BY <2>3, <3>8
  <2> QED
    BY <2>4, <2>5
<1>3. Small(Cardinality(gs)) = SUBSET gs /\ Cardinality(gs) \in Nat
  BY <1>1
<1>4. Cardinality(gs) \notin Bad
  BY <1>2
<1> QED
  BY <1>3, <1>4

(* Two of them have the same value where both are defined.                 *)
LEMMA FoldsAgree ==
    ASSUME NEW f, NEW a, NEW b, NEW i, NEW j, IsFiniteSet(a),
           IsFold(f, SUBSET a, i), IsFold(f, SUBSET b, j), NEW s \in SUBSET a, s \subseteq b
    PROVE  i[s] = j[s]
<1> DEFINE Bad == {r \in SUBSET a : r \subseteq b /\ i[r] # j[r]}
<1>1. Bad = {}
  <2> SUFFICES ASSUME Bad # {} PROVE FALSE
    OBVIOUS
  <2>1. \A r \in Bad : IsFiniteSet(r)
    BY FS_Subset
  <2> HIDE DEF Bad
  <2>2. PICK r \in Bad : \A q \in Bad : Cardinality(r) <= Cardinality(q)
    BY <2>1, Smallest
  <2>3. r \in SUBSET a /\ r \subseteq b /\ i[r] # j[r] /\ IsFiniteSet(r)
    BY <2>1, <2>2 DEF Bad
  <2>4. /\ i[r] = IF r = {} THEN 0 ELSE f[Pick(r)] + i[r \ {Pick(r)}]
        /\ j[r] = IF r = {} THEN 0 ELSE f[Pick(r)] + j[r \ {Pick(r)}]
    BY <2>3 DEF IsFold
  <2>5. r # {}
    BY <2>3, <2>4
  <2>6. Cardinality(r \ {Pick(r)}) = Cardinality(r) - 1 /\ Cardinality(r) \in Nat
    BY <2>3, <2>5, PickIn, FS_RemoveElement, FS_CardinalityType
  <2>7. r \ {Pick(r)} \notin Bad
    BY <2>2, <2>6
  <2>8. i[r \ {Pick(r)}] = j[r \ {Pick(r)}]
    BY <2>3, <2>7 DEF Bad
  <2> QED
    BY <2>3, <2>4, <2>8
<1> QED
  BY <1>1

(* So a total is the value of the element picked and the total of the rest.*)
LEMMA TotalStep ==
    ASSUME NEW f, NEW gs, IsFiniteSet(gs)
    PROVE  TotalOf(f, gs) = IF gs = {} THEN 0 ELSE f[Pick(gs)] + TotalOf(f, gs \ {Pick(gs)})
<1> DEFINE It(s) == CHOOSE iter : IsFold(f, SUBSET s, iter)
<1>1. \A s : IsFiniteSet(s) => IsFold(f, SUBSET s, It(s))
  BY FoldExists
<1>2. \A s : TotalOf(f, s) = It(s)[s]
  BY TotalIs
<1> HIDE DEF It
<1>3. IsFold(f, SUBSET gs, It(gs))
  BY <1>1
<1>4. It(gs)[gs] = IF gs = {} THEN 0 ELSE f[Pick(gs)] + It(gs)[gs \ {Pick(gs)}]
  BY <1>3 DEF IsFold
<1> DEFINE r == gs \ {Pick(gs)}
<1>5. IsFiniteSet(r) /\ r \in SUBSET gs
  BY FS_Subset
<1> HIDE DEF r
<1>6. It(gs)[r] = It(r)[r]
  <2>1. IsFold(f, SUBSET r, It(r))
    BY <1>1, <1>5
  <2> QED
    BY <1>3, <1>5, <2>1, FoldsAgree
<1> QED
  BY <1>2, <1>4, <1>6 DEF r

LEMMA TotalType ==
    ASSUME NEW G, NEW f \in [G -> Nat], NEW gs \in SUBSET G, IsFiniteSet(gs)
    PROVE  TotalOf(f, gs) \in Nat
<1> DEFINE Bad == {s \in SUBSET gs : TotalOf(f, s) \notin Nat}
<1>1. Bad = {}
  <2> SUFFICES ASSUME Bad # {} PROVE FALSE
    OBVIOUS
  <2>1. \A r \in Bad : IsFiniteSet(r)
    BY FS_Subset
  <2> HIDE DEF Bad
  <2>2. PICK s \in Bad : \A q \in Bad : Cardinality(s) <= Cardinality(q)
    BY <2>1, Smallest
  <2>3. s \in SUBSET gs /\ TotalOf(f, s) \notin Nat /\ IsFiniteSet(s)
    BY <2>1, <2>2 DEF Bad
  <2>4. TotalOf(f, s) = IF s = {} THEN 0 ELSE f[Pick(s)] + TotalOf(f, s \ {Pick(s)})
    BY <2>3, TotalStep
  <2>5. s # {}
    BY <2>3, <2>4
  <2>6. Cardinality(s \ {Pick(s)}) = Cardinality(s) - 1 /\ Cardinality(s) \in Nat
    BY <2>3, <2>5, PickIn, FS_RemoveElement, FS_CardinalityType
  <2>7. s \ {Pick(s)} \notin Bad
    BY <2>2, <2>6
  <2>8. TotalOf(f, s \ {Pick(s)}) \in Nat
    BY <2>3, <2>7 DEF Bad
  <2>9. f[Pick(s)] \in Nat
    BY <2>3, <2>5, PickIn
  <2> QED
    BY <2>3, <2>4, <2>5, <2>8, <2>9
<1> QED
  BY <1>1

(* Whatever order the fold takes, an element more adds its value.          *)
LEMMA TotalAdds ==
    ASSUME NEW G, NEW f \in [G -> Nat], NEW gs \in SUBSET G, IsFiniteSet(gs),
           NEW g \in G, g \notin gs
    PROVE  TotalOf(f, gs \cup {g}) = TotalOf(f, gs) + f[g]
<1> DEFINE Bad == {s \in SUBSET G : /\ IsFiniteSet(s)
                                    /\ \E x \in G \ s : TotalOf(f, s \cup {x}) # TotalOf(f, s) + f[x]}
<1>1. Bad = {}
  <2> SUFFICES ASSUME Bad # {} PROVE FALSE
    OBVIOUS
  <2>1. \A r \in Bad : IsFiniteSet(r)
    OBVIOUS
  <2> HIDE DEF Bad
  <2>2. PICK s \in Bad : \A q \in Bad : Cardinality(s) <= Cardinality(q)
    BY <2>1, Smallest
  <2>3. s \in SUBSET G /\ IsFiniteSet(s)
    BY <2>2 DEF Bad
  <2>4. PICK x \in G \ s : TotalOf(f, s \cup {x}) # TotalOf(f, s) + f[x]
    BY <2>2 DEF Bad
  <2> DEFINE c == Pick(s \cup {x})
             r == s \ {c}
  <2>5. c \in s \cup {x} /\ IsFiniteSet(s \cup {x})
    <3>1. s \cup {x} # {}
      OBVIOUS
    <3>2. c \in s \cup {x}
      BY <3>1, PickIn
    <3> QED
      BY <2>3, <3>2, FS_AddElement
  <2> HIDE DEF c
  <2>6. TotalOf(f, s \cup {x}) = f[c] + TotalOf(f, (s \cup {x}) \ {c})
    BY <2>5, TotalStep DEF c
  <2>7. TotalOf(f, s) \in Nat /\ f[c] \in Nat /\ f[x] \in Nat
    BY <2>3, <2>4, <2>5, TotalType
  <2>8. c # x
    <3>1. ASSUME c = x PROVE FALSE
      <4>1. (s \cup {x}) \ {c} = s
        BY <2>4, <3>1
      <4>2. TotalOf(f, s \cup {x}) = f[x] + TotalOf(f, s)
        BY <2>6, <3>1, <4>1
      <4> QED
        BY <2>4, <2>7, <3>1, <4>2
    <3> QED
      BY <3>1
  <2>9. c \in s /\ (s \cup {x}) \ {c} = r \cup {x} /\ s = r \cup {c}
    BY <2>5, <2>8
  <2>10. /\ r \in SUBSET G /\ IsFiniteSet(r) /\ Cardinality(s) \in Nat
         /\ Cardinality(r) = Cardinality(s) - 1 /\ x \in G \ r /\ c \in G \ r
    BY <2>3, <2>4, <2>9, FS_RemoveElement, FS_CardinalityType
  <2> HIDE DEF r
  <2>11. r \notin Bad
    BY <2>2, <2>10
  <2>12. TotalOf(f, r \cup {x}) = TotalOf(f, r) + f[x] /\ TotalOf(f, r \cup {c}) = TotalOf(f, r) + f[c]
    BY <2>10, <2>11 DEF Bad
  <2>13. TotalOf(f, r) \in Nat
    BY <2>10, TotalType
  <2>14. TotalOf(f, s) = TotalOf(f, r) + f[c] /\ TotalOf(f, s \cup {x}) = f[c] + (TotalOf(f, r) + f[x])
    BY <2>6, <2>9, <2>12
  <2> QED
    BY <2>4, <2>7, <2>13, <2>14
<1> QED
  BY <1>1

(* Taking groups out takes their total away.                               *)
LEMMA TotalRemoves ==
    ASSUME NEW G, NEW f \in [G -> Nat], NEW gs \in SUBSET G, IsFiniteSet(gs),
           NEW hs \in SUBSET gs
    PROVE  TotalOf(f, gs \ hs) = TotalOf(f, gs) - TotalOf(f, hs)
<1> DEFINE Bad == {s \in SUBSET gs : TotalOf(f, gs \ s) # TotalOf(f, gs) - TotalOf(f, s)}
<1>1. Bad = {}
  <2> SUFFICES ASSUME Bad # {} PROVE FALSE
    OBVIOUS
  <2>1. \A r \in SUBSET gs : IsFiniteSet(r) /\ TotalOf(f, r) \in Nat
    <3>1. \A r \in SUBSET gs : IsFiniteSet(r) /\ r \in SUBSET G
      BY FS_Subset
    <3> QED
      BY <3>1, TotalType
  <2>2. Bad \subseteq SUBSET gs
    OBVIOUS
  <2> HIDE DEF Bad
  <2>3. PICK s \in Bad : \A q \in Bad : Cardinality(s) <= Cardinality(q)
    BY <2>1, <2>2, Smallest
  <2>4. s \in SUBSET gs /\ TotalOf(f, gs \ s) # TotalOf(f, gs) - TotalOf(f, s)
    BY <2>3 DEF Bad
  <2>5. s # {}
    <3>1. gs \ {} = gs /\ TotalOf(f, {}) = 0
      BY TotalStep, FS_EmptySet
    <3> QED
      BY <2>1, <2>4, <3>1
  <2>6. PICK x : x \in s
    BY <2>5
  <2> DEFINE r == s \ {x}
  <2>7. /\ r \in SUBSET gs /\ r \cup {x} = s /\ gs \ r = (gs \ s) \cup {x}
        /\ x \notin r /\ x \notin gs \ s /\ x \in G
    BY <2>4, <2>6
  <2>8. Cardinality(r) = Cardinality(s) - 1 /\ Cardinality(s) \in Nat
    BY <2>1, <2>4, <2>6, FS_RemoveElement, FS_CardinalityType
  <2> HIDE DEF r
  <2>9. TotalOf(f, gs \ r) = TotalOf(f, gs) - TotalOf(f, r)
    <3>1. r \notin Bad
      BY <2>3, <2>8
    <3> QED
      BY <2>7, <3>1 DEF Bad
  <2>10. TotalOf(f, s) = TotalOf(f, r) + f[x]
    <3>1. r \in SUBSET G /\ IsFiniteSet(r)
      BY <2>1, <2>7
    <3> QED
      BY <2>7, <3>1, TotalAdds
  <2>11. TotalOf(f, gs \ r) = TotalOf(f, gs \ s) + f[x]
    <3>1. gs \ s \in SUBSET G /\ IsFiniteSet(gs \ s)
      BY <2>1
    <3> QED
      BY <2>7, <3>1, TotalAdds
  <2>12. {TotalOf(f, gs), TotalOf(f, r), TotalOf(f, s), TotalOf(f, gs \ s), f[x]} \subseteq Nat
    BY <2>1, <2>4, <2>7
  <2> QED
    BY <2>4, <2>9, <2>10, <2>11, <2>12
<1> QED
  BY <1>1

(* The total sizes of the entries follow the groups that come and go.      *)

LEMMA TotalsOfEmpty == RecordTotal({}) = 0 /\ ByteTotal({}) = 0
<1>1. TotalOf(Records, {}) = 0 /\ TotalOf(Bytes, {}) = 0
  BY FS_EmptySet, TotalStep
<1> QED
  BY <1>1 DEF RecordTotal, ByteTotal, TotalOf

LEMMA TotalsOfInsert ==
    ASSUME NEW gs \in SUBSET Groups, IsFiniteSet(gs), NEW g \in Groups \ gs
    PROVE  /\ RecordTotal(gs \cup {g}) = RecordTotal(gs) + Records[g]
           /\ ByteTotal(gs \cup {g}) = ByteTotal(gs) + Bytes[g]
<1>1. TotalOf(Records, gs \cup {g}) = TotalOf(Records, gs) + Records[g]
  BY SizesAssumption, TotalAdds
<1>2. TotalOf(Bytes, gs \cup {g}) = TotalOf(Bytes, gs) + Bytes[g]
  BY SizesAssumption, TotalAdds
<1> QED
  BY <1>1, <1>2 DEF RecordTotal, ByteTotal, TotalOf

LEMMA TotalsOfRemove ==
    ASSUME NEW gs \in SUBSET Groups, IsFiniteSet(gs), NEW hs \in SUBSET gs
    PROVE  /\ RecordTotal(gs \ hs) = RecordTotal(gs) - RecordTotal(hs)
           /\ ByteTotal(gs \ hs) = ByteTotal(gs) - ByteTotal(hs)
           /\ RecordTotal(gs \ hs) \in Nat /\ RecordTotal(hs) \in Nat
           /\ ByteTotal(gs \ hs) \in Nat /\ ByteTotal(hs) \in Nat
<1>1. /\ gs \ hs \in SUBSET Groups /\ IsFiniteSet(gs \ hs)
      /\ hs \in SUBSET Groups /\ IsFiniteSet(hs)
  BY FS_Subset
<1>2. ASSUME NEW f \in [Groups -> Nat]
      PROVE  /\ TotalOf(f, gs \ hs) = TotalOf(f, gs) - TotalOf(f, hs)
             /\ TotalOf(f, gs \ hs) \in Nat /\ TotalOf(f, hs) \in Nat
  BY <1>1, TotalRemoves, TotalType
<1>3. /\ TotalOf(Records, gs \ hs) = TotalOf(Records, gs) - TotalOf(Records, hs)
      /\ TotalOf(Records, gs \ hs) \in Nat /\ TotalOf(Records, hs) \in Nat
  BY <1>2, SizesAssumption
<1>4. /\ TotalOf(Bytes, gs \ hs) = TotalOf(Bytes, gs) - TotalOf(Bytes, hs)
      /\ TotalOf(Bytes, gs \ hs) \in Nat /\ TotalOf(Bytes, hs) \in Nat
  BY <1>2, SizesAssumption
<1> QED
  BY <1>3, <1>4 DEF RecordTotal, ByteTotal, TotalOf

-----------------------------------------------------------------------------

LEMMA InitInv == Init => Inv
<1> SUFFICES ASSUME Init PROVE Inv
  OBVIOUS
<1> USE DEF Init
<1>1. Entries = {}
  BY DEF Entries
<1>2. RecordTotal({}) = 0 /\ ByteTotal({}) = 0
  BY TotalsOfEmpty
<1>3. TypeOK
  <2>1. ready \in Seq(Groups) /\ resizes \in Seq(Sizes) /\ Len(resizes) = 0
    BY EmptySeq
  <2>2. /\ phase \in [Groups -> Phases]
        /\ consumer \in [Groups -> Consumers \cup {None}]
        /\ claim \in [Groups -> Nat]
        /\ packing \in [Groups -> Generations \cup {None}]
    BY DEF Phases
  <2>3. maxReadyGroups \in Nat \ {0} /\ generation \in 0..Len(resizes)
    BY <2>1, SizesAssumption
  <2> QED
    BY <2>1, <2>2, <2>3 DEF TypeOK
<1>4. ReadyMatchesPhase
  BY DEF ReadyMatchesPhase
<1>5. UsageIsExact
  BY <1>1, <1>2, SizesAssumption DEF UsageIsExact
<1>6. Claims
  BY DEF Claims
<1>7. EntriesAreFinite
  BY <1>1, FS_EmptySet DEF EntriesAreFinite
<1> QED
  BY <1>3, <1>4, <1>5, <1>6, <1>7 DEF Inv

-----------------------------------------------------------------------------

LEMMA TypeStep ==
    ASSUME Inv, [Next]_vars
    PROVE  TypeOK'
<1>1. TypeOK /\ ReadyMatchesPhase /\ UsageIsExact /\ IsFiniteSet(Entries)
  BY DEF Inv, EntriesAreFinite
<1>2. ASSUME NEW g \in Groups, phase[g] # "released", Enqueue(g)
      PROVE  TypeOK'
  <2>0. phase' \in [Groups -> Phases]
    BY <1>1, <1>2 DEF TypeOK, Enqueue, Phases
  <2>1. ready' \in Seq(Groups)
    <3>1. ready \in Seq(Groups) /\ Append(ready, g) \in Seq(Groups)
      BY <1>1, AppendProperties DEF TypeOK
    <3> QED
      BY <1>2, <3>1 DEF Enqueue
  <2>2. usedRecords' \in Nat /\ usedBytes' \in Nat
    BY <1>1, <1>2, SizesAssumption DEF TypeOK, Enqueue
  <2>3. minimumError' \in BOOLEAN
    BY <1>1, <1>2 DEF TypeOK, Enqueue
  <2>4. /\ UNCHANGED <<consumer, claim, packing, maxReadyGroups, generation, resizes>>
        /\ UNCHANGED <<finished, pendingMinimum, claimGeneration, hosted>>
    BY <1>2 DEF Enqueue, limitVars
  <2> QED
    BY <1>1, <2>0, <2>1, <2>2, <2>3, <2>4 DEF TypeOK
<1>3. ASSUME NEW c \in Consumers, NEW n \in TakeCounts, Take(c, n)
      PROVE  TypeOK'
  <2>1. n \in Int
    BY SizesAssumption DEF TakeCounts
  <2>2. pendingMinimum' \in {None} \cup [consumer : Consumers, count : Nat \ {0}]
    <3>1. TakeOutcome(c, n) = "pending" =>
             Request(c, n) \in [consumer : Consumers, count : Nat \ {0}]
      BY <2>1, LimitType DEF TakeOutcome, Request
    <3> QED
      BY <1>1, <1>3, <3>1 DEF Take, TypeOK
  <2>3. CASE TakeOutcome(c, n) = "leases"
    <3>1. Acquire(c, n)
      BY <1>3, <2>3 DEF Take
    <3>2. phase' \in [Groups -> Phases] /\ consumer' \in [Groups -> Consumers \cup {None}]
      BY <1>1, <3>1 DEF Acquire, TypeOK, Phases
    <3>3. claim' \in [Groups -> Nat]
      <4>1. \A g \in Taken(n) : NextClaim(n, g) \in Nat
        BY <1>1, <2>1, NextClaimIsFresh
      <4> QED
        BY <1>1, <3>1, <4>1 DEF Acquire, TypeOK
    <3>4. claimGeneration' \in Nat
      <4>1. TakeCount(n) \in Nat
        BY <1>1, <2>1, TakeCountType
      <4> QED
        BY <1>1, <3>1, <4>1 DEF Acquire, TypeOK
    <3>5. ready' \in Seq(Groups)
      BY <1>1, <2>1, <3>1, ReadyTail DEF Acquire, Rest
    <3> QED
      BY <1>1, <1>3, <2>2, <3>1, <3>2, <3>3, <3>4, <3>5
         DEF Take, Acquire, TypeOK, limitVars
  <2>4. CASE TakeOutcome(c, n) # "leases"
    <3>1. /\ UNCHANGED <<entryVars, claimGeneration>>
          /\ UNCHANGED <<limitVars, finished, minimumError, hosted>>
      BY <1>3, <2>4 DEF Take
    <3>2. /\ UNCHANGED <<phase, ready, consumer, claim, packing, usedRecords, usedBytes>>
          /\ UNCHANGED <<claimGeneration, maxReadyGroups, generation, resizes, finished>>
          /\ UNCHANGED <<minimumError, hosted>>
      BY <3>1 DEF entryVars, limitVars
    <3> QED
      BY <1>1, <2>2, <3>2 DEF TypeOK
  <2> QED
    BY <2>3, <2>4
<1>4. ASSUME NEW ls \in SUBSET KnownLeases, NEW k \in Generations, MarkPacked(ls, k)
      PROVE  TypeOK'
  <2>1. phase' \in [Groups -> Phases] /\ packing' \in [Groups -> Generations \cup {None}]
    <3>1. phase \in [Groups -> Phases] /\ packing \in [Groups -> Generations \cup {None}]
      BY <1>1 DEF TypeOK
    <3>2. CASE CanMarkPacked(ls)
      <4> DEFINE gs == {l.group : l \in ls}
      <4>1. /\ phase' = [g \in Groups |-> IF g \in gs THEN "packed" ELSE phase[g]]
            /\ packing' = [g \in Groups |-> IF g \in gs THEN k ELSE packing[g]]
        BY <1>4, <3>2 DEF MarkPacked
      <4> HIDE DEF gs
      <4> QED
        BY <3>1, <4>1 DEF Phases
    <3>3. CASE ~CanMarkPacked(ls)
      BY <1>4, <3>1, <3>3 DEF MarkPacked
    <3> QED
      BY <3>2, <3>3
  <2>2. /\ UNCHANGED <<ready, consumer, claim, usedRecords, usedBytes, maxReadyGroups>>
        /\ UNCHANGED <<generation, resizes, finished, pendingMinimum, minimumError>>
        /\ UNCHANGED <<claimGeneration, hosted>>
    BY <1>4 DEF MarkPacked, limitVars
  <2> QED
    BY <1>1, <2>1, <2>2 DEF TypeOK
<1>5. ASSUME NEW ls \in SUBSET KnownLeases, NEW k \in Generations \cup {None},
             NEW d \in {"consumed", "discarded"}, Release(ls, d, k)
      PROVE  TypeOK'
  <2>1. phase' \in [Groups -> Phases]
    BY <1>1, <1>5 DEF Release, TypeOK, Phases
  <2>2. usedRecords' \in Nat /\ usedBytes' \in Nat
    <3>1. CASE CanRelease(ls, d, k)
      <4>1. {l.group : l \in ls} \in SUBSET Entries
        BY <1>5, <3>1, ReleaseEntries
      <4>2. Entries \in SUBSET Groups
        BY EntriesInGroups
      <4>3. /\ RecordTotal(Entries) - RecordTotal({l.group : l \in ls}) \in Nat
            /\ ByteTotal(Entries) - ByteTotal({l.group : l \in ls}) \in Nat
        BY <1>1, <4>1, <4>2, TotalsOfRemove
      <4> QED
        BY <1>1, <1>5, <3>1, <4>3 DEF Release, UsageIsExact
    <3>2. CASE ~CanRelease(ls, d, k)
      BY <1>1, <1>5, <3>2 DEF Release, TypeOK
    <3> QED
      BY <3>1, <3>2
  <2> QED
    BY <1>1, <1>5, <2>1, <2>2 DEF Release, TypeOK, limitVars
<1>6. ASSUME NEW m \in Sizes, IssueResize(m)
      PROVE  TypeOK'
  <2>1. resizes' \in Seq(Sizes) /\ Len(resizes') = Len(resizes) + 1
    BY <1>1, <1>6, AppendProperties DEF IssueResize, TypeOK
  <2>2. generation' \in 0..Len(resizes')
    BY <1>1, <1>6, <2>1, LenProperties DEF IssueResize, TypeOK
  <2> QED
    BY <1>1, <1>6, <2>1, <2>2 DEF IssueResize, TypeOK, entryVars
<1>7. ASSUME NEW k \in DOMAIN resizes, Resize(k)
      PROVE  TypeOK'
  <2>1. k \in 1..Len(resizes) /\ resizes[k] \in Sizes
    BY <1>1, LenProperties, ElementOfSeq DEF TypeOK
  <2>2. maxReadyGroups' \in Nat \ {0} /\ generation' \in 0..Len(resizes)
    <3>1. /\ generation \in 0..Len(resizes) /\ maxReadyGroups \in Nat \ {0}
          /\ Len(resizes) \in Nat /\ resizes[k] \in Nat \ {0}
      BY <1>1, <2>1, ResizeAssumption, LenProperties DEF TypeOK
    <3>2. CASE k > generation
      BY <1>7, <2>1, <3>1, <3>2 DEF Resize
    <3>3. CASE ~(k > generation)
      BY <1>7, <3>1, <3>3 DEF Resize
    <3> QED
      BY <3>2, <3>3
  <2> QED
    BY <1>1, <1>7, <2>2 DEF Resize, TypeOK, entryVars
<1>8. CASE Finish
  BY <1>1, <1>8 DEF Finish, TypeOK, entryVars, limitVars
<1>9. CASE Close
  <2>1. phase' \in [Groups -> Phases] /\ ready' \in Seq(Groups)
    BY <1>1, <1>9, EmptySeq DEF Close, TypeOK, Phases
  <2> QED
    BY <1>1, <1>9, <2>1 DEF Close, TypeOK, limitVars
<1>10. CASE UNCHANGED vars
  BY <1>1, <1>10 DEF vars, entryVars, limitVars, TypeOK
<1> QED
  BY <1>2, <1>3, <1>4, <1>5, <1>6, <1>7, <1>8, <1>9, <1>10 DEF Next

-----------------------------------------------------------------------------

LEMMA ReadyStep ==
    ASSUME Inv, [Next]_vars
    PROVE  ReadyMatchesPhase'
<1>1. TypeOK /\ ReadyMatchesPhase
  BY DEF Inv
<1> DEFINE Once(s) == \A i, j \in DOMAIN s : s[i] = s[j] => i = j
           Has(s, g) == \E i \in DOMAIN s : s[i] = g
<1>2. Once(ready) /\ \A g \in Groups : phase[g] = "ready" <=> Has(ready, g)
  BY <1>1 DEF ReadyMatchesPhase
<1>3. SUFFICES Once(ready') /\ \A g \in Groups : phase'[g] = "ready" <=> Has(ready', g)
  BY DEF ReadyMatchesPhase
<1>4. ASSUME ready' = ready,
             \A g \in Groups : phase'[g] = "ready" <=> phase[g] = "ready"
      PROVE  Once(ready') /\ \A g \in Groups : phase'[g] = "ready" <=> Has(ready', g)
  BY <1>2, <1>4
<1>5. ASSUME NEW g \in Groups, phase[g] # "released", Enqueue(g)
      PROVE  Once(ready') /\ \A h \in Groups : phase'[h] = "ready" <=> Has(ready', h)
  <2>1. CASE Inserts(g)
    <3>1. phase[g] = "absent" /\ \A h \in Groups : phase'[h] = IF h = g THEN "ready" ELSE phase[h]
      BY <1>1, <1>5, <2>1, EnqueueEntries DEF TypeOK
    <3>2. /\ ready' = Append(ready, g) /\ Len(ready) \in Nat
          /\ DOMAIN ready = 1..Len(ready) /\ DOMAIN ready' = 1..(Len(ready) + 1)
          /\ \A i \in 1..Len(ready) : ready'[i] = ready[i]
          /\ ready'[Len(ready) + 1] = g
      <4>1. ready' = Append(ready, g) /\ ready \in Seq(Groups)
        BY <1>1, <1>5, <2>1 DEF Enqueue, TypeOK
      <4>2. /\ Append(ready, g) \in Seq(Groups)
            /\ Len(Append(ready, g)) = Len(ready) + 1
            /\ \A i \in 1..Len(ready) : Append(ready, g)[i] = ready[i]
            /\ Append(ready, g)[Len(ready) + 1] = g
        BY <4>1, AppendProperties
      <4> QED
        BY <4>1, <4>2, LenProperties
    <3>3. ~Has(ready, g)
      BY <1>2, <3>1
    <3>4. Once(ready')
      BY <1>2, <3>2, <3>3
    <3>5. ASSUME NEW h \in Groups
          PROVE  Has(ready', h) <=> Has(ready, h) \/ h = g
      BY <3>2
    <3> QED
      BY <1>2, <3>1, <3>4, <3>5
  <2>2. CASE ~Inserts(g)
    BY <1>4, <1>5, <2>2 DEF Enqueue
  <2> QED
    BY <2>1, <2>2
<1>6. ASSUME NEW c \in Consumers, NEW n \in TakeCounts, Take(c, n)
      PROVE  Once(ready') /\ \A g \in Groups : phase'[g] = "ready" <=> Has(ready', g)
  <2>1. n \in Int
    BY SizesAssumption DEF TakeCounts
  <2>2. CASE TakeOutcome(c, n) = "leases"
    <3>1. /\ ready' = Rest(n)
          /\ \A g \in Groups : phase'[g] = IF g \in Taken(n) THEN "packing" ELSE phase[g]
      BY <1>6, <2>2 DEF Take, Acquire, Rest
    <3>2. \A g \in Groups : phase'[g] = "ready" <=> Has(ready', g)
      BY <1>1, <2>1, <3>1, TakenIsFront
    <3>3. Once(Rest(n))
      <4>1. /\ Len(Rest(n)) = Len(ready) - TakeCount(n) /\ Rest(n) \in Seq(Groups)
            /\ \A i \in 1..(Len(ready) - TakeCount(n)) :
                  Rest(n)[i] = ready[TakeCount(n) + i]
        BY <1>1, <2>1, ReadyTail
      <4>2. TakeCount(n) \in Nat /\ TakeCount(n) <= Len(ready)
        BY <1>1, <2>1, TakeCountType
      <4>a. ready \in Seq(Groups)
        BY <1>1 DEF TypeOK
      <4>b. Len(ready) \in Nat /\ DOMAIN ready = 1..Len(ready)
        BY <4>a, LenProperties
      <4>c. DOMAIN Rest(n) = 1..Len(Rest(n))
        BY <4>1, LenProperties
      <4>3. /\ DOMAIN Rest(n) = 1..(Len(ready) - TakeCount(n)) /\ Len(ready) \in Nat
            /\ DOMAIN ready = 1..Len(ready)
        BY <4>1, <4>b, <4>c
      <4> SUFFICES ASSUME NEW i \in DOMAIN Rest(n), NEW j \in DOMAIN Rest(n),
                          Rest(n)[i] = Rest(n)[j]
                   PROVE  i = j
        OBVIOUS
      <4>4. /\ TakeCount(n) + i \in DOMAIN ready /\ TakeCount(n) + j \in DOMAIN ready
            /\ ready[TakeCount(n) + i] = ready[TakeCount(n) + j]
        <5> DEFINE c1 == TakeCount(n)
                   l == Len(ready)
        <5>1. i \in 1..(l - c1) /\ j \in 1..(l - c1)
          BY <4>3
        <5>2. Rest(n)[i] = ready[c1 + i] /\ Rest(n)[j] = ready[c1 + j]
          BY <4>1, <5>1
        <5>3. c1 \in Nat /\ l \in Nat /\ c1 <= l
          BY <4>2, <4>3
        <5>4. DOMAIN ready = 1..l
          BY <4>3
        <5> HIDE DEF c1, l
        <5>5. c1 + i \in 1..l /\ c1 + j \in 1..l
          BY <5>1, <5>3
        <5>6. ready[c1 + i] = ready[c1 + j]
          BY <5>2
        <5> QED
          BY <5>4, <5>5, <5>6 DEF c1
      <4>5. TakeCount(n) + i = TakeCount(n) + j
        BY <1>2, <4>4
      <4> QED
        BY <4>2, <4>3, <4>5
    <3> QED
      BY <3>1, <3>2, <3>3
  <2>3. CASE TakeOutcome(c, n) # "leases"
    BY <1>4, <1>6, <2>3 DEF Take, entryVars
  <2> QED
    BY <2>2, <2>3
<1>7. ASSUME NEW ls \in SUBSET KnownLeases, NEW k \in Generations, MarkPacked(ls, k)
      PROVE  Once(ready') /\ \A g \in Groups : phase'[g] = "ready" <=> Has(ready', g)
  <2>1. ASSUME NEW g \in Groups PROVE phase'[g] = "ready" <=> phase[g] = "ready"
    BY <1>7 DEF MarkPacked, CanMarkPacked
  <2>2. ready' = ready
    BY <1>7 DEF MarkPacked
  <2> QED
    BY <1>4, <2>1, <2>2
<1>8. ASSUME NEW ls \in SUBSET KnownLeases, NEW k \in Generations \cup {None},
             NEW d \in {"consumed", "discarded"}, Release(ls, d, k)
      PROVE  Once(ready') /\ \A g \in Groups : phase'[g] = "ready" <=> Has(ready', g)
  <2>1. ASSUME NEW g \in Groups PROVE phase'[g] = "ready" <=> phase[g] = "ready"
    BY <1>8 DEF Release, CanRelease
  <2>2. ready' = ready
    BY <1>8 DEF Release
  <2> QED
    BY <1>4, <2>1, <2>2
<1>9. CASE Close
  <2>1. ready' = <<>> /\ \A g \in Groups : phase'[g] = IF g \in Entries THEN "released" ELSE phase[g]
    BY <1>9 DEF Close
  <2>2. \A g \in Groups : phase'[g] # "ready"
    BY <2>1 DEF Entries
  <2>3. DOMAIN ready' = {}
    BY <2>1
  <2> QED
    BY <2>2, <2>3
<1>10. CASE \/ \E m \in Sizes : IssueResize(m)
            \/ \E k \in DOMAIN resizes : Resize(k)
            \/ Finish \/ UNCHANGED vars
  BY <1>4, <1>10 DEF IssueResize, Resize, Finish, vars, entryVars
<1> QED
  BY <1>5, <1>6, <1>7, <1>8, <1>9, <1>10 DEF Next

-----------------------------------------------------------------------------

LEMMA UsageStep ==
    ASSUME Inv, [Next]_vars
    PROVE  UsageIsExact'
<1>1. TypeOK /\ ReadyMatchesPhase /\ UsageIsExact /\ IsFiniteSet(Entries)
  BY DEF Inv, EntriesAreFinite
<1>2. ASSUME Entries' = Entries, usedRecords' = usedRecords, usedBytes' = usedBytes
      PROVE  UsageIsExact'
  BY <1>1, <1>2 DEF UsageIsExact
<1>3. ASSUME NEW g \in Groups, phase[g] # "released", Enqueue(g)
      PROVE  UsageIsExact'
  <2>1. CASE Inserts(g)
    <3>1. phase[g] = "absent" /\ Entries' = Entries \cup {g}
      BY <1>1, <1>3, <2>1, EnqueueEntries
    <3>2. Entries \in SUBSET Groups /\ g \in Groups \ Entries
      BY <3>1, EntriesInGroups DEF Entries
    <3>3. /\ RecordTotal(Entries') = RecordTotal(Entries) + Records[g]
          /\ ByteTotal(Entries') = ByteTotal(Entries) + Bytes[g]
      BY <1>1, <3>1, <3>2, TotalsOfInsert
    <3>4. usedRecords' = usedRecords + Records[g] /\ usedBytes' = usedBytes + Bytes[g]
      BY <1>3, <2>1 DEF Enqueue
    <3>5. /\ ~(usedRecords + Records[g] > CapacityRecords)
          /\ ~(usedBytes + Bytes[g] > CapacityBytes)
      BY <2>1 DEF Inserts, Blocked
    <3>6. /\ usedRecords \in Nat /\ usedBytes \in Nat
          /\ Records[g] \in Nat /\ Bytes[g] \in Nat
          /\ CapacityRecords \in Nat /\ CapacityBytes \in Nat
      BY <1>1, SizesAssumption DEF TypeOK
    <3>7. usedRecords' <= CapacityRecords /\ usedBytes' <= CapacityBytes
      BY <3>4, <3>5, <3>6
    <3> QED
      BY <1>1, <3>3, <3>4, <3>7 DEF UsageIsExact
  <2>2. CASE ~Inserts(g)
    BY <1>2, <1>3, <2>2 DEF Enqueue, Entries
  <2> QED
    BY <2>1, <2>2
<1>4. ASSUME NEW c \in Consumers, NEW n \in TakeCounts, Take(c, n)
      PROVE  UsageIsExact'
  <2>1. n \in Int
    BY SizesAssumption DEF TakeCounts
  <2>2. Entries' = Entries
    BY <1>1, <1>4, <2>1, TakeEntries
  <2>3. usedRecords' = usedRecords /\ usedBytes' = usedBytes
    BY <1>4 DEF Take, Acquire, entryVars
  <2> QED
    BY <1>2, <2>2, <2>3
<1>5. ASSUME NEW ls \in SUBSET KnownLeases, NEW k \in Generations, MarkPacked(ls, k)
      PROVE  UsageIsExact'
  BY <1>2, <1>5, MarkPackedEntries DEF MarkPacked
<1>6. ASSUME NEW ls \in SUBSET KnownLeases, NEW k \in Generations \cup {None},
             NEW d \in {"consumed", "discarded"}, Release(ls, d, k)
      PROVE  UsageIsExact'
  <2>1. CASE CanRelease(ls, d, k)
    <3> DEFINE gs == {l.group : l \in ls}
    <3>1. gs \in SUBSET Entries /\ Entries' = Entries \ gs /\ Entries \in SUBSET Groups
      BY <1>6, <2>1, ReleaseEntries, EntriesInGroups
    <3>2. /\ usedRecords' = usedRecords - RecordTotal(gs)
          /\ usedBytes' = usedBytes - ByteTotal(gs)
      BY <1>6, <2>1 DEF Release
    <3> HIDE DEF gs
    <3>3. /\ RecordTotal(Entries \ gs) = RecordTotal(Entries) - RecordTotal(gs)
          /\ ByteTotal(Entries \ gs) = ByteTotal(Entries) - ByteTotal(gs)
          /\ RecordTotal(gs) \in Nat /\ ByteTotal(gs) \in Nat
      BY <1>1, <3>1, TotalsOfRemove
    <3>4. usedRecords' = RecordTotal(Entries') /\ usedBytes' = ByteTotal(Entries')
      BY <1>1, <3>1, <3>2, <3>3 DEF UsageIsExact
    <3>5. /\ usedRecords \in Nat /\ usedRecords <= CapacityRecords
          /\ usedBytes \in Nat /\ usedBytes <= CapacityBytes
      BY <1>1 DEF TypeOK, UsageIsExact
    <3>6. usedRecords' <= CapacityRecords /\ usedBytes' <= CapacityBytes
      BY <3>2, <3>3, <3>5, SizesAssumption
    <3> QED
      BY <3>4, <3>6 DEF UsageIsExact
  <2>2. CASE ~CanRelease(ls, d, k)
    BY <1>2, <1>6, <2>2 DEF Release, Entries
  <2> QED
    BY <2>1, <2>2
<1>7. CASE Close
  <2>1. Entries' = {} /\ usedRecords' = 0 /\ usedBytes' = 0
    BY <1>7, CloseEntries DEF Close
  <2>2. RecordTotal(Entries') = 0 /\ ByteTotal(Entries') = 0
    BY <2>1, TotalsOfEmpty
  <2> QED
    BY <2>1, <2>2, SizesAssumption DEF UsageIsExact
<1>8. CASE \/ \E m \in Sizes : IssueResize(m)
           \/ \E k \in DOMAIN resizes : Resize(k)
           \/ Finish \/ UNCHANGED vars
  <2>1. phase' = phase /\ usedRecords' = usedRecords /\ usedBytes' = usedBytes
    BY <1>8 DEF IssueResize, Resize, Finish, vars, entryVars
  <2> QED
    BY <1>2, <2>1 DEF Entries
<1> QED
  BY <1>3, <1>4, <1>5, <1>6, <1>7, <1>8 DEF Next

-----------------------------------------------------------------------------

LEMMA ClaimsStep ==
    ASSUME Inv, [Next]_vars
    PROVE  Claims'
<1>1. TypeOK /\ ReadyMatchesPhase /\ Claims
  BY DEF Inv
<1>2. ASSUME UNCHANGED <<claim, consumer, packing, claimGeneration>>,
             \A g \in Groups : phase'[g] = phase[g] \/ phase'[g] = "released"
      PROVE  Claims'
  BY <1>1, <1>2 DEF Claims
<1>3. ASSUME NEW g \in Groups, phase[g] # "released", Enqueue(g)
      PROVE  Claims'
  <2>1. CASE Inserts(g)
    <3>1. phase[g] = "absent" /\ \A h \in Groups : phase'[h] = IF h = g THEN "ready" ELSE phase[h]
      BY <1>1, <1>3, <2>1, EnqueueEntries DEF TypeOK
    <3>2. UNCHANGED <<claim, consumer, packing, claimGeneration>>
      BY <1>3 DEF Enqueue
    <3> QED
      BY <1>1, <3>1, <3>2 DEF Claims
  <2>2. CASE ~Inserts(g)
    BY <1>2, <1>3, <2>2 DEF Enqueue
  <2> QED
    BY <2>1, <2>2
<1>4. ASSUME NEW c \in Consumers, NEW n \in TakeCounts, Take(c, n)
      PROVE  Claims'
  <2>1. n \in Int
    BY SizesAssumption DEF TakeCounts
  <2>2. CASE TakeOutcome(c, n) = "leases"
    <3>1. \A g \in Groups :
             /\ phase'[g] = IF g \in Taken(n) THEN "packing" ELSE phase[g]
             /\ consumer'[g] = IF g \in Taken(n) THEN c ELSE consumer[g]
             /\ claim'[g] = IF g \in Taken(n) THEN NextClaim(n, g) ELSE claim[g]
             /\ packing'[g] = packing[g]
      BY <1>4, <2>2 DEF Take, Acquire
    <3>2. /\ claimGeneration' = claimGeneration + TakeCount(n)
          /\ claimGeneration \in Nat /\ TakeCount(n) \in Nat
      <4>1. TakeCount(n) \in Nat
        BY <1>1, <2>1, TakeCountType
      <4>2. claimGeneration \in Nat
        BY <1>1 DEF TypeOK
      <4> QED
        BY <1>4, <2>2, <4>1, <4>2 DEF Take, Acquire
    <3>3. \A g \in Taken(n) :
             /\ NextClaim(n, g) \in Nat
             /\ NextClaim(n, g) > claimGeneration
             /\ NextClaim(n, g) <= claimGeneration + TakeCount(n)
             /\ ready[NextClaim(n, g) - claimGeneration] = g
      BY <1>1, <2>1, NextClaimIsFresh
    <3>4. \A g \in Groups : g \in Taken(n) => phase[g] = "ready"
      BY <1>1, <2>1, TakenIsFront
    <3>5. \A g \in Groups : claim[g] \in Nat /\ claim[g] <= claimGeneration
      BY <1>1 DEF TypeOK, Claims
    <3>6. \A g \in Groups : claim'[g] <= claimGeneration'
      BY <3>1, <3>2, <3>3, <3>5
    <3>7. \A g \in Groups :
             phase'[g] \in {"absent", "ready"} =>
                claim'[g] = 0 /\ consumer'[g] = None /\ packing'[g] = None
      BY <1>1, <3>1 DEF Claims
    <3>8. \A g \in Groups :
             phase'[g] \in {"packing", "packed"} =>
                claim'[g] > 0 /\ consumer'[g] \in Consumers
      <4> TAKE g \in Groups
      <4>1. CASE g \in Taken(n)
        BY <3>1, <3>2, <3>3, <4>1
      <4>2. CASE g \notin Taken(n)
        BY <1>1, <3>1, <4>2 DEF Claims
      <4> QED
        BY <4>1, <4>2
    <3>9. \A g \in Groups :
             /\ phase'[g] = "packing" => packing'[g] = None
             /\ phase'[g] = "packed" => packing'[g] # None
      BY <1>1, <3>1, <3>4 DEF Claims
    <3>10. \A g, h \in Groups : claim'[g] = claim'[h] /\ claim'[g] > 0 => g = h
      <4> SUFFICES ASSUME NEW g \in Groups, NEW h \in Groups,
                          claim'[g] = claim'[h], claim'[g] > 0
                   PROVE  g = h
        OBVIOUS
      <4>1. CASE g \in Taken(n) /\ h \in Taken(n)
        BY <3>1, <3>3, <4>1
      <4>2. CASE g \notin Taken(n) /\ h \notin Taken(n)
        BY <1>1, <3>1, <4>2 DEF Claims
      <4>3. CASE g \in Taken(n) /\ h \notin Taken(n)
        BY <3>1, <3>2, <3>3, <3>5, <4>3
      <4>4. CASE g \notin Taken(n) /\ h \in Taken(n)
        BY <3>1, <3>2, <3>3, <3>5, <4>4
      <4> QED
        BY <4>1, <4>2, <4>3, <4>4
    <3> QED
      BY <3>6, <3>7, <3>8, <3>9, <3>10 DEF Claims
  <2>3. CASE TakeOutcome(c, n) # "leases"
    BY <1>2, <1>4, <2>3 DEF Take, entryVars
  <2> QED
    BY <2>2, <2>3
<1>5. ASSUME NEW ls \in SUBSET KnownLeases, NEW k \in Generations, MarkPacked(ls, k)
      PROVE  Claims'
  <2> DEFINE gs == {l.group : l \in ls}
  <2>1. CASE CanMarkPacked(ls)
    <3>1. \A g \in gs : phase[g] = "packing"
      BY <2>1 DEF CanMarkPacked
    <3>2. \A g \in Groups :
             /\ phase'[g] = IF g \in gs THEN "packed" ELSE phase[g]
             /\ packing'[g] = IF g \in gs THEN k ELSE packing[g]
      BY <1>5, <2>1 DEF MarkPacked
    <3>3. UNCHANGED <<claim, consumer, claimGeneration>> /\ k # None
      BY <1>5, NoneAssumption DEF MarkPacked
    <3> HIDE DEF gs
    <3> QED
      BY <1>1, <3>1, <3>2, <3>3 DEF Claims
  <2>2. CASE ~CanMarkPacked(ls)
    BY <1>2, <1>5, <2>2 DEF MarkPacked
  <2> QED
    BY <2>1, <2>2
<1>6. ASSUME NEW ls \in SUBSET KnownLeases, NEW k \in Generations \cup {None},
             NEW d \in {"consumed", "discarded"}, Release(ls, d, k)
      PROVE  Claims'
  BY <1>2, <1>6 DEF Release
<1>7. CASE Close
  BY <1>2, <1>7 DEF Close
<1>8. CASE \/ \E m \in Sizes : IssueResize(m)
           \/ \E k \in DOMAIN resizes : Resize(k)
           \/ Finish \/ UNCHANGED vars
  BY <1>2, <1>8 DEF IssueResize, Resize, Finish, vars, entryVars
<1> QED
  BY <1>3, <1>4, <1>5, <1>6, <1>7, <1>8 DEF Next

-----------------------------------------------------------------------------

LEMMA FiniteStep ==
    ASSUME Inv, [Next]_vars
    PROVE  EntriesAreFinite'
<1>1. TypeOK /\ ReadyMatchesPhase /\ IsFiniteSet(Entries)
  BY DEF Inv, EntriesAreFinite
<1>2. ASSUME Entries' \in SUBSET Entries
      PROVE  EntriesAreFinite'
  BY <1>1, <1>2, FS_Subset DEF EntriesAreFinite
<1>3. ASSUME NEW g \in Groups, phase[g] # "released", Enqueue(g)
      PROVE  EntriesAreFinite'
  <2>1. CASE Inserts(g)
    <3>1. Entries' = Entries \cup {g}
      BY <1>1, <1>3, <2>1, EnqueueEntries
    <3>2. IsFiniteSet(Entries \cup {g})
      BY <1>1, FS_AddElement
    <3> QED
      BY <3>1, <3>2 DEF EntriesAreFinite
  <2>2. CASE ~Inserts(g)
    BY <1>2, <1>3, <2>2 DEF Enqueue, Entries
  <2> QED
    BY <2>1, <2>2
<1>4. ASSUME NEW c \in Consumers, NEW n \in TakeCounts, Take(c, n)
      PROVE  EntriesAreFinite'
  <2>1. n \in Int
    BY SizesAssumption DEF TakeCounts
  <2> QED
    BY <1>1, <1>2, <1>4, <2>1, TakeEntries
<1>5. ASSUME NEW ls \in SUBSET KnownLeases, NEW k \in Generations, MarkPacked(ls, k)
      PROVE  EntriesAreFinite'
  BY <1>2, <1>5, MarkPackedEntries
<1>6. ASSUME NEW ls \in SUBSET KnownLeases, NEW k \in Generations \cup {None},
             NEW d \in {"consumed", "discarded"}, Release(ls, d, k)
      PROVE  EntriesAreFinite'
  <2>1. CASE CanRelease(ls, d, k)
    BY <1>2, <1>6, <2>1, ReleaseEntries
  <2>2. CASE ~CanRelease(ls, d, k)
    BY <1>2, <1>6, <2>2 DEF Release, Entries
  <2> QED
    BY <2>1, <2>2
<1>7. CASE Close
  BY <1>2, <1>7, CloseEntries
<1>8. CASE \/ \E m \in Sizes : IssueResize(m)
           \/ \E k \in DOMAIN resizes : Resize(k)
           \/ Finish \/ UNCHANGED vars
  <2>1. phase' = phase
    BY <1>8 DEF IssueResize, Resize, Finish, vars, entryVars
  <2> QED
    BY <1>2, <2>1 DEF Entries
<1> QED
  BY <1>3, <1>4, <1>5, <1>6, <1>7, <1>8 DEF Next

-----------------------------------------------------------------------------

LEMMA InvInvariant == Spec => []Inv
<1>1. Inv /\ [Next]_vars => Inv'
  BY TypeStep, ReadyStep, UsageStep, ClaimsStep, FiniteStep DEF Inv
<1> QED
  BY InitInv, <1>1, PTL DEF Spec

(* For every set of groups, consumers and capacities the store's state     *)
(* stays well typed; that the counters stay natural under release is not   *)
(* a matter of types but of their exactness.                               *)
THEOREM TypeCorrect == Spec => []TypeOK
  BY InvInvariant, PTL DEF Inv

(* The deque _ready and the phases of the entries always describe the same *)
(* groups, each once, so popleft in take meets only entries that are ready.*)
THEOREM ReadyFifoIsExact == Spec => []ReadyMatchesPhase
  BY InvInvariant, PTL DEF Inv

(* The used-record and used-byte counters are always the exact size of the *)
(* entries, within the capacities: no sequence of enqueues, releases with  *)
(* stale leases, and close makes them drift.                               *)
THEOREM UsageCorrect == Spec => []UsageIsExact
  BY InvInvariant, PTL DEF Inv

(* Every leased entry has an owner and a claim generation no other group   *)
(* ever had, so _leased_entry accepts only the current lease.              *)
THEOREM LeasesExclusive == Spec => []LeasesAreExclusive
<1>1. Inv => LeasesAreExclusive
  <2> SUFFICES ASSUME Inv PROVE LeasesAreExclusive
    OBVIOUS
  <2>1. TypeOK /\ Claims
    BY DEF Inv
  <2>2. ASSUME NEW g \in Entries
        PROVE  IF phase[g] = "ready"
               THEN claim[g] = 0 /\ consumer[g] = None
               ELSE claim[g] \in 1..claimGeneration /\ consumer[g] \in Consumers
    BY <2>1 DEF Entries, Claims, TypeOK
  <2>3. ASSUME NEW g \in Entries
        PROVE  phase[g] = "packed" <=> packing[g] # None
    BY <2>1 DEF Entries, Claims
  <2> QED
    BY <2>1, <2>2, <2>3 DEF LeasesAreExclusive, Claims
<1> QED
  BY InvInvariant, <1>1, PTL

-----------------------------------------------------------------------------
(* Action properties.  Each follows from Inv in the state before the step. *)

LimitInForce ==
    maxReadyGroups = IF generation = 0 THEN InitialMaxReady ELSE resizes[generation]

LEMMA LimitStep ==
    ASSUME TypeOK, LimitInForce, [Next]_vars
    PROVE  LimitInForce' /\ generation' >= generation
<1> DEFINE P == LimitInForce' /\ generation' >= generation
<1> SUFFICES P
  OBVIOUS
<1>1. generation \in Nat /\ Len(resizes) \in Nat /\ generation <= Len(resizes)
  <2>1. resizes \in Seq(Sizes) /\ generation \in 0..Len(resizes)
    BY DEF TypeOK
  <2> QED
    BY <2>1, LenProperties
<1>2. ASSUME UNCHANGED limitVars PROVE P
  BY <1>1, <1>2 DEF limitVars, LimitInForce
<1>3. ASSUME NEW m \in Sizes, IssueResize(m) PROVE P
  <2>1. \A k \in 1..Len(resizes) : Append(resizes, m)[k] = resizes[k]
    BY AppendProperties DEF TypeOK
  <2>2. generation # 0 => resizes'[generation] = resizes[generation]
    BY <1>1, <1>3, <2>1 DEF IssueResize
  <2> QED
    BY <1>1, <1>3, <2>2 DEF IssueResize, LimitInForce
<1>4. ASSUME NEW k \in DOMAIN resizes, Resize(k) PROVE P
  <2>1. k \in Nat /\ k > 0
    <3>1. resizes \in Seq(Sizes)
      BY DEF TypeOK
    <3>2. k \in 1..Len(resizes)
      BY <3>1, LenProperties
    <3> QED
      BY <1>1, <3>2
  <2> QED
    BY <1>1, <1>4, <2>1 DEF Resize, LimitInForce
<1>5. ASSUME NEW g \in Groups, Enqueue(g) PROVE P
  BY <1>2, <1>5 DEF Enqueue
<1>6. ASSUME NEW c \in Consumers, NEW n \in TakeCounts, Take(c, n) PROVE P
  BY <1>2, <1>6 DEF Take
<1>7. ASSUME NEW ls, NEW k, MarkPacked(ls, k) PROVE P
  BY <1>2, <1>7 DEF MarkPacked
<1>8. ASSUME NEW ls, NEW d, NEW k, Release(ls, d, k) PROVE P
  BY <1>2, <1>8 DEF Release
<1>9. CASE Finish \/ Close \/ UNCHANGED vars
  BY <1>2, <1>9 DEF Finish, Close, vars
<1> HIDE DEF P
<1> QED
  BY <1>3, <1>4, <1>5, <1>6, <1>7, <1>8, <1>9 DEF Next

(* The limit in force is always the one of the newest resize the host has  *)
(* applied, and an overtaken resize never brings its own back.             *)
THEOREM LimitIsNewest == Spec => LimitIsNewestResize
<1>1. Init => LimitInForce
  BY DEF Init, LimitInForce
<1>2. TypeOK /\ LimitInForce /\ [Next]_vars => LimitInForce'
  BY LimitStep
<1>3. TypeOK /\ LimitInForce /\ [Next]_vars =>
         [/\ generation' >= generation
          /\ maxReadyGroups' = IF generation' = 0 THEN InitialMaxReady
                               ELSE resizes'[generation']]_vars
  BY LimitStep DEF LimitInForce
<1> QED
  BY TypeCorrect, <1>1, <1>2, <1>3, PTL DEF Spec, LimitIsNewestResize

LEMMA LeaseStep ==
    ASSUME Inv, [Next]_vars, NEW g \in Entries, phase[g] # "ready",
           phase'[g] # "released"
    PROVE  /\ consumer'[g] = consumer[g]
           /\ claim'[g] = claim[g]
           /\ phase[g] = "packed" => phase'[g] = "packed" /\ packing'[g] = packing[g]
<1>1. TypeOK /\ ReadyMatchesPhase /\ g \in Groups /\ phase[g] \in {"packing", "packed"}
  BY DEF Inv, Entries
<1>2. ASSUME UNCHANGED <<consumer, claim, packing>>, phase'[g] = phase[g]
      PROVE  /\ consumer'[g] = consumer[g]
             /\ claim'[g] = claim[g]
             /\ phase[g] = "packed" => phase'[g] = "packed" /\ packing'[g] = packing[g]
  BY <1>2
<1>3. ASSUME NEW h \in Groups, phase[h] # "released", Enqueue(h)
      PROVE  UNCHANGED <<consumer, claim, packing>> /\ phase'[g] = phase[g]
  BY <1>1, <1>3 DEF Enqueue, Inserts, TypeOK
<1>4. ASSUME NEW c \in Consumers, NEW n \in TakeCounts, Take(c, n)
      PROVE  /\ consumer'[g] = consumer[g] /\ claim'[g] = claim[g]
             /\ phase'[g] = phase[g] /\ packing'[g] = packing[g]
  <2>1. n \in Int
    BY SizesAssumption DEF TakeCounts
  <2>2. g \notin Taken(n)
    BY <1>1, <2>1, TakenIsFront
  <2> QED
    BY <1>1, <1>4, <2>2 DEF Take, Acquire, entryVars
<1>5. ASSUME NEW ls \in SUBSET KnownLeases, NEW k \in Generations, MarkPacked(ls, k)
      PROVE  /\ consumer'[g] = consumer[g] /\ claim'[g] = claim[g]
             /\ phase[g] = "packed" => phase'[g] = "packed" /\ packing'[g] = packing[g]
  <2>1. UNCHANGED <<consumer, claim>>
    BY <1>5 DEF MarkPacked
  <2>2. ASSUME phase[g] = "packed"
        PROVE  phase'[g] = "packed" /\ packing'[g] = packing[g]
    BY <1>1, <1>5, <2>2 DEF MarkPacked, CanMarkPacked
  <2> QED
    BY <2>1, <2>2
<1>6. ASSUME NEW ls \in SUBSET KnownLeases, NEW k \in Generations \cup {None},
             NEW d \in {"consumed", "discarded"}, Release(ls, d, k)
      PROVE  UNCHANGED <<consumer, claim, packing>> /\ phase'[g] = phase[g]
  <2>1. UNCHANGED <<consumer, claim, packing>>
    BY <1>6 DEF Release
  <2>2. phase'[g] = phase[g]
    BY <1>1, <1>6 DEF Release
  <2> QED
    BY <2>1, <2>2
<1>7. ~Close
  BY <1>1 DEF Close
<1>8. CASE \/ \E m \in Sizes : IssueResize(m)
           \/ \E k \in DOMAIN resizes : Resize(k)
           \/ Finish \/ UNCHANGED vars
  BY <1>2, <1>8 DEF IssueResize, Resize, Finish, vars, entryVars
<1> QED
  BY <1>2, <1>3, <1>4, <1>5, <1>6, <1>7, <1>8 DEF Next

(* A leased entry keeps its consumer, its claim and, once packed, its      *)
(* packing generation, whatever stale leases and retried enqueues arrive.  *)
THEOREM LeasesStable == Spec => LeaseIsStable
<1>1. Inv /\ [Next]_vars =>
         [\A g \in Entries :
             phase[g] # "ready" /\ phase'[g] # "released" =>
                /\ consumer'[g] = consumer[g]
                /\ claim'[g] = claim[g]
                /\ phase[g] = "packed" =>
                      phase'[g] = "packed" /\ packing'[g] = packing[g]]_vars
  BY LeaseStep
<1> QED
  BY InvInvariant, <1>1, PTL DEF Spec, LeaseIsStable

-----------------------------------------------------------------------------
(* The groups that become leased in a step are those a take acquires.      *)
LEMMA OnlyTakeAcquires ==
    ASSUME Inv, [Next]_vars, NEW g \in Groups, phase[g] = "ready", phase'[g] = "packing"
    PROVE  \E c \in Consumers, n \in TakeCounts :
              /\ Take(c, n)
              /\ TakeOutcome(c, n) = "leases"
              /\ g \in Taken(n)
<1>1. TypeOK
  BY DEF Inv
<1>2. ASSUME NEW h \in Groups, Enqueue(h) PROVE FALSE
  BY <1>1, <1>2 DEF Enqueue, TypeOK
<1>3. ASSUME NEW ls \in SUBSET KnownLeases, NEW k \in Generations, MarkPacked(ls, k)
      PROVE  FALSE
  BY <1>3 DEF MarkPacked
<1>4. ASSUME NEW ls \in SUBSET KnownLeases, NEW k \in Generations \cup {None},
             NEW d \in {"consumed", "discarded"}, Release(ls, d, k)
      PROVE  FALSE
  BY <1>4 DEF Release
<1>5. CASE \/ \E m \in Sizes : IssueResize(m)
           \/ \E k \in DOMAIN resizes : Resize(k)
           \/ Finish \/ Close \/ UNCHANGED vars
  BY <1>5 DEF IssueResize, Resize, Finish, Close, vars, entryVars
<1>6. ASSUME NEW c \in Consumers, NEW n \in TakeCounts, Take(c, n)
      PROVE  TakeOutcome(c, n) = "leases" /\ g \in Taken(n)
  BY <1>6 DEF Take, Acquire, entryVars
<1> QED
  BY <1>2, <1>3, <1>4, <1>5, <1>6 DEF Next

LEMMA PositionOfClaim ==
    ASSUME Inv, NEW n \in Int, NEW i \in DOMAIN ready, ready[i] \in Taken(n)
    PROVE  i \in 1..TakeCount(n) /\ NextClaim(n, ready[i]) = claimGeneration + i
<1> DEFINE p == CHOOSE j \in 1..TakeCount(n) : ready[j] = ready[i]
<1>1. p \in 1..TakeCount(n) /\ ready[p] = ready[i]
  BY DEF Taken
<1>2. NextClaim(n, ready[i]) = claimGeneration + p
  BY DEF NextClaim
<1> HIDE DEF p
<1>3. TypeOK /\ ReadyMatchesPhase
  BY DEF Inv
<1>4. TakeCount(n) \in Nat /\ TakeCount(n) <= Len(ready)
  BY <1>3, TakeCountType
<1>5. ready \in Seq(Groups)
  BY <1>3 DEF TypeOK
<1>6. DOMAIN ready = 1..Len(ready) /\ Len(ready) \in Nat
  BY <1>5, LenProperties
<1>7. p \in DOMAIN ready
  BY <1>1, <1>4, <1>6
<1>8. p = i
  BY <1>1, <1>3, <1>7 DEF ReadyMatchesPhase
<1> QED
  BY <1>1, <1>2, <1>8

(* Groups are leased in the order they were accepted, with growing claim   *)
(* generations.                                                            *)
THEOREM AcquiresInOrder == Spec => AcquiredInOrder
<1>1. ASSUME Inv, [Next]_vars, NEW i \in DOMAIN ready, NEW j \in DOMAIN ready,
             i < j, phase'[ready[j]] = "packing"
      PROVE  phase'[ready[i]] = "packing" /\ claim'[ready[i]] < claim'[ready[j]]
  <2>1. TypeOK /\ ReadyMatchesPhase /\ ready \in Seq(Groups)
    BY <1>1 DEF Inv, TypeOK
  <2>2. /\ ready[i] \in Groups /\ ready[j] \in Groups
        /\ i \in Nat \ {0} /\ j \in Nat
    <3>1. DOMAIN ready = 1..Len(ready) /\ Len(ready) \in Nat
      BY <2>1, LenProperties
    <3>2. i \in 1..Len(ready) /\ j \in 1..Len(ready)
      BY <3>1
    <3> QED
      BY <2>1, <3>1, <3>2, ElementOfSeq
  <2>3. phase[ready[j]] = "ready"
    BY <2>1, <2>2 DEF ReadyMatchesPhase
  <2>4. PICK c \in Consumers, n \in TakeCounts :
           Take(c, n) /\ TakeOutcome(c, n) = "leases" /\ ready[j] \in Taken(n)
    BY <1>1, <2>2, <2>3, OnlyTakeAcquires
  <2>5. n \in Int
    BY SizesAssumption DEF TakeCounts
  <2>6. j \in 1..TakeCount(n) /\ NextClaim(n, ready[j]) = claimGeneration + j
    BY <1>1, <2>4, <2>5, PositionOfClaim
  <2>7. i \in 1..TakeCount(n)
    <3>1. TakeCount(n) \in Nat
      BY <2>1, <2>5, TakeCountType
    <3> QED
      BY <1>1, <2>2, <2>6, <3>1
  <2>8. ready[i] \in Taken(n)
    BY <2>7 DEF Taken
  <2>9. NextClaim(n, ready[i]) = claimGeneration + i
    BY <1>1, <2>5, <2>8, PositionOfClaim
  <2>10. /\ phase'[ready[i]] = "packing"
         /\ claim'[ready[i]] = NextClaim(n, ready[i])
         /\ claim'[ready[j]] = NextClaim(n, ready[j])
    BY <2>2, <2>4, <2>8 DEF Take, Acquire
  <2>11. claimGeneration \in Nat
    BY <2>1 DEF TypeOK
  <2> QED
    BY <1>1, <2>2, <2>6, <2>9, <2>10, <2>11
<1>2. Inv /\ [Next]_vars =>
         [\A i, j \in DOMAIN ready :
             i < j /\ phase'[ready[j]] = "packing" =>
                phase'[ready[i]] = "packing" /\ claim'[ready[i]] < claim'[ready[j]]]_vars
  BY <1>1
<1> QED
  BY InvInvariant, <1>2, PTL DEF Spec, AcquiredInOrder

(* A take changes a pending minimum only for its owner, and then ends it.   *)
LEMMA TakeKeepsMinimum ==
  ASSUME NEW c, NEW n, pendingMinimum # None, Take(c, n),
         pendingMinimum' # pendingMinimum
  PROVE  c = pendingMinimum.consumer /\ pendingMinimum' = None
<1>1. CASE TakeOutcome(c, n) = "pending"
  <2>1. Request(c, n) = pendingMinimum
    BY <1>1 DEF TakeOutcome
  <2> QED
    BY <1>1, <2>1 DEF Take
<1>2. CASE TakeOutcome(c, n) = "cancelled"
  <2>1. MayWithdraw(c)
    BY <1>2 DEF TakeOutcome
  <2> QED
    BY <1>2, <2>1 DEF Take, MayWithdraw
<1>3. CASE TakeOutcome(c, n) = "leases"
  <2>1. Request(c, n) = pendingMinimum
    BY <1>3 DEF TakeOutcome
  <2>2. c = pendingMinimum.consumer
    BY <2>1 DEF Request
  <2> QED
    BY <1>3, <2>2 DEF Take
<1>4. CASE TakeOutcome(c, n) \notin {"pending", "cancelled", "leases"}
  BY <1>4 DEF Take
<1> QED
  BY <1>1, <1>2, <1>3, <1>4

(* While the queue is hosted a pending minimum ends only by a take of its  *)
(* owner; no other consumer withdraws it, replaces it or acquires a group. *)
THEOREM MinimumExclusive == Spec => MinimumIsExclusive
<1>1. ASSUME [Next]_vars, pendingMinimum # None, hosted',
             pendingMinimum' # pendingMinimum
      PROVE  /\ pendingMinimum' = None
             /\ \E n \in TakeCounts : Take(pendingMinimum.consumer, n)
  <2>1. ASSUME NEW c \in Consumers, NEW n \in TakeCounts, Take(c, n)
        PROVE  /\ pendingMinimum' = None
               /\ \E k \in TakeCounts : Take(pendingMinimum.consumer, k)
    <3>1. c = pendingMinimum.consumer /\ pendingMinimum' = None
      BY <1>1, <2>1, TakeKeepsMinimum
    <3> QED
      BY <2>1, <3>1
  <2>2. ASSUME NEW g \in Groups, Enqueue(g) PROVE UNCHANGED pendingMinimum
    BY <2>2 DEF Enqueue
  <2>3. ASSUME NEW ls, NEW k, MarkPacked(ls, k) PROVE UNCHANGED pendingMinimum
    BY <2>3 DEF MarkPacked
  <2>4. ASSUME NEW ls, NEW d, NEW k, Release(ls, d, k) PROVE UNCHANGED pendingMinimum
    BY <2>4 DEF Release
  <2>5. CASE \/ \E m \in Sizes : IssueResize(m)
             \/ \E k \in DOMAIN resizes : Resize(k)
             \/ Finish \/ UNCHANGED vars
    <3>1. UNCHANGED pendingMinimum
      BY <2>5 DEF IssueResize, Resize, Finish, vars
    <3> QED
      BY <1>1, <3>1
  <2>6. ~Close
    BY <1>1 DEF Close
  <2>7. CASE \E c \in Consumers, n \in TakeCounts : Take(c, n)
    BY <2>1, <2>7
  <2> QED
    BY <1>1, <2>2, <2>3, <2>4, <2>5, <2>6, <2>7 DEF Next
<1>2. ASSUME pendingMinimum # None,
             NEW c \in Consumers \ {pendingMinimum.consumer},
             NEW n \in TakeCounts, pendingMinimum' # pendingMinimum
      PROVE  ~Take(c, n)
  BY <1>2, TakeKeepsMinimum
<1>3. ASSUME Inv, [Next]_vars, pendingMinimum # None,
             NEW g \in Groups, phase[g] = "ready", phase'[g] = "packing"
      PROVE  consumer'[g] = pendingMinimum.consumer
  <2>1. PICK c \in Consumers, n \in TakeCounts :
           Take(c, n) /\ TakeOutcome(c, n) = "leases" /\ g \in Taken(n)
    BY <1>3, OnlyTakeAcquires
  <2>2. pendingMinimum = Request(c, n)
    BY <1>3, <2>1 DEF TakeOutcome
  <2>3. consumer'[g] = c
    BY <2>1 DEF Take, Acquire
  <2> QED
    BY <2>2, <2>3 DEF Request
<1>4. Inv /\ [Next]_vars =>
         [pendingMinimum # None /\ hosted' =>
             /\ pendingMinimum' # pendingMinimum =>
                   /\ pendingMinimum' = None
                   /\ \E n \in TakeCounts : Take(pendingMinimum.consumer, n)
                   /\ \A c \in Consumers \ {pendingMinimum.consumer}, n \in TakeCounts :
                         ~Take(c, n)
             /\ \A g \in Groups :
                   phase[g] = "ready" /\ phase'[g] = "packing" =>
                      consumer'[g] = pendingMinimum.consumer]_vars
  BY <1>1, <1>2, <1>3
<1> QED
  BY InvInvariant, <1>4, PTL DEF Spec, MinimumIsExclusive

=============================================================================
