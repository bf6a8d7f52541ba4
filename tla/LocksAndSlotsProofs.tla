------------------------ MODULE LocksAndSlotsProofs -------------------------
(***************************************************************************)
(* Proofs about the two things pipelines share.                            *)
(*                                                                         *)
(* The directory locks, for any set of pipelines and any directory sets:   *)
(* the locks exclude, waits climb, and LockSpec implements DirExclusion.   *)
(*                                                                         *)
(* The worker slots, for any number of slots, pipelines and tasks: what    *)
(* runs with all slots runs alone, the slots handed out are exactly those  *)
(* of the running requests, no wake-up is lost, and nobody overtakes.      *)
(***************************************************************************)
EXTENDS DirLocks, WorkerSlots, FiniteSetTheorems, SequenceTheorems, TLAPS

-----------------------------------------------------------------------------
(* The directory locks *)

(***************************************************************************)
(* The inductive invariant.  Exclusion needs to know that a pipeline that  *)
(* is "in" owns every one of its directories; that in turn needs that the  *)
(* directories of a pipeline still locking are owned from the bottom up,   *)
(* and that nobody owns a directory outside lock ... unlock.               *)
(***************************************************************************)
OwnsOnlyItsOwn(j) ==
  \A d \in Dirs : owner[d] = j =>
    d \in DirsOf[j] /\ lockPC[j] \in {"locking", "in", "unlocking"}

OwnsAllWhenIn(j) ==
  lockPC[j] = "in" => \A d \in DirsOf[j] : owner[d] = j

LocksFromTheBottom(j) ==
  lockPC[j] = "locking" =>
    \A d, e \in DirsOf[j] : owner[d] = j /\ owner[e] # j => d < e

LockInv ==
  /\ LockTypeOK
  /\ \A j \in Jobs : OwnsOnlyItsOwn(j) /\ OwnsAllWhenIn(j) /\ LocksFromTheBottom(j)

\* The lock state starts in LockInv.
LEMMA LockInitInv == LockInit => LockInv
BY DirsAssumption
DEF LockInit, LockInv, LockTypeOK, LockPCs, OwnsOnlyItsOwn, OwnsAllWhenIn,
    LocksFromTheBottom

\* Every iteration of lock and of unlock preserves LockInv.
LEMMA LockStepInv == LockInv /\ [LockNext]_lockVars => LockInv'
<1> SUFFICES ASSUME LockInv, [LockNext]_lockVars PROVE LockInv'
  OBVIOUS
<1> USE DirsAssumption
<1>1. ASSUME NEW j \in Jobs, BeginLock(j) PROVE LockInv'
  BY <1>1 DEF LockInv, LockTypeOK, LockPCs, OwnsOnlyItsOwn, OwnsAllWhenIn,
              LocksFromTheBottom, BeginLock
<1>2. ASSUME NEW j \in Jobs, NEW d \in Dirs, TakeLock(j, d) PROVE LockInv'
  <2>1. LockTypeOK'
    BY <1>2 DEF LockInv, LockTypeOK, LockPCs, TakeLock
  <2>2. d \in DirsOf[j] /\ owner[d] = NoJob /\ \A e \in DirsOf[j] : owner[e] # j => d <= e
    BY <1>2 DEF LockInv, LockTypeOK, TakeLock, IsLowest, Missing, Held
  <2>3. ASSUME NEW k \in Jobs
        PROVE  OwnsOnlyItsOwn(k)' /\ OwnsAllWhenIn(k)' /\ LocksFromTheBottom(k)'
    <3>1. CASE k # j
      BY <1>2, <2>2, <3>1 DEF LockInv, LockTypeOK, TakeLock, OwnsOnlyItsOwn,
                               OwnsAllWhenIn, LocksFromTheBottom
    <3>2. CASE k = j
      <4>1. OwnsOnlyItsOwn(j)'
        BY <1>2, <2>2 DEF LockInv, LockTypeOK, LockPCs, TakeLock, OwnsOnlyItsOwn
      <4>2. OwnsAllWhenIn(j)'
        BY <1>2, <2>2 DEF LockInv, LockTypeOK, TakeLock, OwnsAllWhenIn, Missing, Held
      <4>3. LocksFromTheBottom(j)'
        BY <1>2, <2>2 DEF LockInv, LockTypeOK, TakeLock, LocksFromTheBottom
      <4> QED BY <3>2, <4>1, <4>2, <4>3
    <3> QED BY <3>1, <3>2
  <2> QED BY <2>1, <2>3 DEF LockInv
<1>3. ASSUME NEW j \in Jobs, BeginUnlock(j) PROVE LockInv'
  BY <1>3 DEF LockInv, LockTypeOK, LockPCs, OwnsOnlyItsOwn, OwnsAllWhenIn,
              LocksFromTheBottom, BeginUnlock
<1>4. ASSUME NEW j \in Jobs, NEW d \in Dirs, ReleaseLock(j, d) PROVE LockInv'
  <2>1. LockTypeOK'
    BY <1>4 DEF LockInv, LockTypeOK, LockPCs, ReleaseLock
  <2>2. owner[d] = j /\ (Held(j) = {d} => \A e \in Dirs : owner[e] = j => e = d)
    BY <1>4 DEF ReleaseLock, IsLowest, Held
  <2>3. ASSUME NEW k \in Jobs
        PROVE  OwnsOnlyItsOwn(k)' /\ OwnsAllWhenIn(k)' /\ LocksFromTheBottom(k)'
    <3>1. CASE k # j
      BY <1>4, <2>2, <3>1 DEF LockInv, LockTypeOK, ReleaseLock, OwnsOnlyItsOwn,
                               OwnsAllWhenIn, LocksFromTheBottom
    <3>2. CASE k = j
      BY <1>4, <2>2, <3>2 DEF LockInv, LockTypeOK, ReleaseLock, OwnsOnlyItsOwn,
                               OwnsAllWhenIn, LocksFromTheBottom
    <3> QED BY <3>1, <3>2
  <2> QED BY <2>1, <2>3 DEF LockInv
<1>5. CASE UNCHANGED lockVars
  BY <1>5 DEF LockInv, LockTypeOK, OwnsOnlyItsOwn, OwnsAllWhenIn,
              LocksFromTheBottom, lockVars
<1> QED BY <1>1, <1>2, <1>3, <1>4, <1>5 DEF LockNext

\* LockInv holds throughout every run.
THEOREM LockSpecInv == LockSpec => []LockInv
BY LockInitInv, LockStepInv, PTL DEF LockSpec

-----------------------------------------------------------------------------
\* Two pipelines that are "in" own their directories, and a mutex has one owner.
LEMMA LockInvExcludes == LockInv => LocksExclude
<1> SUFFICES ASSUME LockInv, NEW j \in Jobs, NEW k \in Jobs,
                    lockPC[j] = "in", lockPC[k] = "in", j # k
             PROVE  DirsOf[j] \cap DirsOf[k] = {}
  BY DEF LocksExclude
<1> QED BY DirsAssumption DEF LockInv, OwnsAllWhenIn

\* A waiting pipeline k that owns d waits for something above d.
LEMMA LockInvClimbs == LockInv => WaitsClimb
<1> SUFFICES ASSUME LockInv, NEW j \in Jobs, NEW k \in Jobs, NEW d \in Dirs, NEW e \in Dirs,
                    owner[d] = k, lockPC[k] = "locking", IsLowest(e, Missing(k))
             PROVE  d < e
  BY DEF WaitsClimb
<1>1. d \in DirsOf[k] /\ e \in DirsOf[k] /\ owner[e] # k
  BY DirsAssumption DEF LockInv, OwnsOnlyItsOwn, IsLowest, Missing, Held
<1> QED BY <1>1, DirsAssumption DEF LockInv, LocksFromTheBottom

\* dirLocks.lock gives each pipeline its directories exclusively, however many
\* pipelines and directories there are.
THEOREM LocksExcludeAlways == LockSpec => []LocksExclude
BY LockSpecInv, LockInvExcludes, PTL

\* No cycle of pipelines waiting for each other's directories can form.
THEOREM WaitsClimbAlways == LockSpec => []WaitsClimb
BY LockSpecInv, LockInvClimbs, PTL

-----------------------------------------------------------------------------
\* One directory at a time, in order, is as good as all of them at once.
THEOREM LocksImplementExclusion == LockSpec => ExclusionSpec
<1>1. LockInit => Exclusion!Init
  BY DEF LockInit, Exclusion!Init, Using
<1>2. LockInv /\ LockInv' /\ [LockNext]_lockVars => [Exclusion!Next]_Using
  <2> SUFFICES ASSUME LockInv, LockInv', [LockNext]_lockVars
               PROVE  [Exclusion!Next]_Using
    OBVIOUS
  <2>1. ASSUME NEW j \in Jobs, BeginLock(j) PROVE UNCHANGED Using
    BY <2>1 DEF LockInv, LockTypeOK, BeginLock, Using
  <2>2. ASSUME NEW j \in Jobs, NEW d \in Dirs, TakeLock(j, d)
        PROVE  [Exclusion!Next]_Using
    <3>1. CASE lockPC'[j] = "locking"
      BY <2>2, <3>1 DEF LockInv, LockTypeOK, TakeLock, Using
    <3>2. CASE lockPC'[j] = "in"
      <4>1. j \notin Using /\ Using' = Using \cup {j}
        BY <2>2, <3>2 DEF LockInv, LockTypeOK, TakeLock, Using
      <4>2. ASSUME NEW k \in Using PROVE ~Exclusion!Conflict(j, k)
        <5>1. k \in Jobs /\ lockPC'[k] = "in" /\ lockPC'[j] = "in"
          BY <4>1, <4>2, <3>2 DEF Using
        <5>2. LocksExclude'
          <6>1. LockInv' => LocksExclude'
            BY LockInvExcludes, PTL
          <6> QED BY <6>1
        <5> QED BY <5>1, <5>2, <4>1, <4>2 DEF LocksExclude, Exclusion!Conflict
      <4> QED BY <4>1, <4>2 DEF Exclusion!Next, Exclusion!Enter
    <3> QED BY <2>2, <3>1, <3>2 DEF TakeLock, LockInv, LockTypeOK
  <2>3. ASSUME NEW j \in Jobs, BeginUnlock(j) PROVE Exclusion!Leave(j)
    BY <2>3 DEF LockInv, LockTypeOK, BeginUnlock, Using, Exclusion!Leave
  <2>4. ASSUME NEW j \in Jobs, NEW d \in Dirs, ReleaseLock(j, d) PROVE UNCHANGED Using
    BY <2>4 DEF LockInv, LockTypeOK, ReleaseLock, Using
  <2>5. CASE UNCHANGED lockVars
    BY <2>5 DEF Using, lockVars
  <2> QED BY <2>1, <2>2, <2>3, <2>4, <2>5 DEF LockNext, Exclusion!Next
<1> QED BY <1>1, <1>2, LockSpecInv, PTL DEF LockSpec, ExclusionSpec, Exclusion!Spec

-----------------------------------------------------------------------------
(* The worker slots *)

\* The state predicates over explicit arguments, for the states that
\* notifyWaiters starts from.
Full(r) == r.n = NumSlots
Alone(H) == \A r \in H : Full(r) => H = {r}
Accounts(c, H) == c = IF \E r \in H : Full(r) THEN NumSlots ELSE Cardinality(H)

\* Requests queued by different pipelines, none of them running.
Queue(ws, H) ==
  /\ ws \in Seq(Requests)
  /\ \A i, k \in 1 .. Len(ws) : ws[i].job = ws[k].job => i = k
  /\ \A i \in 1 .. Len(ws) : ws[i] \notin H

Holding(c, H) ==
  /\ c \in 0 .. NumSlots
  /\ H \subseteq Requests
  /\ IsFiniteSet(H)
  /\ Alone(H)
  /\ Accounts(c, H)

\* The inductive invariant.  The count of slots is exact only because a granted
\* request is never already running, which holds because a pipeline queues one
\* request at a time.
SlotInv ==
  /\ Holding(cur, running)
  /\ Queue(waiters, running)
  /\ FrontBlocked

-----------------------------------------------------------------------------
\* Demand counts one slot per request, and NumSlots - 1 more for each of the
\* requests for all slots.
LEMMA DemandBounds ==
  ASSUME NEW ws \in Seq(Requests), NEW k \in 0 .. Len(ws)
  PROVE  LET S == {i \in 1 .. k : Full(ws[i])} IN
         /\ IsFiniteSet(S)
         /\ Cardinality(S) \in Nat
         /\ Demand(ws, k) \in Nat
         /\ S = {} => Demand(ws, k) = k
         /\ S # {} => Demand(ws, k) >= k + (NumSlots - 1)
<1> DEFINE S == {i \in 1 .. k : Full(ws[i])}
<1>1. k \in Nat /\ NumSlots \in Nat /\ NumSlots - 1 \in Nat
  BY SlotsAssumption, LenProperties
<1>2. IsFiniteSet(S) /\ Cardinality(S) \in Nat
  <2>1. IsFiniteSet(1 .. k)
    BY <1>1, FS_Interval
  <2>2. S \in SUBSET (1 .. k)
    OBVIOUS
  <2> QED BY <2>1, <2>2, FS_Subset, FS_CardinalityType
<1>3. Demand(ws, k) = k + (NumSlots - 1) * Cardinality(S)
  BY DEF Demand, Full
<1>4. ASSUME NEW a \in Nat, NEW c \in Nat
      PROVE  a * c \in Nat /\ (c = 0 => a * c = 0) /\ (c # 0 => a * c >= a)
  OBVIOUS
<1>5. S = {} <=> Cardinality(S) = 0
  BY <1>2, FS_EmptySet
<1> HIDE DEF S
<1>6. /\ (NumSlots - 1) * Cardinality(S) \in Nat
      /\ Cardinality(S) = 0 => (NumSlots - 1) * Cardinality(S) = 0
      /\ Cardinality(S) # 0 => (NumSlots - 1) * Cardinality(S) >= NumSlots - 1
  BY <1>1, <1>2, <1>4
<1>7. /\ Demand(ws, k) \in Nat
      /\ S = {} => Demand(ws, k) = k
      /\ S # {} => Demand(ws, k) >= k + (NumSlots - 1)
  BY <1>1, <1>3, <1>5, <1>6
<1> QED BY <1>2, <1>7 DEF S

\* Each queued request adds its own weight to the demand.
LEMMA DemandStep ==
  ASSUME NEW ws \in Seq(Requests), NEW k \in 0 .. Len(ws) - 1
  PROVE  Demand(ws, k + 1) = Demand(ws, k) + ws[k + 1].n
<1> DEFINE S(m) == {i \in 1 .. m : Full(ws[i])}
<1>1. k \in Nat /\ Len(ws) \in Nat /\ k \in 0 .. Len(ws) /\ k + 1 \in 1 .. Len(ws)
  BY LenProperties
<1>2. NumSlots \in Nat \ {0} /\ ws[k + 1].n \in {1, NumSlots}
  <2>1. ws[k + 1] \in Requests
    BY <1>1, ElementOfSeq
  <2> QED BY <2>1, SlotsAssumption DEF Requests
<1>3. IsFiniteSet(S(k)) /\ Cardinality(S(k)) \in Nat
  BY <1>1, DemandBounds
<1>4. /\ Demand(ws, k) = k + (NumSlots - 1) * Cardinality(S(k))
      /\ Demand(ws, k + 1) = (k + 1) + (NumSlots - 1) * Cardinality(S(k + 1))
  BY DEF Demand, Full
<1>5. CASE Full(ws[k + 1])
  <2>1. S(k + 1) = S(k) \cup {k + 1} /\ k + 1 \notin S(k)
    BY <1>1, <1>5
  <2>2. Cardinality(S(k + 1)) = Cardinality(S(k)) + 1
    BY <2>1, <1>3, FS_AddElement
  <2>3. ASSUME NEW a \in Nat, NEW c \in Nat PROVE a * (c + 1) = a * c + a /\ a * c \in Nat
    OBVIOUS
  <2> HIDE DEF S
  <2>4. (NumSlots - 1) * (Cardinality(S(k)) + 1)
          = (NumSlots - 1) * Cardinality(S(k)) + (NumSlots - 1)
        /\ (NumSlots - 1) * Cardinality(S(k)) \in Nat
    <3>1. NumSlots - 1 \in Nat
      BY <1>2
    <3> QED BY <2>3, <1>3, <3>1, Zenon
  <2> DEFINE P == (NumSlots - 1) * Cardinality(S(k))
  <2>5. Demand(ws, k) = k + P /\ Demand(ws, k + 1) = (k + 1) + (P + (NumSlots - 1))
    BY <1>4, <2>2, <2>4
  <2>6. P \in Nat /\ ws[k + 1].n = NumSlots
    BY <2>4, <1>2, <1>5 DEF Full
  <2> HIDE DEF P
  <2> QED BY <2>5, <2>6, <1>1, <1>2
<1>6. CASE ~Full(ws[k + 1])
  <2>1. S(k + 1) = S(k)
    BY <1>1, <1>6
  <2>2. ws[k + 1].n = 1
    BY <1>2, <1>6 DEF Full
  <2>3. Demand(ws, k) \in Nat
    BY <1>1, DemandBounds
  <2> HIDE DEF S
  <2>4. Demand(ws, k + 1) = Demand(ws, k) + 1
    <3>1. Demand(ws, k + 1) = (k + 1) + (NumSlots - 1) * Cardinality(S(k))
      BY <1>4, <2>1
    <3>2. (NumSlots - 1) * Cardinality(S(k)) \in Int
      BY <1>2, <1>3
    <3> QED BY <3>1, <3>2, <1>1, <1>4
  <2> QED BY <2>2, <2>4
<1> QED BY <1>5, <1>6

\* The first k requests of a queue are k different requests.
LEMMA PrefixCount ==
  ASSUME NEW H, NEW ws, Queue(ws, H), NEW k \in 0 .. Len(ws)
  PROVE  LET G == {ws[i] : i \in 1 .. k} IN
         IsFiniteSet(G) /\ Cardinality(G) = k /\ G \cap H = {} /\ G \subseteq Requests
<1> DEFINE G == {ws[i] : i \in 1 .. k}
           f == [i \in 1 .. k |-> ws[i]]
<1>1. ws \in Seq(Requests) /\ Len(ws) \in Nat /\ k \in Nat
  BY LenProperties DEF Queue
<1>2. IsFiniteSet(1 .. k) /\ Cardinality(1 .. k) = k
  BY <1>1, FS_Interval
<1>3. \A i, m \in 1 .. k : ws[i] = ws[m] => i = m
  BY <1>1 DEF Queue
<1>4. f \in Surjection(1 .. k, G) /\ f \in Injection(1 .. k, G)
  BY <1>3 DEF Surjection, Injection, IsInjective
<1>5. IsFiniteSet(G) /\ Cardinality(G) = Cardinality(1 .. k)
  BY <1>2, <1>4, FS_Surjection
<1>6. G \cap H = {} /\ G \subseteq Requests
  BY <1>1, ElementOfSeq DEF Queue
<1> QED BY <1>2, <1>5, <1>6

\* notifyWaiters leaves in the queue what it does not grant, in order.
LEMMA NotifyLeaves ==
  ASSUME NEW c, NEW H, NEW ws \in Seq(Requests), NEW k \in 0 .. Len(ws),
         NotifyWaiters(ws, c, H, k)
  PROVE  /\ waiters' \in Seq(Requests)
         /\ Len(waiters') = Len(ws) - k
         /\ \A i \in 1 .. Len(ws) - k : waiters'[i] = ws[k + i]
<1>1. Len(ws) \in Nat /\ k \in Nat /\ k <= Len(ws) /\ \A i \in 1 .. Len(ws) : ws[i] \in Requests
  BY LenProperties, ElementOfSeq
<1>2. \A i \in k + 1 .. Len(ws) : ws[i] \in Requests
  BY <1>1
<1>3. waiters' = SubSeq(ws, k + 1, Len(ws))
  BY DEF NotifyWaiters
<1>4. /\ waiters' \in Seq(Requests)
      /\ Len(waiters') = IF k + 1 <= Len(ws) THEN Len(ws) - (k + 1) + 1 ELSE 0
      /\ \A i \in 1 .. Len(ws) - (k + 1) + 1 : waiters'[i] = ws[(k + 1) + i - 1]
  BY <1>1, <1>2, <1>3, SubSeqProperties
<1> QED BY <1>1, <1>4

-----------------------------------------------------------------------------
\* notifyWaiters, from a state in which the slots are accounted for, grants
\* requests without exceeding the slots or running anything beside a request
\* for all of them, and stops only at a request that does not fit.
LEMMA NotifyPreserves ==
  ASSUME NEW c, NEW H, NEW ws, NEW k \in 0 .. Len(ws),
         Holding(c, H), Queue(ws, H), NotifyWaiters(ws, c, H, k)
  PROVE  SlotInv'
<1> DEFINE S == {i \in 1 .. k : Full(ws[i])}
           G == {ws[i] : i \in 1 .. k}
<1>1. /\ ws \in Seq(Requests) /\ Len(ws) \in Nat /\ k \in Nat /\ k <= Len(ws)
      /\ NumSlots \in Nat \ {0} /\ c \in 0 .. NumSlots
      /\ \A i \in 1 .. Len(ws) : ws[i] \in Requests
  BY LenProperties, ElementOfSeq, SlotsAssumption DEF Queue, Holding
<1>2. /\ Demand(ws, k) \in Nat
      /\ S = {} => Demand(ws, k) = k
      /\ S # {} => Demand(ws, k) >= k + (NumSlots - 1)
  BY <1>1, DemandBounds
<1>3. IsFiniteSet(G) /\ Cardinality(G) = k /\ G \cap H = {} /\ G \subseteq Requests
  BY PrefixCount
<1>4. /\ Demand(ws, k) <= NumSlots - c
      /\ cur' = c + Demand(ws, k)
      /\ running' = H \cup G
      /\ waiters' = SubSeq(ws, k + 1, Len(ws))
      /\ k < Len(ws) => Demand(ws, k + 1) > NumSlots - c
  BY DEF NotifyWaiters
<1>5. IsFiniteSet(H) /\ Cardinality(H) \in Nat
  BY FS_CardinalityType DEF Holding
<1>6. Holding(cur, running)'
  <2>1. cur' \in 0 .. NumSlots
    BY <1>1, <1>2, <1>4
  <2>2. IsFiniteSet(H \cup G) /\ Cardinality(H \cup G) = Cardinality(H) + k
    <3>1. H \cap G = {}
      BY <1>3
    <3>2. /\ IsFiniteSet(H \cup G)
          /\ Cardinality(H \cup G) = Cardinality(H) + Cardinality(G) - Cardinality(H \cap G)
      BY <1>3, <1>5, FS_Union
    <3>3. Cardinality(H \cap G) = 0
      BY <3>1, FS_EmptySet
    <3> HIDE DEF G
    <3> QED BY <3>2, <3>3, <1>1, <1>3, <1>5
  <2>3. H \cup G \subseteq Requests
    BY <1>3 DEF Holding
  <2>4. CASE k = 0
    <3>1. G = {} /\ Demand(ws, k) = 0
      BY <2>4, <1>2
    <3> HIDE DEF G
    <3>2. cur' = c
      BY <3>1, <1>1, <1>4
    <3>3. running' = H
      BY <3>1, <1>4
    <3> QED BY <3>2, <3>3 DEF Holding, Alone, Accounts
  <2>5. CASE k # 0
    <3>1. c < NumSlots
      BY <2>5, <1>1, <1>2, <1>4
    <3>2. \A r \in H : ~Full(r)
      BY <3>1, <1>1 DEF Holding, Accounts
    <3>3. c = Cardinality(H)
      BY <3>2 DEF Holding, Accounts
    <3>4. CASE S = {}
      <4>1. \A r \in H \cup G : ~Full(r)
        BY <3>2, <3>4
      <4>2. cur' = Cardinality(H \cup G)
        BY <2>2, <3>3, <3>4, <1>2, <1>4
      <4> QED BY <2>1, <2>2, <2>3, <4>1, <4>2, <1>4 DEF Holding, Alone, Accounts
    <3>5. CASE S # {}
      <4>1. k = 1 /\ c = 0
        <5>1. Demand(ws, k) >= k + (NumSlots - 1) /\ Demand(ws, k) <= NumSlots - c
          BY <3>5, <1>2, <1>4
        <5>2. k \in Nat /\ k # 0 /\ c \in Nat /\ NumSlots \in Nat /\ Demand(ws, k) \in Nat
          BY <2>5, <1>1, <1>2
        <5> QED BY <5>1, <5>2
      <4>2. H = {} /\ G = {ws[1]}
        <5>1. H = {}
          BY <4>1, <3>3, <1>5, FS_EmptySet
        <5>2. 1 .. k = {1}
          BY <4>1
        <5>3. G = {ws[1]}
          BY <5>2
        <5> QED BY <5>1, <5>3
      <4>3. Full(ws[1]) /\ cur' = NumSlots
        BY <4>1, <3>5, <1>1, <1>2, <1>4
      <4> QED BY <2>1, <2>2, <2>3, <4>2, <4>3, <1>4 DEF Holding, Alone, Accounts
    <3> QED BY <3>4, <3>5
  <2> QED BY <2>4, <2>5
<1>7. /\ waiters' \in Seq(Requests)
      /\ Len(waiters') = Len(ws) - k
      /\ \A i \in 1 .. Len(ws) - k : waiters'[i] = ws[k + i]
  BY <1>1, NotifyLeaves
<1>8. Queue(waiters, running)'
  <2>1. \A i, m \in 1 .. Len(waiters') : waiters'[i].job = waiters'[m].job => i = m
    BY <1>1, <1>7 DEF Queue
  <2>2. \A i \in 1 .. Len(waiters') : waiters'[i] \notin running'
    <3> SUFFICES ASSUME NEW i \in 1 .. Len(waiters') PROVE ws[k + i] \notin H \cup G
      BY <1>4, <1>7
    <3>1. k + i \in 1 .. Len(ws)
      BY <1>1, <1>7
    <3>2. \A m \in 1 .. k : ws[m] # ws[k + i]
      BY <3>1, <1>1, <1>7 DEF Queue
    <3> QED BY <3>1, <3>2 DEF Queue
  <2> QED BY <1>7, <2>1, <2>2 DEF Queue
<1>9. FrontBlocked'
  <2> SUFFICES ASSUME waiters' # << >> PROVE waiters'[1].n > NumSlots - cur'
    BY DEF FrontBlocked
  <2>1. Len(waiters') # 0
    BY <1>7, EmptySeq
  <2>2. k \in 0 .. Len(ws) - 1 /\ waiters'[1] = ws[k + 1]
    BY <2>1, <1>1, <1>7
  <2>3. Demand(ws, k + 1) = Demand(ws, k) + ws[k + 1].n
    BY <1>1, <2>2, DemandStep
  <2>4. ws[k + 1].n \in Nat
    <3>1. ws[k + 1] \in Requests
      BY <2>2, <1>1
    <3> QED BY <3>1, <1>1 DEF Requests
  <2>5. Demand(ws, k + 1) > NumSlots - c
    BY <2>2, <1>1, <1>4
  <2>6. cur' = c + Demand(ws, k)
    BY <1>4
  <2>7. c + Demand(ws, k) \in Nat /\ NumSlots \in Nat /\ c \in Nat /\ Demand(ws, k) \in Nat
    BY <1>1, <1>2
  <2>8. Demand(ws, k) + ws[k + 1].n > NumSlots - c
    BY <2>3, <2>5
  <2>9. ws[k + 1].n > NumSlots - (c + Demand(ws, k))
    BY <2>4, <2>7, <2>8
  <2> QED BY <2>2, <2>6, <2>9
<1> QED BY <1>6, <1>8, <1>9 DEF SlotInv

-----------------------------------------------------------------------------
\* No slot is taken at the start.
LEMMA SlotInitInv == SlotInit => SlotInv
BY SlotsAssumption, FS_EmptySet, EmptySeq
DEF SlotInit, SlotInv, Holding, Queue, FrontBlocked, Alone, Accounts

\* A queue without its i-th request.
LEMMA WithoutOne ==
  ASSUME NEW ws \in Seq(Requests), NEW i \in 1 .. Len(ws)
  PROVE  LET w == SubSeq(ws, 1, i - 1) \o SubSeq(ws, i + 1, Len(ws)) IN
         /\ w \in Seq(Requests)
         /\ Len(w) = Len(ws) - 1
         /\ \A m \in 1 .. Len(ws) - 1 : w[m] = IF m <= i - 1 THEN ws[m] ELSE ws[m + 1]
<1> DEFINE a == SubSeq(ws, 1, i - 1)
           b == SubSeq(ws, i + 1, Len(ws))
           w == a \o b
<1>1. Len(ws) \in Nat /\ i \in Nat /\ 1 <= i /\ i <= Len(ws)
  BY LenProperties
<1>2. \A m \in 1 .. Len(ws) : ws[m] \in Requests
  BY ElementOfSeq
<1>3. /\ a \in Seq(Requests) /\ Len(a) = i - 1
      /\ \A m \in 1 .. i - 1 : a[m] = ws[m]
  <2>1. \A m \in 1 .. i - 1 : ws[m] \in Requests
    BY <1>1, <1>2
  <2>2. /\ a \in Seq(Requests) /\ Len(a) = IF 1 <= i - 1 THEN (i - 1) - 1 + 1 ELSE 0
        /\ \A m \in 1 .. (i - 1) - 1 + 1 : a[m] = ws[1 + m - 1]
    BY <1>1, <2>1, SubSeqProperties
  <2> HIDE DEF a
  <2>3. Len(a) = i - 1
    BY <1>1, <2>2
  <2>4. \A m \in 1 .. i - 1 : a[m] = ws[m]
    BY <1>1, <2>2
  <2> QED BY <2>2, <2>3, <2>4
<1>4. /\ b \in Seq(Requests) /\ Len(b) = Len(ws) - i
      /\ \A m \in 1 .. Len(ws) - i : b[m] = ws[i + m]
  <2>1. \A m \in i + 1 .. Len(ws) : ws[m] \in Requests
    BY <1>1, <1>2
  <2>2. /\ b \in Seq(Requests)
        /\ Len(b) = IF i + 1 <= Len(ws) THEN Len(ws) - (i + 1) + 1 ELSE 0
        /\ \A m \in 1 .. Len(ws) - (i + 1) + 1 : b[m] = ws[(i + 1) + m - 1]
    BY <2>1, <1>1, SubSeqProperties
  <2> HIDE DEF b
  <2>3. Len(b) = Len(ws) - i
    BY <2>2, <1>1
  <2>4. ASSUME NEW m \in 1 .. Len(ws) - i PROVE b[m] = ws[i + m]
    <3>1. m \in 1 .. Len(ws) - (i + 1) + 1 /\ (i + 1) + m - 1 = i + m
      BY <1>1
    <3>2. b[m] = ws[(i + 1) + m - 1]
      BY <2>2, <3>1
    <3> QED BY <3>1, <3>2
  <2> QED BY <2>2, <2>3, <2>4
<1>5. /\ w \in Seq(Requests) /\ Len(w) = Len(a) + Len(b)
      /\ \A m \in 1 .. Len(a) + Len(b) : w[m] = IF m <= Len(a) THEN a[m] ELSE b[m - Len(a)]
  BY <1>3, <1>4, ConcatProperties
<1> HIDE DEF a, b, w
<1>6. Len(w) = Len(ws) - 1
  BY <1>1, <1>3, <1>4, <1>5
<1>7. ASSUME NEW m \in 1 .. Len(ws) - 1
      PROVE  w[m] = IF m <= i - 1 THEN ws[m] ELSE ws[m + 1]
  <2>1. m \in 1 .. Len(a) + Len(b)
    BY <1>1, <1>3, <1>4
  <2>2. w[m] = IF m <= i - 1 THEN a[m] ELSE b[m - (i - 1)]
    BY <2>1, <1>3, <1>5
  <2>3. CASE m <= i - 1
    BY <2>2, <2>3, <1>3
  <2>4. CASE ~(m <= i - 1)
    <3>1. m - (i - 1) \in 1 .. Len(ws) - i /\ i + (m - (i - 1)) = m + 1
      BY <2>4, <1>1
    <3> QED BY <2>2, <2>4, <3>1, <1>4
  <2> QED BY <2>3, <2>4
<1>8. /\ w \in Seq(Requests)
      /\ Len(w) = Len(ws) - 1
      /\ \A m \in 1 .. Len(ws) - 1 : w[m] = IF m <= i - 1 THEN ws[m] ELSE ws[m + 1]
  BY <1>5, <1>6, <1>7
<1> QED BY <1>8 DEF w, a, b

\* Acquire, Release and a cancelled wait preserve SlotInv.
LEMMA SlotStepInv == SlotInv /\ [SlotNext]_slotVars => SlotInv'
<1> SUFFICES ASSUME SlotInv, [SlotNext]_slotVars PROVE SlotInv'
  OBVIOUS
<1>1. /\ Holding(cur, running) /\ Queue(waiters, running) /\ FrontBlocked
      /\ cur \in 0 .. NumSlots /\ NumSlots \in Nat \ {0}
      /\ IsFiniteSet(running) /\ Cardinality(running) \in Nat
      /\ waiters \in Seq(Requests) /\ Len(waiters) \in Nat
      /\ DOMAIN waiters = 1 .. Len(waiters)
  BY SlotsAssumption, LenProperties, FS_CardinalityType DEF SlotInv, Holding, Queue
<1>2. ASSUME NEW r \in Requests, Acquire(r), AcquireNow(r) PROVE SlotInv'
  <2>1. /\ r.n <= NumSlots - cur /\ waiters = << >> /\ r \notin running
        /\ cur' = cur + r.n /\ running' = running \cup {r} /\ waiters' = waiters
    BY <1>2 DEF Acquire, AcquireNow
  <2>2. r.n \in {1, NumSlots}
    BY DEF Requests
  <2>3. /\ IsFiniteSet(running \cup {r})
        /\ Cardinality(running \cup {r}) = Cardinality(running) + 1
    BY <1>1, <2>1, FS_AddElement
  <2>4. cur < NumSlots /\ cur' \in 0 .. NumSlots
    BY <1>1, <2>1, <2>2
  <2>5. \A q \in running : ~Full(q)
    BY <1>1, <2>4 DEF Holding, Accounts
  <2>6. cur = Cardinality(running)
    BY <1>1, <2>5 DEF Holding, Accounts
  <2>7. Alone(running') /\ Accounts(cur', running')
    <3>1. CASE Full(r)
      <4>1. cur = 0
        BY <1>1, <2>1, <3>1 DEF Full
      <4>2. running = {}
        BY <4>1, <2>6, <1>1, FS_EmptySet
      <4> QED BY <4>1, <4>2, <2>1, <3>1, <1>1 DEF Alone, Accounts, Full
    <3>2. CASE ~Full(r)
      <4>1. r.n = 1
        BY <2>2, <3>2 DEF Full
      <4>2. \A q \in running' : ~Full(q)
        BY <2>1, <2>5, <3>2
      <4>3. cur' = Cardinality(running')
        BY <4>1, <2>1, <2>3, <2>6
      <4> QED BY <4>2, <4>3 DEF Alone, Accounts
    <3> QED BY <3>1, <3>2
  <2>8. running' \subseteq Requests
    BY <2>1, <1>1 DEF Holding
  <2>9. Holding(cur, running)'
    BY <2>1, <2>3, <2>4, <2>7, <2>8 DEF Holding, Alone, Accounts
  <2>10. Queue(waiters, running)' /\ FrontBlocked'
    BY <2>1, EmptySeq DEF Queue, FrontBlocked
  <2> QED BY <2>9, <2>10 DEF SlotInv
<1>3. ASSUME NEW r \in Requests, Acquire(r), AcquireLater(r) PROVE SlotInv'
  <2>1. /\ waiters' = Append(waiters, r) /\ cur' = cur /\ running' = running
        /\ r \notin running
        /\ ~(r.n <= NumSlots - cur /\ waiters = << >>)
    BY <1>3 DEF Acquire, AcquireLater
  <2>2. /\ waiters' \in Seq(Requests) /\ Len(waiters') = Len(waiters) + 1
        /\ \A i \in 1 .. Len(waiters) : waiters'[i] = waiters[i]
        /\ waiters'[Len(waiters) + 1] = r
    BY <1>1, <2>1, AppendProperties
  <2>3. \A i \in 1 .. Len(waiters) : waiters[i].job # r.job
    BY <1>1, <1>3 DEF Acquire, Blocked, Waiting
  <2>4. \A i, k \in 1 .. Len(waiters') : waiters'[i].job = waiters'[k].job => i = k
    <3> SUFFICES ASSUME NEW i \in 1 .. Len(waiters) + 1, NEW k \in 1 .. Len(waiters) + 1,
                        waiters'[i].job = waiters'[k].job
                 PROVE  i = k
      BY <2>2
    <3>1. CASE i \in 1 .. Len(waiters) /\ k \in 1 .. Len(waiters)
      BY <3>1, <1>1, <2>2 DEF Queue
    <3>2. CASE i = Len(waiters) + 1 \/ k = Len(waiters) + 1
      BY <3>2, <1>1, <2>2, <2>3
    <3> QED BY <3>1, <3>2, <1>1
  <2>5. \A i \in 1 .. Len(waiters') : waiters'[i] \notin running'
    <3> SUFFICES ASSUME NEW i \in 1 .. Len(waiters) + 1 PROVE waiters'[i] \notin running
      BY <2>1, <2>2
    <3>1. CASE i \in 1 .. Len(waiters)
      BY <3>1, <1>1, <2>2 DEF Queue
    <3>2. CASE i = Len(waiters) + 1
      BY <3>2, <2>1, <2>2
    <3> QED BY <3>1, <3>2, <1>1
  <2>6. Queue(waiters, running)'
    BY <2>2, <2>4, <2>5 DEF Queue
  <2>7. FrontBlocked'
    <3>1. CASE waiters = << >>
      <4>1. waiters'[1] = r /\ ~(r.n <= NumSlots - cur)
        BY <3>1, <2>1, <2>2, EmptySeq
      <4>2. r.n \in Nat
        BY <1>1 DEF Requests
      <4> QED BY <4>1, <4>2, <2>1, <1>1 DEF FrontBlocked
    <3>2. CASE waiters # << >>
      <4>1. Len(waiters) \in Nat \ {0}
        BY <3>2, <1>1, EmptySeq
      <4> QED BY <3>2, <4>1, <1>1, <2>1, <2>2 DEF FrontBlocked
    <3> QED BY <3>1, <3>2
  <2>8. Holding(cur, running)'
    BY <1>1, <2>1 DEF Holding, Alone, Accounts
  <2> QED BY <2>6, <2>7, <2>8 DEF SlotInv
<1>4. ASSUME NEW r \in Requests, Release(r) PROVE SlotInv'
  <2>1. r \in running
    BY <1>4 DEF Release
  <2>2. PICK k \in 0 .. Len(waiters) :
          NotifyWaiters(waiters, cur - r.n, running \ {r}, k)
    BY <1>4 DEF Release
  <2>3. /\ IsFiniteSet(running \ {r})
        /\ Cardinality(running \ {r}) = Cardinality(running) - 1
    BY <1>1, <2>1, FS_RemoveElement
  <2>4. Holding(cur - r.n, running \ {r})
    <3>1. CASE Full(r)
      <4>1. running = {r} /\ cur = NumSlots /\ r.n = NumSlots
        BY <3>1, <2>1, <1>1 DEF Holding, Alone, Accounts, Full
      <4>2. running \ {r} = {} /\ cur - r.n = 0
        BY <4>1, <1>1
      <4>3. Holding(0, {})
        BY <1>1, FS_EmptySet DEF Holding, Alone, Accounts
      <4> QED BY <4>2, <4>3
    <3>2. CASE ~Full(r)
      <4>1. \A q \in running : ~Full(q)
        BY <3>2, <2>1, <1>1 DEF Holding, Alone
      <4>2. r.n = 1
        BY <3>2 DEF Requests, Full
      <4>3. cur = Cardinality(running)
        BY <4>1, <1>1 DEF Holding, Accounts
      <4>4. Cardinality(running \ {r}) \in Nat
        BY <2>3, FS_CardinalityType
      <4>5. cur - r.n = Cardinality(running \ {r}) /\ cur - r.n \in 0 .. NumSlots
        BY <4>2, <4>3, <4>4, <2>3, <1>1
      <4> QED BY <4>1, <4>5, <2>3, <1>1 DEF Holding, Alone, Accounts
    <3> QED BY <3>1, <3>2
  <2>5. Queue(waiters, running \ {r})
    BY <1>1 DEF Queue
  <2> QED BY <2>2, <2>4, <2>5, NotifyPreserves
<1>5. ASSUME NEW r \in Requests, CancelWait(r) PROVE SlotInv'
  <2>1. PICK i \in 1 .. Len(waiters) :
          IF i = 1
            THEN \E k \in 0 .. Len(waiters) - 1 :
                   NotifyWaiters(Tail(waiters), cur, running, k)
            ELSE /\ waiters' = SubSeq(waiters, 1, i - 1)
                                 \o SubSeq(waiters, i + 1, Len(waiters))
                 /\ UNCHANGED <<cur, running>>
    BY <1>1, <1>5 DEF CancelWait
  <2>2. CASE i = 1
    <3>1. waiters # << >>
      BY <1>1, EmptySeq
    <3>2. /\ Tail(waiters) \in Seq(Requests) /\ Len(Tail(waiters)) = Len(waiters) - 1
          /\ \A m \in 1 .. Len(waiters) - 1 : Tail(waiters)[m] = waiters[m + 1]
      BY <3>1, <1>1, HeadTailProperties
    <3>3. PICK k \in 0 .. Len(Tail(waiters)) : NotifyWaiters(Tail(waiters), cur, running, k)
      BY <2>1, <2>2, <3>2
    <3>4. Queue(Tail(waiters), running)
      <4>1. \A m \in 1 .. Len(waiters) - 1 : m + 1 \in 1 .. Len(waiters)
        BY <1>1
      <4> QED BY <1>1, <3>2, <4>1 DEF Queue
    <3> QED BY <3>3, <3>4, <1>1, NotifyPreserves
  <2>3. CASE i # 1
    <3>4. cur' = cur /\ running' = running
      BY <2>1, <2>3
    <3>5. /\ waiters' \in Seq(Requests) /\ Len(waiters') = Len(waiters) - 1
          /\ \A m \in 1 .. Len(waiters) - 1 :
               waiters'[m] = IF m <= i - 1 THEN waiters[m] ELSE waiters[m + 1]
      BY <1>1, <2>1, <2>3, WithoutOne
    <3>6. Queue(waiters, running)'
      <4> DEFINE p(m) == IF m <= i - 1 THEN m ELSE m + 1
      <4>1. \A m \in 1 .. Len(waiters') :
              p(m) \in 1 .. Len(waiters) /\ waiters'[m] = waiters[p(m)]
        BY <3>5, <1>1
      <4>2. \A m, q \in 1 .. Len(waiters') : p(m) = p(q) => m = q
        BY <3>5, <1>1
      <4> HIDE DEF p
      <4>3. \A m, q \in 1 .. Len(waiters') : waiters'[m].job = waiters'[q].job => m = q
        BY <4>1, <4>2, <1>1 DEF Queue
      <4>4. \A m \in 1 .. Len(waiters') : waiters'[m] \notin running'
        BY <4>1, <3>4, <1>1 DEF Queue
      <4> QED BY <3>5, <4>3, <4>4 DEF Queue
    <3>7. FrontBlocked'
      <4>1. Len(waiters) > 1 /\ waiters'[1] = waiters[1] /\ waiters # << >>
        BY <2>3, <3>5, <1>1, EmptySeq
      <4> QED BY <4>1, <3>4, <1>1 DEF FrontBlocked
    <3>8. Holding(cur, running)'
      BY <1>1, <3>4 DEF Holding, Alone, Accounts
    <3> QED BY <3>6, <3>7, <3>8 DEF SlotInv
  <2> QED BY <2>2, <2>3
<1>6. CASE UNCHANGED slotVars
  BY <1>6 DEF SlotInv, Holding, Queue, FrontBlocked, Alone, Accounts, slotVars
<1> QED BY <1>2, <1>3, <1>4, <1>5, <1>6 DEF SlotNext, Acquire

-----------------------------------------------------------------------------
\* SlotInv holds throughout every run.
THEOREM SlotSpecInv == SlotSpec => []SlotInv
BY SlotInitInv, SlotStepInv, PTL DEF SlotSpec

\* The requests that hold slots or wait for them.
Asked == running \cup Waiting

Members(ws) == {ws[i] : i \in 1 .. Len(ws)}

\* Waking waiters moves them from the queue to the running requests.
LEMMA NotifyMoves ==
  ASSUME NEW c, NEW H, NEW ws \in Seq(Requests), NEW k \in 0 .. Len(ws),
         NotifyWaiters(ws, c, H, k)
  PROVE  Asked' = H \cup Members(ws)
<1>1. Len(ws) \in Nat /\ k \in Nat /\ k <= Len(ws)
  BY LenProperties
<1>2. /\ waiters' \in Seq(Requests)
      /\ Len(waiters') = Len(ws) - k
      /\ \A i \in 1 .. Len(ws) - k : waiters'[i] = ws[k + i]
  BY NotifyLeaves
<1>3. DOMAIN waiters' = 1 .. Len(ws) - k
  BY <1>2, LenProperties
<1>4. running' = H \cup {ws[i] : i \in 1 .. k}
  BY DEF NotifyWaiters
<1>5. Waiting' = {ws[i] : i \in k + 1 .. Len(ws)}
  <2>1. ASSUME NEW x \in Waiting' PROVE x \in {ws[i] : i \in k + 1 .. Len(ws)}
    <3>1. PICK i \in 1 .. Len(ws) - k : x = waiters'[i]
      BY <1>3 DEF Waiting
    <3>2. k + i \in k + 1 .. Len(ws)
      BY <1>1
    <3> QED BY <1>2, <3>1, <3>2
  <2>2. ASSUME NEW i \in k + 1 .. Len(ws) PROVE ws[i] \in Waiting'
    <3>1. i - k \in 1 .. Len(ws) - k /\ k + (i - k) = i
      BY <1>1
    <3> QED BY <1>2, <1>3, <3>1 DEF Waiting
  <2> QED BY <2>1, <2>2
<1>6. 1 .. Len(ws) = (1 .. k) \cup (k + 1 .. Len(ws))
  BY <1>1
<1> QED BY <1>4, <1>5, <1>6 DEF Asked, Members

\* Acquire adds the request, granted or not.
LEMMA AcquireAsks ==
  ASSUME NEW r \in Requests, waiters \in Seq(Requests), Acquire(r)
  PROVE  Asked' = Asked \cup {r}
<1>1. CASE AcquireNow(r)
  BY <1>1 DEF AcquireNow, Asked, Waiting
<1>2. CASE AcquireLater(r)
  <2>1. waiters' = Append(waiters, r) /\ running' = running
    BY <1>2 DEF AcquireLater
  <2>2. /\ Len(waiters) \in Nat /\ DOMAIN waiters = 1 .. Len(waiters)
        /\ Len(waiters') = Len(waiters) + 1 /\ DOMAIN waiters' = 1 .. Len(waiters')
    BY <2>1, LenProperties, AppendProperties
  <2>3. /\ \A i \in 1 .. Len(waiters) : waiters'[i] = waiters[i]
        /\ waiters'[Len(waiters) + 1] = r
    BY <2>1, AppendProperties
  <2>4. 1 .. Len(waiters') = (1 .. Len(waiters)) \cup {Len(waiters) + 1}
    BY <2>2
  <2>5. Waiting' = Waiting \cup {r}
    BY <2>2, <2>3, <2>4 DEF Waiting
  <2> QED BY <2>1, <2>5 DEF Asked
<1> QED BY <1>1, <1>2 DEF Acquire

\* Release removes the request and only that one.
LEMMA ReleaseAsked ==
  ASSUME SlotInv, NEW r, Release(r)
  PROVE  r \in Asked /\ Asked' = Asked \ {r}
<1>1. /\ waiters \in Seq(Requests) /\ DOMAIN waiters = 1 .. Len(waiters)
      /\ \A i \in 1 .. Len(waiters) : waiters[i] \notin running
  BY LenProperties DEF SlotInv, Queue
<1>2. r \in running
  BY DEF Release
<1>3. PICK k \in 0 .. Len(waiters) : NotifyWaiters(waiters, cur - r.n, running \ {r}, k)
  BY DEF Release
<1>4. Asked' = (running \ {r}) \cup {waiters[i] : i \in 1 .. Len(waiters)}
  <2> DEFINE H == running \ {r}
             c == cur - r.n
  <2>1. NotifyWaiters(waiters, c, H, k)
    BY <1>3
  <2> HIDE DEF H, c
  <2>2. Asked' = H \cup Members(waiters)
    BY <1>1, <2>1, NotifyMoves
  <2> QED BY <2>2 DEF H, Members
<1>5. Asked' = (running \ {r}) \cup Waiting
  BY <1>1, <1>4 DEF Waiting
<1>6. r \notin Waiting
  BY <1>1, <1>2 DEF Waiting
<1> QED BY <1>2, <1>5, <1>6 DEF Asked

\* So does a wait that is cancelled.
LEMMA CancelAsked ==
  ASSUME SlotInv, NEW r, CancelWait(r)
  PROVE  r \in Waiting /\ Asked' = Asked \ {r}
<1>1. /\ waiters \in Seq(Requests) /\ DOMAIN waiters = 1 .. Len(waiters) /\ Len(waiters) \in Nat
      /\ \A i \in 1 .. Len(waiters) : waiters[i] \notin running
      /\ \A i, k \in 1 .. Len(waiters) : waiters[i] = waiters[k] => i = k
  BY LenProperties DEF SlotInv, Queue
<1>2. PICK i \in 1 .. Len(waiters) :
        /\ waiters[i] = r
        /\ IF i = 1
             THEN \E k \in 0 .. Len(waiters) - 1 :
                    NotifyWaiters(Tail(waiters), cur, running, k)
             ELSE /\ waiters' = SubSeq(waiters, 1, i - 1)
                                  \o SubSeq(waiters, i + 1, Len(waiters))
                  /\ UNCHANGED <<cur, running>>
  BY <1>1 DEF CancelWait
<1>3. r \in Waiting /\ r \notin running
  BY <1>1, <1>2 DEF Waiting
<1>4. Waiting \ {r} = {waiters[m] : m \in (1 .. Len(waiters)) \ {i}}
  BY <1>1, <1>2 DEF Waiting
<1>5. CASE i = 1
  <2>1. waiters # << >>
    BY <1>1, EmptySeq
  <2>2. /\ Tail(waiters) \in Seq(Requests) /\ Len(Tail(waiters)) = Len(waiters) - 1
        /\ \A m \in 1 .. Len(waiters) - 1 : Tail(waiters)[m] = waiters[m + 1]
    BY <1>1, <2>1, HeadTailProperties
  <2>3. PICK k \in 0 .. Len(Tail(waiters)) : NotifyWaiters(Tail(waiters), cur, running, k)
    BY <1>2, <1>5, <2>2
  <2>4. Asked' = running \cup {Tail(waiters)[m] : m \in 1 .. Len(waiters) - 1}
    <3>1. Asked' = running \cup Members(Tail(waiters))
      BY <2>2, <2>3, NotifyMoves
    <3> QED BY <2>2, <3>1 DEF Members
  <2>5. {Tail(waiters)[m] : m \in 1 .. Len(waiters) - 1}
          = {waiters[m] : m \in (1 .. Len(waiters)) \ {1}}
    <3>1. \A m \in 1 .. Len(waiters) - 1 : m + 1 \in (1 .. Len(waiters)) \ {1}
      BY <1>1
    <3>2. \A m \in (1 .. Len(waiters)) \ {1} :
            m - 1 \in 1 .. Len(waiters) - 1 /\ Tail(waiters)[m - 1] = waiters[m]
      BY <1>1, <2>2
    <3> QED BY <2>2, <3>1, <3>2
  <2> QED BY <1>3, <1>4, <1>5, <2>4, <2>5 DEF Asked
<1>6. CASE i # 1
  <2>1. running' = running
    BY <1>2, <1>6
  <2>2. /\ waiters' \in Seq(Requests) /\ Len(waiters') = Len(waiters) - 1
        /\ \A m \in 1 .. Len(waiters) - 1 :
             waiters'[m] = IF m <= i - 1 THEN waiters[m] ELSE waiters[m + 1]
    <3>1. waiters' = SubSeq(waiters, 1, i - 1) \o SubSeq(waiters, i + 1, Len(waiters))
      BY <1>2, <1>6
    <3> QED BY <1>1, <3>1, WithoutOne
  <2>3. DOMAIN waiters' = 1 .. Len(waiters) - 1
    BY <2>2, LenProperties
  <2>4. ASSUME NEW x \in Waiting' PROVE x \in Waiting \ {r}
    <3>1. PICK m \in 1 .. Len(waiters) - 1 : x = waiters'[m]
      BY <2>3 DEF Waiting
    <3>2. CASE m <= i - 1
      <4>1. m \in (1 .. Len(waiters)) \ {i}
        BY <1>1, <3>2
      <4> QED BY <1>4, <2>2, <3>1, <3>2, <4>1
    <3>3. CASE ~(m <= i - 1)
      <4>1. m + 1 \in (1 .. Len(waiters)) \ {i}
        BY <1>1, <3>3
      <4> QED BY <1>4, <2>2, <3>1, <3>3, <4>1
    <3> QED BY <3>2, <3>3
  <2>5. ASSUME NEW m \in (1 .. Len(waiters)) \ {i} PROVE waiters[m] \in Waiting'
    <3>1. CASE m < i
      <4>1. m \in 1 .. Len(waiters) - 1 /\ m <= i - 1
        BY <1>1, <3>1
      <4> QED BY <2>2, <2>3, <4>1 DEF Waiting
    <3>2. CASE ~(m < i)
      <4>1. m - 1 \in 1 .. Len(waiters) - 1 /\ ~(m - 1 <= i - 1) /\ (m - 1) + 1 = m
        BY <1>1, <3>2
      <4>2. waiters'[m - 1] = waiters[m]
        BY <2>2, <4>1
      <4> QED BY <2>3, <4>1, <4>2 DEF Waiting
    <3> QED BY <3>1, <3>2
  <2>6. Waiting' = Waiting \ {r}
    BY <1>4, <2>4, <2>5
  <2> QED BY <1>3, <2>1, <2>6 DEF Asked
<1> QED BY <1>5, <1>6

\* SlotInv contains the properties.
LEMMA SlotInvImplies ==
  SlotInv => SlotTypeOK /\ RunsAlone /\ SlotsAccounted /\ FrontBlocked
BY DEF SlotInv, Holding, Queue, Alone, Accounts, Full, SlotTypeOK, RunsAlone,
       SlotsAccounted

\* The slot count stays within --jobs and every request is well formed.
THEOREM SlotTypeAlways == SlotSpec => []SlotTypeOK
BY SlotSpecInv, SlotInvImplies, PTL

\* A confirming re-run has the machine to itself, whatever --jobs is.
THEOREM RunsAloneAlways == SlotSpec => []RunsAlone
BY SlotSpecInv, SlotInvImplies, PTL

\* Slots neither leak nor are handed out twice.
THEOREM SlotsAccountedAlways == SlotSpec => []SlotsAccounted
BY SlotSpecInv, SlotInvImplies, PTL

\* The queue never stands still while its front request would fit.
THEOREM FrontBlockedAlways == SlotSpec => []FrontBlocked
BY SlotSpecInv, SlotInvImplies, PTL

-----------------------------------------------------------------------------
Distinct(ws) == \A i, m \in 1 .. Len(ws) : ws[i] = ws[m] => i = m

\* What notifyWaiters grants stood before everything it leaves in the queue.
LEMMA NotifyInOrder ==
  ASSUME NEW c, NEW H, NEW ws \in Seq(Requests), NEW k \in 0 .. Len(ws),
         NotifyWaiters(ws, c, H, k),
         Distinct(ws),
         NEW r \in running' \ H, NEW i \in 1 .. Len(ws), ws[i] \in Waiting'
  PROVE  \E m \in 1 .. i - 1 : ws[m] = r
<1>1. Len(ws) \in Nat /\ k \in Nat /\ k <= Len(ws)
  BY LenProperties
<1>2. PICK m \in 1 .. k : r = ws[m]
  BY DEF NotifyWaiters
<1>3. /\ waiters' \in Seq(Requests)
      /\ Len(waiters') = Len(ws) - k
      /\ \A q \in 1 .. Len(ws) - k : waiters'[q] = ws[k + q]
  BY NotifyLeaves
<1>4. DOMAIN waiters' = 1 .. Len(ws) - k
  BY <1>3, LenProperties
<1>5. PICK q \in 1 .. Len(ws) - k : ws[i] = waiters'[q]
  BY <1>4 DEF Waiting
<1>6. k + q \in 1 .. Len(ws) /\ ws[i] = ws[k + q]
  BY <1>1, <1>3, <1>5
<1>7. i = k + q
  BY <1>6 DEF Distinct
<1>8. m \in 1 .. i - 1
  BY <1>1, <1>7
<1> QED BY <1>2, <1>8

\* The semaphore grants its slots in the order of the Acquire calls: a request
\* granted while others wait was queued before every one of them, whether a
\* release or a cancelled wait made room.
THEOREM NoOvertakingAlways == SlotSpec => NoOvertaking
<1> DEFINE InOrder ==
      \A r \in running' \ running : \A i \in DOMAIN waiters :
        waiters[i] \in Waiting' => \E k \in 1 .. i - 1 : waiters[k] = r
<1>1. SlotInv /\ [SlotNext]_slotVars => [InOrder]_slotVars
  <2> SUFFICES ASSUME SlotInv, SlotNext,
                      NEW r \in running' \ running, NEW i \in DOMAIN waiters,
                      waiters[i] \in Waiting'
               PROVE  \E k \in 1 .. i - 1 : waiters[k] = r
    BY DEF InOrder
  <2>1. /\ waiters \in Seq(Requests) /\ DOMAIN waiters = 1 .. Len(waiters) /\ Len(waiters) \in Nat
        /\ \A m, k \in 1 .. Len(waiters) : waiters[m] = waiters[k] => m = k
    BY LenProperties DEF SlotInv, Queue
  <2>d. Distinct(waiters)
    BY <2>1 DEF Distinct
  <2>2. waiters # << >>
    BY <2>1, EmptySeq
  <2>3. PICK q \in Requests : Acquire(q) \/ Release(q) \/ CancelWait(q)
    BY DEF SlotNext
  <2>4. CASE Acquire(q)
    BY <2>2, <2>4 DEF Acquire, AcquireNow, AcquireLater
  <2>5. CASE Release(q)
    <3> DEFINE H == running \ {q}
               c == cur - q.n
    <3>1. PICK k \in 0 .. Len(waiters) : NotifyWaiters(waiters, c, H, k)
      BY <2>5 DEF Release
    <3>2. r \in running' \ H
      OBVIOUS
    <3> HIDE DEF H, c
    <3>3. i \in 1 .. Len(waiters) /\ waiters \in Seq(Requests)
      BY <2>1
    <3> QED BY <2>d, <3>1, <3>2, <3>3, NotifyInOrder
  <2>6. CASE CancelWait(q)
    <3>1. PICK p \in 1 .. Len(waiters) :
            IF p = 1
              THEN \E k \in 0 .. Len(waiters) - 1 :
                     NotifyWaiters(Tail(waiters), cur, running, k)
              ELSE running' = running
      BY <2>1, <2>6 DEF CancelWait
    <3>2. PICK k \in 0 .. Len(waiters) - 1 : NotifyWaiters(Tail(waiters), cur, running, k)
      BY <3>1
    <3> DEFINE ws == Tail(waiters)
    <3>3. /\ ws \in Seq(Requests) /\ Len(ws) = Len(waiters) - 1
          /\ \A m \in 1 .. Len(waiters) - 1 : ws[m] = waiters[m + 1]
      BY <2>1, <2>2, HeadTailProperties
    <3>4. k \in 0 .. Len(ws) /\ NotifyWaiters(ws, cur, running, k)
      BY <3>2, <3>3
    <3> HIDE DEF ws
    <3>5. Distinct(ws)
      <4> SUFFICES ASSUME NEW m \in 1 .. Len(ws), NEW p1 \in 1 .. Len(ws), ws[m] = ws[p1]
                   PROVE  m = p1
        BY DEF Distinct
      <4>1. m + 1 \in 1 .. Len(waiters) /\ p1 + 1 \in 1 .. Len(waiters)
        BY <2>1, <3>3
      <4>2. waiters[m + 1] = waiters[p1 + 1]
        BY <3>3
      <4>3. m + 1 = p1 + 1
        BY <2>1, <4>1, <4>2
      <4> QED BY <2>1, <3>3, <4>3
    <3>6. PICK m \in 1 .. k : r = ws[m]
      BY <3>4 DEF NotifyWaiters
    <3>7. m + 1 \in 1 .. Len(waiters) /\ waiters[m + 1] = r
      BY <2>1, <3>3, <3>6
    <3>8. i # 1
      <4>1. ASSUME i = 1 PROVE FALSE
        <5>1. /\ waiters' \in Seq(Requests) /\ Len(waiters') = Len(ws) - k
              /\ \A p1 \in 1 .. Len(ws) - k : waiters'[p1] = ws[k + p1]
          BY <3>3, <3>4, NotifyLeaves
        <5>2. DOMAIN waiters' = 1 .. Len(ws) - k
          BY <5>1, LenProperties
        <5>3. PICK p1 \in 1 .. Len(ws) - k : waiters[1] = ws[k + p1]
          BY <4>1, <5>1, <5>2 DEF Waiting
        <5>4. k + p1 \in 1 .. Len(waiters) - 1 /\ (k + p1) + 1 \in 1 .. Len(waiters)
              /\ (k + p1) + 1 # 1 /\ 1 \in 1 .. Len(waiters)
          BY <2>1, <3>3
        <5>5. waiters[1] = waiters[(k + p1) + 1]
          BY <3>3, <5>3, <5>4
        <5> QED BY <2>1, <5>4, <5>5
      <4> QED BY <4>1
    <3>9. i - 1 \in 1 .. Len(ws) /\ ws[i - 1] = waiters[i]
      BY <2>1, <3>3, <3>8
    <3>10. PICK p2 \in 1 .. (i - 1) - 1 : ws[p2] = r
      <4> DEFINE i1 == i - 1
      <4>1. i1 \in 1 .. Len(ws) /\ ws[i1] \in Waiting'
        BY <3>9
      <4> HIDE DEF i1
      <4>2. ws \in Seq(Requests)
        BY <3>3
      <4>3. \E p2 \in 1 .. i1 - 1 : ws[p2] = r
        BY <3>4, <3>5, <4>1, <4>2, NotifyInOrder
      <4> QED BY <4>3 DEF i1
    <3>11. p2 + 1 \in 1 .. i - 1 /\ p2 \in 1 .. Len(waiters) - 1
      BY <2>1, <3>3, <3>9, <3>10
    <3> QED BY <3>3, <3>10, <3>11
  <2> QED BY <2>3, <2>4, <2>5, <2>6
<1> QED BY <1>1, SlotSpecInv, PTL DEF SlotSpec, NoOvertaking, InOrder
=============================================================================
