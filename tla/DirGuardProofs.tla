--------------------------- MODULE DirGuardProofs ---------------------------
(***************************************************************************)
(* Proofs about DirGuard, for every directory tree: Restore keeps the tree *)
(* a tree, never moves what was there before the tests ran, loses nothing  *)
(* and reports every difference it leaves.                                 *)
(***************************************************************************)
EXTENDS DirGuard, Integers, FiniteSetTheorems, WellFoundedInduction, TLAPS

\* The inductive invariant: only paths that the snapshot lacks are to be moved,
\* and nothing is moved before there is a snapshot.
GuardInv ==
  /\ TypeOK
  /\ \A p \in todo : snap[p] = None
  /\ pc = "start" => quarantine = Nothing /\ todo = {}
  /\ PreexistingStay

\* What lies below a path the snapshot lacks is not in the snapshot either.
LEMMA BelowNew ==
  ASSUME NEW t \in Trees, NEW p \in Paths, t[p] = None, NEW q \in Subtree(p)
  PROVE  t[q] = None
<1>1. CASE q = p
  BY <1>1
<1>2. CASE q \in Paths /\ p \in Above[q]
  BY <1>2, DirGuardAssumption DEF Trees
<1> QED BY <1>1, <1>2 DEF Subtree

\* An empty directory is a tree.
LEMMA NothingIsTree == Nothing \in Trees
BY DEF Trees, Nothing, Nodes

\* Removing a path with all below it leaves a tree.
LEMMA RemovalKeepsTree ==
  ASSUME NEW t \in Trees, NEW p \in Paths
  PROVE  [q \in Paths |-> IF q \in Subtree(p) THEN None ELSE t[q]] \in Trees
<1> DEFINE u == [q \in Paths |-> IF q \in Subtree(p) THEN None ELSE t[q]]
<1>1. u \in [Paths -> Nodes]
  BY DEF Trees, Nodes
<1>2. ASSUME NEW q \in Paths, u[q] # None, NEW a \in Above[q] PROVE u[a] = Dir
  <2>1. q \notin Subtree(p) /\ t[q] # None
    BY <1>2
  <2>2. a \in Paths /\ t[a] = Dir
    BY <1>2, <2>1, DirGuardAssumption DEF Trees
  <2>3. a \notin Subtree(p)
    BY <1>2, <2>1, <2>2, DirGuardAssumption DEF Subtree
  <2> QED BY <2>2, <2>3
<1> QED BY <1>1, <1>2 DEF Trees

\* A change to a path below directories only leaves a tree.
LEMMA ChangeKeepsTree ==
  ASSUME NEW t \in Trees, NEW p \in Paths, NEW n \in Nodes, \A a \in Above[p] : t[a] = Dir
  PROVE  [q \in Paths |-> IF q = p THEN n ELSE IF p \in Above[q] THEN None ELSE t[q]] \in Trees
<1> DEFINE u == [q \in Paths |-> IF q = p THEN n ELSE IF p \in Above[q] THEN None ELSE t[q]]
<1>1. u \in [Paths -> Nodes]
  BY DEF Trees, Nodes
<1>2. ASSUME NEW q \in Paths, u[q] # None, NEW a \in Above[q] PROVE u[a] = Dir
  <2>1. a \in Paths
    BY <1>2, DirGuardAssumption
  <2>2. CASE q = p
    <3>1. a # p /\ p \notin Above[a]
      BY <1>2, <2>1, <2>2, DirGuardAssumption
    <3> QED BY <1>2, <2>1, <2>2, <3>1
  <2>3. CASE q # p
    <3>1. p \notin Above[q] /\ t[q] # None
      BY <1>2, <2>3
    <3>2. t[a] = Dir
      BY <1>2, <3>1 DEF Trees
    <3>3. a # p /\ p \notin Above[a]
      BY <1>2, <2>1, <3>1, DirGuardAssumption
    <3> QED BY <2>1, <3>2, <3>3
  <2> QED BY <2>2, <2>3
<1> QED BY <1>1, <1>2 DEF Trees

\* The invariant holds before the snapshot is taken.
LEMMA GuardInitInv == Init => GuardInv
<1> SUFFICES ASSUME Init PROVE GuardInv
  OBVIOUS
<1>1. TypeOK
  BY NothingIsTree DEF Init, TypeOK, Trees
<1>2. PreexistingStay
  BY DEF Init, PreexistingStay, Nothing
<1> QED BY <1>1, <1>2 DEF Init, GuardInv

\* Every step keeps the invariant.
LEMMA GuardStepInv == GuardInv /\ [Next]_vars => GuardInv'
<1> SUFFICES ASSUME GuardInv, [Next]_vars PROVE GuardInv'
  OBVIOUS
<1> USE DEF GuardInv, PreexistingStay
<1>1. CASE Snapshot
  <2>1. TypeOK'
    BY <1>1 DEF Snapshot, TypeOK
  <2>2. /\ \A p \in Paths : quarantine'[p] = None
        /\ todo' = {}
    BY <1>1 DEF Snapshot, Nothing
  <2> QED BY <1>1, <2>1, <2>2 DEF Snapshot
<1>2. CASE List
  <2>1. TypeOK'
    BY <1>2 DEF List, TypeOK, Created, ChangedPaths
  <2>2. \A p \in todo' : snap'[p] = None
    BY <1>2 DEF List, Created
  <2> QED BY <1>2, <2>1, <2>2 DEF List, TypeOK
<1>3. ASSUME NEW p \in Paths, Move(p) PROVE GuardInv'
  <2>1. snap[p] = None /\ UNCHANGED <<pc, snap>> /\ todo' \subseteq todo /\ pc = "restore"
    BY <1>3 DEF Move
  <2>2. CASE /\ quarantine' = [q \in Paths |-> IF q \in Subtree(p) THEN disk[q] ELSE quarantine[q]]
             /\ disk' = [q \in Paths |-> IF q \in Subtree(p) THEN None ELSE disk[q]]
             /\ UNCHANGED unmoved
    <3>1. disk' \in Trees
      BY <2>2, RemovalKeepsTree DEF TypeOK
    <3>2. quarantine' \in [Paths -> Nodes]
      BY <2>2 DEF TypeOK, Trees
    <3>3. TypeOK'
      BY <1>3, <2>2, <3>1, <3>2 DEF Move, TypeOK
    <3>4. \A q \in Subtree(p) : snap[q] = None
      BY <2>1, BelowNew DEF TypeOK
    <3> QED BY <2>1, <2>2, <3>3, <3>4
  <2>3. CASE UNCHANGED <<quarantine, disk>>
    <3>1. TypeOK'
      BY <1>3, <2>3 DEF Move, TypeOK
    <3> QED BY <2>1, <2>3, <3>1
  <2> QED BY <1>3, <2>2, <2>3 DEF Move
<1>4. ASSUME NEW p \in Paths, NEW n \in Nodes, Change(p, n) PROVE GuardInv'
  <2>1. disk' \in Trees
    BY <1>4, ChangeKeepsTree DEF Change, TypeOK
  <2>2. TypeOK'
    BY <1>4, <2>1 DEF Change, TypeOK
  <2> QED BY <1>4, <2>2 DEF Change
<1>5. CASE Return
  <2>1. TypeOK'
    BY <1>5 DEF Return, TypeOK
  <2> QED BY <1>5, <2>1 DEF Return
<1>6. CASE UNCHANGED vars
  <2>1. TypeOK'
    BY <1>6 DEF vars, TypeOK
  <2> QED BY <1>6, <2>1 DEF vars
<1> QED BY <1>1, <1>2, <1>3, <1>4, <1>5, <1>6 DEF Next

\* Tests and Restore leave a well-formed tree: no file without its directory.
THEOREM GuardTypeAlways == Spec => []TypeOK
<1>1. GuardInv => TypeOK
  BY DEF GuardInv
<1> QED BY <1>1, GuardInitInv, GuardStepInv, PTL DEF Spec

\* What was there before the tests ran is never moved.
THEOREM PreexistingStayAlways == Spec => []PreexistingStay
<1>1. GuardInv => PreexistingStay
  BY DEF GuardInv
<1> QED BY <1>1, GuardInitInv, GuardStepInv, PTL DEF Spec

-----------------------------------------------------------------------------
(* What Restore does as long as nobody else changes files.                 *)

\* A path the tests created.
New(p) == now[p] # None /\ snap[p] = None

\* Of the created paths, those that were moved are in the quarantine with all
\* that lies below them, and the others are still in place.
MovedOrInPlace ==
  \A c \in Created(snap, now) : \A q \in Subtree(c) :
    IF c \in todo \cup unmoved
      THEN disk[q] = now[q]
      ELSE disk[q] = None /\ quarantine[q] = now[q]

Undisturbed ==
  /\ changed = ChangedPaths(snap, now)
  /\ todo \cup unmoved \subseteq Created(snap, now)
  /\ todo \cap unmoved = {}
  /\ \A p \in Paths : ~New(p) => disk[p] = now[p]
  /\ MovedOrInPlace

\* The inductive invariant of an undisturbed Restore.
RestoreInv ==
  /\ pc \in {"start", "tests"} => unmoved = {}
  /\ pc \in {"restore", "done"} /\ ~disturbed => Undisturbed

\* Without a change of kind, a directory of the snapshot is a directory or gone.
KindsKept ==
  /\ pc = "start" => now = Nothing
  /\ \A p \in Paths : snap[p] = Dir => disk[p] \in {Dir, None} /\ now[p] \in {Dir, None}

\* A non-empty set of natural numbers has a least element.
LEMMA LeastNatural ==
  ASSUME NEW S \in SUBSET Nat, S # {}
  PROVE  \E n \in S : \A m \in S : n <= m
<1> DEFINE R == OpToRel(<, Nat)
<1>1. IsWellFoundedOn(R, Nat)
  BY NatLessThanWellFounded
<1>2. \A m, n \in Nat : m < n => <<m, n>> \in R
  BY DEF OpToRel
<1> HIDE DEF R
<1>3. PICK n \in S : \A m \in S : ~(<<m, n>> \in R)
  BY <1>1, WFMin
<1>4. \A m \in S : ~(m < n)
  BY <1>2, <1>3
<1> QED BY <1>4

\* Among paths, some path has none of the others above it.
LEMMA Topmost ==
  ASSUME NEW T \in SUBSET Paths, T # {}
  PROVE  \E c \in T : Above[c] \cap T = {}
<1> DEFINE Depth(a) == Cardinality(Above[a])
           Depths == {Depth(a) : a \in T}
<1>1. ASSUME NEW a \in Paths PROVE IsFiniteSet(Above[a]) /\ Depth(a) \in Nat
  <2>1. IsFiniteSet(Above[a])
    BY DirGuardAssumption
  <2> QED BY <2>1, FS_CardinalityType
<1>2. Depths \in SUBSET Nat /\ Depths # {}
  BY <1>1
<1>3. PICK n \in Depths : \A m \in Depths : n <= m
  <2> HIDE DEF Depths
  <2> QED BY <1>2, LeastNatural
<1>4. PICK c \in T : Depth(c) = n
  BY <1>3
<1>5. ASSUME NEW b \in Above[c], b \in T PROVE FALSE
  <2>1. Above[b] \subseteq Above[c] /\ b \notin Above[b]
    BY <1>5, DirGuardAssumption
  <2>2. Depth(b) \in Nat /\ Depth(c) \in Nat /\ IsFiniteSet(Above[c])
    BY <1>1, <1>5
  <2>3. Depth(b) <= Depth(c) /\ (Depth(c) = Depth(b) => Above[c] = Above[b])
    BY <2>1, <2>2, FS_Subset
  <2>4. Depth(c) <= Depth(b)
    BY <1>3, <1>4, <1>5
  <2>5. Depth(c) = Depth(b)
    BY <2>2, <2>3, <2>4
  <2> QED BY <1>5, <2>1, <2>3, <2>5
<1> QED BY <1>5

\* Every created path lies below, or is, one that Restore moves: the topmost
\* created directory above it.
LEMMA TopmostCreated ==
  ASSUME NEW before \in Trees, NEW after \in Trees, NEW p \in Paths,
         after[p] # None, before[p] = None
  PROVE  \E c \in Created(before, after) : p \in Subtree(c)
<1> DEFINE T == {a \in {p} \cup Above[p] : before[a] = None}
<1>1. ASSUME NEW a \in {p} \cup Above[p]
      PROVE  a \in Paths /\ after[a] # None /\ Above[a] \subseteq Above[p]
  BY DirGuardAssumption DEF Trees
<1>2. T \in SUBSET Paths /\ p \in T
  BY <1>1
<1>3. PICK c \in T : Above[c] \cap T = {}
  <2> HIDE DEF T
  <2> QED BY <1>2, Topmost
<1>4. ASSUME NEW a \in Paths, IsParent(a, c) PROVE before[a] # None
  BY <1>1, <1>3, <1>4 DEF IsParent
<1>5. c \in Created(before, after)
  BY <1>1, <1>3, <1>4 DEF Created
<1>6. p \in Subtree(c)
  BY <1>3 DEF Subtree
<1> QED BY <1>5, <1>6

\* The directories above a path lie below each other.
LEMMA AboveIsChain ==
  ASSUME NEW q \in Paths, NEW c \in Above[q], NEW d \in Above[q], c # d
  PROVE  c \in Above[d] \/ d \in Above[c]
<1> DEFINE T == {x \in Paths : c \in Above[x] /\ d \in Above[x]}
<1>1. T \in SUBSET Paths /\ q \in T
  OBVIOUS
<1>2. PICK x \in T : Above[x] \cap T = {}
  <2> HIDE DEF T
  <2> QED BY <1>1, Topmost
<1>3. PICK a \in Paths : IsParent(a, x)
  BY <1>2, DirGuardAssumption
<1> QED BY <1>2, <1>3 DEF IsParent

\* No path that Restore moves lies below another one.
LEMMA CreatedApart ==
  ASSUME NEW before \in Trees, NEW after \in Trees,
         NEW c \in Created(before, after), NEW d \in Created(before, after), c # d
  PROVE  Subtree(c) \cap Subtree(d) = {}
<1>1. ASSUME NEW x \in Created(before, after), NEW y \in Created(before, after), x \in Above[y]
      PROVE  FALSE
  <2>1. x \in Paths /\ y \in Paths /\ before[x] = None /\ after[y] # None
    BY DEF Created
  <2>2. PICK a \in Paths : IsParent(a, y)
    BY <1>1, <2>1, DirGuardAssumption
  <2>3. a \in Above[y] /\ a \in Subtree(x)
    BY <1>1, <2>2 DEF IsParent, Subtree
  <2>4. before[a] = None /\ after[a] # None
    BY <2>1, <2>3, BelowNew, DirGuardAssumption DEF Trees
  <2> QED BY <2>1, <2>2, <2>4 DEF Created
<1>2. ASSUME NEW q \in Subtree(c), q \in Subtree(d) PROVE FALSE
  <2>1. c \notin Above[d] /\ d \notin Above[c]
    BY <1>1
  <2>2. q \in Paths /\ c \in Above[q] /\ d \in Above[q]
    BY <1>2, <2>1 DEF Subtree, Created
  <2> QED BY <2>1, <2>2, AboveIsChain
<1> QED BY <1>2

\* The invariant of Restore holds at first.
LEMMA RestoreInitInv == Init => RestoreInv /\ KindsKept
<1> SUFFICES ASSUME Init PROVE RestoreInv /\ KindsKept
  OBVIOUS
<1>1. RestoreInv
  BY DEF Init, RestoreInv
<1>2. \A p \in Paths : snap[p] # Dir
  BY DirGuardAssumption DEF Init, Nothing
<1> QED BY <1>1, <1>2 DEF Init, KindsKept

\* Moving one of the created paths, or failing to, keeps the invariant.
LEMMA MoveKeeps ==
  ASSUME TypeOK, ~disturbed, Undisturbed, NEW p \in Paths, Move(p)
  PROVE  Undisturbed'
<1>1. /\ UNCHANGED <<snap, now, changed>> /\ todo' = todo \ {p} /\ p \in todo
      /\ snap \in Trees /\ now \in Trees
  BY DEF Move, TypeOK
<1>2. p \in Created(snap, now) /\ p \in Subtree(p)
  BY <1>1 DEF Undisturbed, Subtree
<1>3. disk[p] # None
  BY <1>1, <1>2 DEF Undisturbed, MovedOrInPlace, Created
<1>4. CASE unmoved' = unmoved \cup {p} /\ UNCHANGED <<quarantine, disk>>
  <2>1. todo' \cup unmoved' = todo \cup unmoved /\ todo' \cap unmoved' = {}
    BY <1>1, <1>4 DEF Undisturbed
  <2>2. MovedOrInPlace'
    BY <1>1, <1>4, <2>1 DEF Undisturbed, MovedOrInPlace
  <2> QED BY <1>1, <1>4, <2>1, <2>2 DEF Undisturbed, New
<1>5. CASE /\ quarantine' = [q \in Paths |-> IF q \in Subtree(p) THEN disk[q] ELSE quarantine[q]]
           /\ disk' = [q \in Paths |-> IF q \in Subtree(p) THEN None ELSE disk[q]]
           /\ unmoved' = unmoved
  <2>1. todo' \cup unmoved' = (todo \cup unmoved) \ {p} /\ todo' \cap unmoved' = {}
    BY <1>1, <1>5 DEF Undisturbed
  <2>2. ASSUME NEW q \in Paths, ~New(q) PROVE disk'[q] = now[q]
    <3>1. disk[q] = now[q]
      BY <2>2 DEF Undisturbed
    <3>2. q \in Subtree(p) => now[q] = None
      BY <1>1, <1>2, <2>2, BelowNew DEF New, Created
    <3> QED BY <1>5, <3>1, <3>2
  <2>3. ASSUME NEW c \in Created(snap, now), NEW q \in Subtree(c)
        PROVE  IF c \in (todo \cup unmoved) \ {p}
                 THEN disk'[q] = now[q]
                 ELSE disk'[q] = None /\ quarantine'[q] = now[q]
    <3>1. q \in Paths /\ IF c \in todo \cup unmoved
                           THEN disk[q] = now[q]
                           ELSE disk[q] = None /\ quarantine[q] = now[q]
      BY DEF Undisturbed, MovedOrInPlace, Subtree, Created
    <3>2. CASE c = p
      BY <1>1, <1>5, <3>1, <3>2
    <3>3. CASE c # p
      <4>1. q \notin Subtree(p)
        BY <1>1, <1>2, <3>3, CreatedApart
      <4> QED BY <1>5, <3>1, <3>3, <4>1
    <3> QED BY <3>2, <3>3
  <2>4. MovedOrInPlace'
    BY <1>1, <2>1, <2>3 DEF MovedOrInPlace
  <2> QED BY <1>1, <2>1, <2>2, <2>4 DEF Undisturbed, New
<1> QED BY <1>3, <1>4, <1>5 DEF Move

\* Every step keeps the invariant of Restore.
LEMMA RestoreStepInv == GuardInv /\ RestoreInv /\ [Next]_vars => RestoreInv'
<1> SUFFICES ASSUME GuardInv, RestoreInv, [Next]_vars PROVE RestoreInv'
  OBVIOUS
<1>1. CASE Snapshot
  BY <1>1 DEF Snapshot, RestoreInv
<1>2. CASE List
  <2>1. CASE pc' = "failed"
    BY <2>1 DEF RestoreInv
  <2>2. CASE pc' # "failed"
    <3>1. /\ now' = disk /\ todo' = Created(snap, disk) /\ changed' = ChangedPaths(snap, disk)
          /\ pc' = "restore" /\ UNCHANGED <<disk, snap, unmoved>> /\ unmoved = {}
      BY <1>2, <2>2 DEF List, RestoreInv
    <3>2. MovedOrInPlace'
      BY <3>1 DEF MovedOrInPlace
    <3>3. Undisturbed'
      BY <3>1, <3>2 DEF Undisturbed
    <3> QED BY <3>1, <3>3 DEF RestoreInv
  <2> QED BY <2>1, <2>2
<1>3. ASSUME NEW p \in Paths, Move(p) PROVE RestoreInv'
  <2>1. pc = "restore" /\ pc' = "restore" /\ disturbed' = disturbed
    BY <1>3 DEF Move
  <2>2. ~disturbed => Undisturbed'
    BY <1>3, <2>1, MoveKeeps DEF RestoreInv, GuardInv
  <2> QED BY <2>1, <2>2 DEF RestoreInv
<1>4. ASSUME NEW p \in Paths, NEW n \in Nodes, Change(p, n) PROVE RestoreInv'
  BY <1>4 DEF Change, RestoreInv
<1>5. CASE Return \/ UNCHANGED vars
  <2>1. /\ UNCHANGED <<disk, snap, now, todo, quarantine, unmoved, changed, disturbed>>
        /\ pc' = pc \/ (pc = "restore" /\ pc' = "done")
    BY <1>5 DEF Return, vars
  <2>2. Undisturbed => Undisturbed'
    BY <2>1 DEF Undisturbed, MovedOrInPlace, New
  <2> QED BY <2>1, <2>2 DEF RestoreInv
<1> QED BY <1>1, <1>2, <1>3, <1>4, <1>5 DEF Next

\* As long as tests leave no file where a directory was, directories stay
\* directories.
LEMMA KindsStepInv == ~KindFlips /\ GuardInv /\ KindsKept /\ [Next]_vars => KindsKept'
<1> SUFFICES ASSUME ~KindFlips, GuardInv, KindsKept, [Next]_vars PROVE KindsKept'
  OBVIOUS
<1>0. disk \in [Paths -> Nodes] /\ now \in [Paths -> Nodes]
  BY DEF GuardInv, TypeOK, Trees
<1>1. CASE Snapshot
  BY <1>1 DEF Snapshot, KindsKept, Nothing
<1>2. CASE List
  BY <1>0, <1>2 DEF List, KindsKept
<1>3. ASSUME NEW p \in Paths, Move(p) PROVE KindsKept'
  BY <1>0, <1>3 DEF Move, KindsKept
<1>4. ASSUME NEW p \in Paths, NEW n \in Nodes, Change(p, n) PROVE KindsKept'
  BY <1>0, <1>4 DEF Change, KindsKept, Nodes
<1>5. CASE Return \/ UNCHANGED vars
  BY <1>5 DEF Return, vars, KindsKept
<1> QED BY <1>1, <1>2, <1>3, <1>4, <1>5 DEF Next

\* Nothing the tests created is lost: it is in the quarantine or in place.
THEOREM NothingLostAlways == Spec => []NothingLost
<1>1. GuardInv /\ RestoreInv => NothingLost
  <2> SUFFICES ASSUME GuardInv, Undisturbed, NEW p \in Paths, now[p] # None, snap[p] = None
               PROVE  quarantine[p] = now[p] \/ disk[p] = now[p]
    BY DEF NothingLost, RestoreInv
  <2>1. PICK c \in Created(snap, now) : p \in Subtree(c)
    BY TopmostCreated DEF GuardInv, TypeOK
  <2> QED BY <2>1 DEF Undisturbed, MovedOrInPlace
<1> QED BY <1>1, GuardInitInv, GuardStepInv, RestoreInitInv, RestoreStepInv, PTL DEF Spec

\* What differs from the snapshot when Restore returns is reported, as long as
\* tests leave no file where a directory was.
THEOREM DifferencesReportedAlways == ASSUME ~KindFlips PROVE Spec => []DifferencesReported
<1>1. GuardInv /\ RestoreInv /\ KindsKept /\ (pc = "done" => todo = {}) => DifferencesReported
  <2> SUFFICES ASSUME GuardInv, Undisturbed, KindsKept, todo = {},
                      NEW p \in Paths, disk[p] # snap[p]
               PROVE  p \in changed \/ p \in unmoved \/ Above[p] \cap unmoved # {}
    BY DEF DifferencesReported, RestoreInv
  <2>1. CASE New(p)
    <3>1. PICK c \in Created(snap, now) : p \in Subtree(c)
      BY <2>1, TopmostCreated DEF GuardInv, TypeOK, New
    <3>2. c \in unmoved
      BY <2>1, <3>1 DEF Undisturbed, MovedOrInPlace, New
    <3> QED BY <3>1, <3>2 DEF Subtree
  <2>2. CASE ~New(p)
    <3>1. disk[p] = now[p] /\ snap[p] # None
      BY <2>2 DEF Undisturbed, New
    <3>2. snap[p] = Dir => now[p] = None
      BY <3>1 DEF KindsKept
    <3>3. p \in ChangedPaths(snap, now)
      BY <3>1, <3>2 DEF ChangedPaths
    <3> QED BY <3>3 DEF Undisturbed
  <2> QED BY <2>1, <2>2
<1>2. Init => (pc = "done" => todo = {})
  BY DEF Init
<1>3. (pc = "done" => todo = {}) /\ [Next]_vars => (pc = "done" => todo = {})'
  BY DEF Next, vars, Snapshot, List, Move, Change, Return
<1> QED BY <1>1, <1>2, <1>3, GuardInitInv, GuardStepInv, RestoreInitInv, RestoreStepInv,
           KindsStepInv, PTL DEF Spec
=============================================================================
