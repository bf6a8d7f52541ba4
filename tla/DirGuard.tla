------------------------------ MODULE DirGuard ------------------------------
(***************************************************************************)
(* guardDir of cmd/kanly/main.go and DirSnapshot of                        *)
(* internal/runner/fsguard.go: what is in a package directory is recorded  *)
(* before its tests run there, and what appeared is moved to a quarantine  *)
(* directory afterwards.                                                   *)
(*                                                                         *)
(* Paths are the ones guardedPaths can list: those directly in the         *)
(* directory and those below its testdata.  A file is its stamp, the size  *)
(* and modification time that guardedPaths reads.                          *)
(***************************************************************************)
EXTENDS FiniteSets

CONSTANTS
  Paths,       \* guarded paths
  Above,       \* Above[p]: the guarded directories p lies below
  Stamps,      \* sizes and modification times
  None, Dir,   \* what else a path can be: absent, a directory
  KindFlips    \* tests may leave a file where a directory was

Nodes == Stamps \cup {None, Dir}
Trees == {t \in [Paths -> Nodes] :
            \A p \in Paths : t[p] # None => \A a \in Above[p] : t[a] = Dir}

IsParent(a, p) == Above[p] = Above[a] \cup {a}

\* A path that does not lie in the package directory itself lies in a guarded
\* one: WalkDir lists a directory before what is in it.
ASSUME DirGuardAssumption ==
  /\ None \notin Stamps /\ Dir \notin Stamps /\ None # Dir
  /\ Above \in [Paths -> SUBSET Paths]
  /\ \A p \in Paths : p \notin Above[p] /\ \A a \in Above[p] : Above[a] \subseteq Above[p]
  /\ \A p \in Paths : IsFiniteSet(Above[p]) /\ (Above[p] # {} => \E a \in Paths : IsParent(a, p))
  /\ KindFlips \in BOOLEAN

VARIABLES
  pc,
  disk,        \* what is there
  snap,        \* DirSnapshot.files
  now,         \* the listing Restore starts with
  todo,        \* created paths Restore has yet to move
  quarantine,  \* what it moved, at its path below the quarantine directory
  unmoved,     \* Restored.Unmoved
  changed,     \* Restored.Changed
  disturbed    \* history: files changed after the listing

vars == <<pc, disk, snap, now, todo, quarantine, unmoved, changed, disturbed>>

Nothing == [p \in Paths |-> None]
Subtree(p) == {p} \cup {q \in Paths : p \in Above[q]}

TypeOK ==
  /\ pc \in {"start", "tests", "restore", "done", "unguarded", "failed"}
  /\ disk \in Trees
  /\ snap \in Trees
  /\ now \in Trees
  /\ todo \subseteq Paths
  /\ quarantine \in [Paths -> Nodes]
  /\ unmoved \subseteq Paths
  /\ changed \subseteq Paths
  /\ disturbed \in BOOLEAN

Init ==
  /\ pc = "start"
  /\ disk \in Trees
  /\ snap = Nothing
  /\ now = Nothing
  /\ todo = {}
  /\ quarantine = Nothing
  /\ unmoved = {}
  /\ changed = {}
  /\ disturbed = FALSE

-----------------------------------------------------------------------------
\* SnapshotDir; when it fails, guardDir guards nothing.
Snapshot ==
  /\ pc = "start"
  /\ \/ snap' = disk /\ pc' = "tests"
     \/ UNCHANGED snap /\ pc' = "unguarded"
  /\ UNCHANGED <<disk, now, todo, quarantine, unmoved, changed, disturbed>>

\* Tests, or a developer, create, rewrite, replace or delete something; the
\* developer also while Restore works.
Change(p, n) ==
  /\ pc \in {"tests", "unguarded", "restore"}
  /\ n # disk[p]
  /\ \A a \in Above[p] : disk[a] = Dir
  /\ snap[p] = Dir /\ n \in Stamps => KindFlips
  /\ disk' = [q \in Paths |-> IF q = p THEN n
                              ELSE IF p \in Above[q] THEN None ELSE disk[q]]
  /\ disturbed' = (disturbed \/ pc = "restore")
  /\ UNCHANGED <<pc, snap, now, todo, quarantine, unmoved, changed>>

\* Mutant: files the tests rewrote are moved as well.
CreatedOrRewritten(before, after) ==
  {p \in Paths :
     /\ after[p] \notin {None, before[p]}
     /\ ~\E a \in Paths : IsParent(a, p) /\ after[a] # None /\ before[a] = None}

\* What the listing shows and the snapshot does not, unless it moves with a
\* parent that is new too.
Created(before, after) ==
  {p \in Paths :
     /\ after[p] # None /\ before[p] = None
     /\ ~\E a \in Paths : IsParent(a, p) /\ after[a] # None /\ before[a] = None}

\* Mutant: deleted files are not noticed.
ChangedPathsListed(before, after) ==
  {p \in Paths : before[p] \notin {None, Dir} /\ after[p] \notin {None, before[p]}}

ChangedPaths(before, after) ==
  {p \in Paths :
     /\ before[p] # None
     /\ after[p] = None \/ (before[p] # Dir /\ after[p] # before[p])}

\* Restore lists the directory again, or fails and only says so.  What changed
\* is judged by this listing.
List ==
  /\ pc = "tests"
  /\ \/ /\ now' = disk
        /\ todo' = Created(snap, disk)
        /\ changed' = ChangedPaths(snap, disk)
        /\ pc' = "restore"
     \/ pc' = "failed" /\ UNCHANGED <<now, todo, changed>>
  /\ UNCHANGED <<disk, snap, quarantine, unmoved, disturbed>>

\* Mutant: created files are deleted.
MoveAway(p) ==
  /\ pc = "restore"
  /\ p \in todo
  /\ todo' = todo \ {p}
  /\ disk' = [q \in Paths |-> IF q \in Subtree(p) THEN None ELSE disk[q]]
  /\ UNCHANGED <<pc, snap, now, quarantine, unmoved, changed, disturbed>>

\* quarantine: one rename, which can fail, for instance because the temporary
\* directory is on another file system.  The temporary directory itself is
\* there: MkdirTemp without one fails like a rename of a file that is gone.
Move(p) ==
  /\ pc = "restore"
  /\ p \in todo
  /\ todo' = todo \ {p}
  /\ \/ /\ disk[p] # None
        /\ quarantine' = [q \in Paths |-> IF q \in Subtree(p) THEN disk[q] ELSE quarantine[q]]
        /\ disk' = [q \in Paths |-> IF q \in Subtree(p) THEN None ELSE disk[q]]
        /\ UNCHANGED unmoved
     \/ disk[p] = None /\ UNCHANGED <<quarantine, disk, unmoved>>
     \/ unmoved' = unmoved \cup {p} /\ UNCHANGED <<quarantine, disk>>
  /\ UNCHANGED <<pc, snap, now, changed, disturbed>>

Return ==
  /\ pc = "restore"
  /\ todo = {}
  /\ pc' = "done"
  /\ UNCHANGED <<disk, snap, now, todo, quarantine, unmoved, changed, disturbed>>

Next ==
  \/ Snapshot \/ List \/ Return
  \/ \E p \in Paths : Move(p) \/ \E n \in Nodes : Change(p, n)

Spec == Init /\ [][Next]_vars

-----------------------------------------------------------------------------
\* "a file created during the run may be the user's": what was there before the
\* tests ran is never moved, not even with a directory above it, and not even
\* if files change while Restore works.
PreexistingStay == \A p \in Paths : quarantine[p] # None => snap[p] = None

\* "Restore moves the files and directories created since the snapshot ... Files
\* that existed before and were since modified or deleted cannot be restored;
\* they are reported too": every difference Restore leaves is reported, unless
\* somebody goes on changing files.
DifferencesReported ==
  pc = "done" /\ ~disturbed => \A p \in Paths : disk[p] # snap[p] =>
    p \in changed \/ p \in unmoved \/ Above[p] \cap unmoved # {}

\* "named on stderr, so nothing is lost" (README.md): what was created is in the
\* quarantine or still in place.
NothingLost ==
  pc = "done" /\ ~disturbed => \A p \in Paths : (now[p] # None /\ snap[p] = None) =>
    quarantine[p] = now[p] \/ disk[p] = now[p]
=============================================================================
