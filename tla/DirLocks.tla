------------------------------ MODULE DirLocks ------------------------------
(***************************************************************************)
(* dirLocks of cmd/kanly/main.go: one mutex per directory.  A pipeline     *)
(* locks every directory it runs tests in before runPackage and unlocks    *)
(* them after it.                                                          *)
(*                                                                         *)
(* A directory is the rank of its path in sort.Strings order, and a        *)
(* pipeline's directories are a set, as slices.Compact leaves them.  The   *)
(* lookup of a directory's mutex under dirLocks.mu neither blocks nor      *)
(* fails and is part of the step that takes the mutex.                     *)
(***************************************************************************)
EXTENDS RunJobs

CONSTANTS
  Dirs,    \* directories, by rank
  DirsOf,  \* DirsOf[j]: the package's directory and those of its dependents
  NoJob    \* the owner of a mutex nobody holds

ASSUME DirsAssumption ==
  /\ Dirs \subseteq Int
  /\ DirsOf \in [Jobs -> (SUBSET Dirs) \ {{}}]
  /\ NoJob \notin Jobs

VARIABLES
  lockPC,  \* where each pipeline is in lock / unlock
  owner    \* the pipeline that holds each directory's mutex

lockVars == <<lockPC, owner>>

LockPCs == {"out", "locking", "in", "unlocking", "done"}

LockTypeOK ==
  /\ lockPC \in [Jobs -> LockPCs]
  /\ owner \in [Dirs -> Jobs \cup {NoJob}]

Held(j) == {d \in Dirs : owner[d] = j}
Missing(j) == DirsOf[j] \ Held(j)

\* The loops of lock and of unlock both walk the sorted directories.
IsLowest(d, S) == d \in S /\ \A e \in S : d <= e

LockInit ==
  /\ lockPC = [j \in Jobs |-> "out"]
  /\ owner = [d \in Dirs |-> NoJob]

-----------------------------------------------------------------------------
BeginLock(j) ==
  /\ lockPC[j] = "out"
  /\ lockPC' = [lockPC EXCEPT ![j] = "locking"]
  /\ UNCHANGED owner

\* Mutant: the pipelines do not share their mutexes.
TakeLockUnshared(j, d) ==
  /\ lockPC[j] = "locking"
  /\ IsLowest(d, Missing(j))
  /\ owner' = [owner EXCEPT ![d] = j]
  /\ lockPC' = [lockPC EXCEPT ![j] = IF Missing(j) = {d} THEN "in" ELSE "locking"]

\* One iteration of lock: m.Lock() blocks while another pipeline holds m.
\* The last one returns from lock.
TakeLock(j, d) ==
  /\ lockPC[j] = "locking"
  /\ IsLowest(d, Missing(j))
  /\ owner[d] = NoJob
  /\ owner' = [owner EXCEPT ![d] = j]
  /\ lockPC' = [lockPC EXCEPT ![j] = IF Missing(j) = {d} THEN "in" ELSE "locking"]

BeginUnlock(j) ==
  /\ lockPC[j] = "in"
  /\ lockPC' = [lockPC EXCEPT ![j] = "unlocking"]
  /\ UNCHANGED owner

\* Mutant: unlock releases one directory only.
ReleaseLockOnce(j, d) ==
  /\ lockPC[j] = "unlocking"
  /\ IsLowest(d, Held(j))
  /\ owner' = [owner EXCEPT ![d] = NoJob]
  /\ lockPC' = [lockPC EXCEPT ![j] = "done"]

\* One iteration of the unlock closure.
ReleaseLock(j, d) ==
  /\ lockPC[j] = "unlocking"
  /\ IsLowest(d, Held(j))
  /\ owner' = [owner EXCEPT ![d] = NoJob]
  /\ lockPC' = [lockPC EXCEPT ![j] = IF Held(j) = {d} THEN "done" ELSE "unlocking"]

LockNext ==
  \E j \in Jobs :
    \/ BeginLock(j)
    \/ \E d \in Dirs : TakeLock(j, d)
    \/ BeginUnlock(j)
    \/ \E d \in Dirs : ReleaseLock(j, d)

LockSpec == LockInit /\ [][LockNext]_lockVars

\* Every pipeline goroutine keeps running, and runPackage returns.
LockFairness ==
  \A j \in Jobs : /\ WF_lockVars(BeginLock(j))
                  /\ WF_lockVars(\E d \in Dirs : TakeLock(j, d))
                  /\ WF_lockVars(BeginUnlock(j))
                  /\ WF_lockVars(\E d \in Dirs : ReleaseLock(j, d))

FairLockSpec == LockSpec /\ LockFairness

-----------------------------------------------------------------------------
\* Pipelines that share a directory never run their packages at once: the
\* guarantee runPackage relies on when it runs tests in a real checkout.
LocksExclude ==
  \A j, k \in Jobs :
    (lockPC[j] = "in" /\ lockPC[k] = "in" /\ j # k) => DirsOf[j] \cap DirsOf[k] = {}

\* A pipeline waits only for a directory above every one it already holds.  A
\* chain of pipelines, each waiting for the next, therefore climbs and never
\* closes: this is why "in sorted order" in lock rules deadlock out.
WaitsClimb ==
  \A j, k \in Jobs : \A d, e \in Dirs :
    ( /\ lockPC[j] = "locking" /\ IsLowest(d, Missing(j)) /\ owner[d] = k
      /\ lockPC[k] = "locking" /\ IsLowest(e, Missing(k)) ) => d < e

\* Every pipeline that asks for its directories gets them.
EveryLockGranted == \A j \in Jobs : (lockPC[j] = "locking") ~> (lockPC[j] = "in")

\* The locks implement atomic acquisition of whole directory sets.
Using == {j \in Jobs : lockPC[j] = "in"}
Exclusion == INSTANCE DirExclusion WITH using <- Using
ExclusionSpec == Exclusion!Spec
=============================================================================
