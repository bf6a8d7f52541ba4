----------------------------- MODULE Pipelines ------------------------------
(***************************************************************************)
(* A kanly run: run launches a pipeline goroutine per package, each        *)
(* executes runPackage, and the results are put together once all are done *)
(* (cmd/kanly/main.go).  The pipelines share the directory locks and the   *)
(* worker slots; every step here that touches those is conjoined with the  *)
(* step of DirLocks or WorkerSlots that it is.                             *)
(*                                                                         *)
(* A package's test binaries are its suites: suite 1 is its own tests, the *)
(* others are those of its dependents (--cross-package).  What a compile   *)
(* or a test process reports is chosen freely, as is which mutants the     *)
(* tests cover and which kills the cache knows.                            *)
(***************************************************************************)
EXTENDS DirLocks, WorkerSlots

CONSTANTS
  SuiteDir,     \* SuiteDir[j]: the directory of each suite of j
  VerifyKills,  \* --verify-kills
  MinScore,     \* --min-score, in percent
  GuardCover,   \* GuardCover[d]: the package directories that a guard of d
                \* watches, d itself and what lies under its testdata
  MaxTests,     \* bound on the tests of a suite
  MaxMutants,   \* bound on the mutants of a package
  TestCounts,   \* TestCounts[j]: how many tests a suite of j may have
  MutantCounts  \* MutantCounts[j]: how many mutants j may have

Phases == {"compile", "compileCov", "baseline", "coverage", "mutant", "confirm"}
PipelineTasks ==
  Phases \X (UNION {DOMAIN SuiteDir[j] : j \in Jobs}) \X (0 .. MaxTests + MaxMutants)

ASSUME PipelinesAssumption ==
  /\ Tasks = PipelineTasks
  /\ SuiteDir \in [Jobs -> Seq(Dirs)]
  /\ \A j \in Jobs :
       /\ SuiteDir[j] # << >>
       /\ DirsOf[j] = {SuiteDir[j][s] : s \in DOMAIN SuiteDir[j]}
  /\ VerifyKills \in BOOLEAN
  /\ GuardCover \in [Dirs -> SUBSET Dirs]
  /\ \A d \in Dirs : d \in GuardCover[d]
  /\ MinScore \in 0 .. 100
  /\ MaxTests \in Nat
  /\ MaxMutants \in Nat
  /\ TestCounts \in [Jobs -> SUBSET (0 .. MaxTests)]
  /\ MutantCounts \in [Jobs -> SUBSET (0 .. MaxMutants)]

VARIABLES
  stage,        \* where each pipeline is in runPackage
  suite,        \* the suite being set up
  next,         \* loop index of the coverage and confirmation loops
  tests,        \* number of tests the baseline of the suite left
  failedAlone,  \* those that failed in their own coverage run
  covErr,       \* the error of the coverage loop: none yet, returned by one of
                \* its goroutines, or set and the loop's context cancelled
  ready,        \* suites that judge the mutants
  guarded,      \* suites whose directory is guarded: guardDir was called
                \* and what it returned was not
  built,        \* suites whose test binary is on disk
  results,      \* the status of each mutant of the package
  reruns,       \* history: mutants whose verdict was re-run alone
  failed,       \* the stage a package failed at, or "no"
  exit          \* the run's exit code; Running before it returns

setupVars == <<suite, tests, failedAlone, covErr, ready>>
diskVars == <<guarded, built>>
verdictVars == <<results, reruns>>
pipeVars == <<stage, setupVars, next, diskVars, verdictVars, failed>>
vars == <<lockVars, slotVars, pipeVars, exit>>

Running == -1

Stages == {"queued", "locked", "compile", "compileCov", "baseline", "coverage",
           "plan", "mutants", "confirm", "cleanup", "cleanupOwn", "unlock", "done"}
Slotted == {"compile", "compileCov", "baseline"}
FailureStages == {"no", "load", "rewrite", "compile", "baseline", "coverage"}
Verdicts == {"killed", "survived", "timeout"}
Settled == Verdicts \cup {"not_covered", "cached"}
Statuses == Settled \cup {"pending", "started"}

Suites(j) == DOMAIN SuiteDir[j]

\* Mutant: a verdict is re-run with one slot.
ReqOneSlot(j, phase, s, i) == [job |-> j, task |-> <<phase, s, i>>, n |-> 1]

\* One process, or one compile, and the slots it holds: the re-run of a verdict
\* takes all of them.
Req(j, phase, s, i) ==
  [job |-> j, task |-> <<phase, s, i>>, n |-> IF phase = "confirm" THEN NumSlots ELSE 1]

\* A package's results: a status for each of its mutants.
ResultLists == UNION {[1 .. n -> Statuses] : n \in 0 .. MaxMutants}

PipeTypeOK ==
  /\ stage \in [Jobs -> Stages]
  /\ suite \in [Jobs -> Nat \ {0}]
  /\ \A j \in Jobs : suite[j] \in Suites(j)
  /\ next \in [Jobs -> Nat]
  /\ tests \in [Jobs -> 0 .. MaxTests]
  /\ failedAlone \in [Jobs -> SUBSET (1 .. MaxTests)]
  /\ covErr \in [Jobs -> {"no", "returned", "cancelled"}]
  /\ ready \in [Jobs -> SUBSET Nat]
  /\ guarded \in [Jobs -> SUBSET Nat]
  /\ built \in [Jobs -> SUBSET Nat]
  /\ results \in [Jobs -> ResultLists]
  /\ reruns \in [Jobs -> SUBSET (1 .. MaxMutants)]
  /\ failed \in [Jobs -> FailureStages]
  /\ exit \in {Running, 0, 1, 3}

TypeOK == LockTypeOK /\ SlotTypeOK /\ PipeTypeOK

\* No pipeline runs for a package that failed to load.
Init ==
  /\ LockInit
  /\ SlotInit
  /\ \E loadFailed \in SUBSET Jobs :
       /\ stage = [j \in Jobs |-> IF j \in loadFailed THEN "done" ELSE "queued"]
       /\ failed = [j \in Jobs |-> IF j \in loadFailed THEN "load" ELSE "no"]
  /\ suite = [j \in Jobs |-> 1]
  /\ next = [j \in Jobs |-> 1]
  /\ tests = [j \in Jobs |-> 0]
  /\ covErr = [j \in Jobs |-> "no"]
  /\ results = [j \in Jobs |-> << >>]
  /\ failedAlone = [j \in Jobs |-> {}]
  /\ ready = [j \in Jobs |-> {}]
  /\ guarded = [j \in Jobs |-> {}]
  /\ built = [j \in Jobs |-> {}]
  /\ reruns = [j \in Jobs |-> {}]
  /\ exit = Running

GoTo(j, st) == stage' = [stage EXCEPT ![j] = st]

-----------------------------------------------------------------------------
(* The launch loop of run, and the goroutine around runPackage.            *)

InFlight == {j \in Jobs : stage[j] \notin {"queued", "done"}}

\* Mutant: the package's directory is guarded before it is locked.
LaunchGuarded(j) ==
  /\ stage[j] = "queued"
  /\ \A k \in Jobs : k < j => stage[k] # "queued"
  /\ Cardinality(InFlight) < NumSlots
  /\ BeginLock(j)
  /\ GoTo(j, "locked")
  /\ guarded' = [guarded EXCEPT ![j] = {1}]
  /\ UNCHANGED <<slotVars, setupVars, next, built, verdictVars, failed, exit>>

\* Pipelines start in order, at most --jobs at a time; the first thing a
\* pipeline does is to lock its directories.
Launch(j) ==
  /\ stage[j] = "queued"
  /\ \A k \in Jobs : k < j => stage[k] # "queued"
  /\ Cardinality(InFlight) < NumSlots
  /\ BeginLock(j)
  /\ GoTo(j, "locked")
  /\ UNCHANGED <<slotVars, setupVars, next, diskVars, verdictVars, failed, exit>>

Lock(j) ==
  /\ \E d \in Dirs : TakeLock(j, d)
  /\ UNCHANGED <<slotVars, pipeVars, exit>>

Unlock(j) ==
  /\ \E d \in Dirs : ReleaseLock(j, d)
  /\ UNCHANGED <<slotVars, pipeVars, exit>>

\* pipelines.Release and wg.Done.
ExitPipeline(j) ==
  /\ stage[j] = "unlock"
  /\ lockPC[j] = "done"
  /\ GoTo(j, "done")
  /\ UNCHANGED <<lockVars, slotVars, setupVars, next, diskVars, verdictVars, failed, exit>>

-----------------------------------------------------------------------------
(* runPackage: rewriting and setting up the suites.                        *)

\* ReadIgnoreFile, RewriteWith, the --mutant narrowing and BuildOverlay.
Rewrite(j) ==
  /\ stage[j] = "locked"
  /\ lockPC[j] = "in"
  /\ \/ /\ failed' = [failed EXCEPT ![j] = "rewrite"]
        /\ GoTo(j, "cleanup")
        /\ UNCHANGED results
     \/ /\ \E n \in MutantCounts[j] :
             /\ results' = [results EXCEPT ![j] = [i \in 1 .. n |-> "pending"]]
             /\ GoTo(j, IF n = 0 THEN "cleanup" ELSE "compile")
        /\ UNCHANGED failed
  /\ UNCHANGED <<lockVars, slotVars, setupVars, next, diskVars, reruns, exit>>

\* On to the next dependent, or to the mutants.
AfterSuite(j) ==
  IF suite[j] + 1 \in Suites(j)
    THEN GoTo(j, "compile") /\ suite' = [suite EXCEPT ![j] = @ + 1]
    ELSE GoTo(j, "plan") /\ UNCHANGED suite

SuiteReady(j) ==
  /\ ready' = [ready EXCEPT ![j] = @ \cup {suite[j]}]
  /\ AfterSuite(j)
  /\ UNCHANGED failed

\* The stage runPackage names in its stageError.
FailureStage(st) == IF st = "compileCov" THEN "compile" ELSE st

\* A package whose own suite cannot be set up fails; a dependent's is left out.
SuiteFails(j) ==
  /\ IF suite[j] = 1
       THEN /\ failed' = [failed EXCEPT ![j] = FailureStage(stage[j])]
            /\ GoTo(j, "cleanup")
            /\ UNCHANGED suite
       ELSE /\ AfterSuite(j)
            /\ UNCHANGED failed
  /\ UNCHANGED ready

\* slotted: the compile or baseline of the current suite asks for a slot.
StartSlotted(j) ==
  /\ stage[j] \in Slotted
  /\ Acquire(Req(j, stage[j], suite[j], 0))
  /\ UNCHANGED <<lockVars, pipeVars, exit>>

EndCompile(j) ==
  /\ stage[j] = "compile"
  /\ Release(Req(j, "compile", suite[j], 0))
  /\ \/ /\ built' = [built EXCEPT ![j] = @ \cup {suite[j]}]
        /\ GoTo(j, "compileCov")
        /\ UNCHANGED <<suite, ready, failed>>
     \/ SuiteFails(j) /\ UNCHANGED built
  /\ UNCHANGED <<lockVars, tests, failedAlone, covErr, next, guarded, verdictVars, exit>>

\* The directory is guarded once both binaries exist.  The setup of a dependent
\* may then come from the cache, without running its tests.
EndCompileCov(j) ==
  /\ stage[j] = "compileCov"
  /\ Release(Req(j, "compileCov", suite[j], 0))
  /\ \/ /\ guarded' = [guarded EXCEPT ![j] = @ \cup {suite[j]}]
        /\ \/ /\ GoTo(j, "baseline")
              /\ UNCHANGED <<suite, ready, failed>>
           \/ suite[j] # 1 /\ SuiteReady(j)
     \/ SuiteFails(j) /\ UNCHANGED guarded
  /\ UNCHANGED <<lockVars, tests, failedAlone, covErr, next, built, verdictVars, exit>>

\* establishBaseline leaves some of the tests.  The coverage loop that follows
\* fails at once, like a cancelled one, when its temporary directory cannot be
\* created.
EndBaseline(j) ==
  /\ stage[j] = "baseline"
  /\ Release(Req(j, "baseline", suite[j], 0))
  /\ \/ /\ \E n \in TestCounts[j] : tests' = [tests EXCEPT ![j] = n]
        /\ \E e \in {"no", "cancelled"} : covErr' = [covErr EXCEPT ![j] = e]
        /\ next' = [next EXCEPT ![j] = 1]
        /\ failedAlone' = [failedAlone EXCEPT ![j] = {}]
        /\ GoTo(j, "coverage")
        /\ UNCHANGED <<suite, ready, failed>>
     \/ SuiteFails(j) /\ UNCHANGED <<tests, covErr, next, failedAlone>>
  /\ UNCHANGED <<lockVars, diskVars, verdictVars, exit>>

\* CollectPerTestCoverage: a process per test, each in a goroutine of its own.
StartCoverage(j) ==
  /\ stage[j] = "coverage"
  /\ next[j] <= tests[j]
  /\ covErr[j] # "cancelled"
  /\ Acquire(Req(j, "coverage", suite[j], next[j]))
  /\ next' = [next EXCEPT ![j] = @ + 1]
  /\ UNCHANGED <<lockVars, stage, setupVars, diskVars, verdictVars, failed, exit>>

\* A test that fails on its own is excluded; a profile that cannot be read is
\* an error.  The goroutine releases its slot before errgroup sees the error.
\* Once the loop is cancelled, what its processes say is dropped.
EndCoverage(j, i) ==
  /\ stage[j] = "coverage"
  /\ Release(Req(j, "coverage", suite[j], i))
  /\ \/ UNCHANGED <<failedAlone, covErr>>
     \/ /\ covErr[j] # "cancelled"
        /\ failedAlone' = [failedAlone EXCEPT ![j] = @ \cup {i}]
        /\ UNCHANGED covErr
     \/ /\ covErr[j] # "cancelled"
        /\ covErr' = [covErr EXCEPT ![j] = "returned"]
        /\ UNCHANGED failedAlone
  /\ UNCHANGED <<lockVars, stage, suite, tests, ready, next, diskVars, verdictVars, failed, exit>>

\* errgroup cancels the loop's context, and a blocked Acquire then gives up.
CancelCoverage(j) ==
  /\ covErr[j] = "returned"
  /\ covErr' = [covErr EXCEPT ![j] = "cancelled"]
  /\ UNCHANGED <<lockVars, slotVars, stage, suite, tests, failedAlone, ready, next,
                 diskVars, verdictVars, failed, exit>>

GiveUpCoverage(j, i) ==
  /\ stage[j] = "coverage"
  /\ covErr[j] = "cancelled"
  /\ CancelWait(Req(j, "coverage", suite[j], i))
  /\ UNCHANGED <<lockVars, pipeVars, exit>>

\* Mutant: the loop does not wait for its goroutines.
DrainedNever(j) == ~Blocked(j)

\* No process of j runs or waits: g.Wait returned.
Drained(j) == ~Blocked(j) /\ \A r \in running : r.job # j

\* The loop's variables are dead once it returns.
EndCoverageLoop(j) ==
  /\ stage[j] = "coverage"
  /\ next[j] > tests[j] \/ covErr[j] = "cancelled"
  /\ covErr[j] # "returned"
  /\ Drained(j)
  /\ IF covErr[j] = "cancelled" \/ (suite[j] = 1 /\ failedAlone[j] # {} /\ failedAlone[j] = 1 .. tests[j])
       THEN SuiteFails(j)
       ELSE SuiteReady(j)
  /\ tests' = [tests EXCEPT ![j] = 0]
  /\ failedAlone' = [failedAlone EXCEPT ![j] = {}]
  /\ covErr' = [covErr EXCEPT ![j] = "no"]
  /\ next' = [next EXCEPT ![j] = 1]
  /\ UNCHANGED <<lockVars, slotVars, diskVars, verdictVars, exit>>

-----------------------------------------------------------------------------
(* runPackage: judging the mutants.                                        *)

\* Mutants without a covering test are not run, nor are those whose kill an
\* earlier run stored; with --verify-kills no kill is reused.
Plan(j) ==
  /\ stage[j] = "plan"
  /\ \E f \in [DOMAIN results[j] -> {"pending", "not_covered"}
                                      \cup (IF VerifyKills THEN {} ELSE {"cached"})] :
       results' = [results EXCEPT ![j] = f]
  /\ GoTo(j, "mutants")
  /\ UNCHANGED <<lockVars, slotVars, setupVars, next, diskVars, reruns, failed, exit>>

\* The loop starts the mutants longest first: in any order, here.
StartMutant(j, i) ==
  /\ stage[j] = "mutants"
  /\ results[j][i] = "pending"
  /\ Acquire(Req(j, "mutant", 1, i))
  /\ results' = [results EXCEPT ![j][i] = "started"]
  /\ UNCHANGED <<lockVars, stage, setupVars, next, diskVars, reruns, failed, exit>>

EndMutant(j, i) ==
  /\ stage[j] = "mutants"
  /\ Release(Req(j, "mutant", 1, i))
  /\ \E status \in Verdicts : results' = [results EXCEPT ![j][i] = status]
  /\ UNCHANGED <<lockVars, stage, setupVars, next, diskVars, reruns, failed, exit>>

EndMutantLoop(j) ==
  /\ stage[j] = "mutants"
  /\ \A i \in DOMAIN results[j] : results[j][i] # "pending"
  /\ Drained(j)
  /\ next' = [next EXCEPT ![j] = 1]
  /\ GoTo(j, "confirm")
  /\ UNCHANGED <<lockVars, slotVars, setupVars, diskVars, verdictVars, failed, exit>>

\* Mutant: timeouts are believed.
DoubtfulKillsOnly(j) ==
  {i \in DOMAIN results[j] : i >= next[j] /\ VerifyKills /\ results[j][i] = "killed"}

\* confirmVerdicts: the verdicts it re-runs, from index next on.
Doubtful(j) ==
  {i \in DOMAIN results[j] :
     /\ i >= next[j]
     /\ results[j][i] = "timeout" \/ (VerifyKills /\ results[j][i] = "killed")}

StartConfirm(j, i) ==
  /\ stage[j] = "confirm"
  /\ IsLowest(i, Doubtful(j))
  /\ Acquire(Req(j, "confirm", 1, i))
  /\ UNCHANGED <<lockVars, pipeVars, exit>>

\* A timeout takes the verdict of the re-run; a kill gives way only to survival.
EndConfirm(j, i) ==
  /\ stage[j] = "confirm"
  /\ Release(Req(j, "confirm", 1, i))
  /\ \E again \in Verdicts :
       results' = IF results[j][i] = "timeout" \/ again = "survived"
                    THEN [results EXCEPT ![j][i] = again]
                    ELSE results
  /\ reruns' = [reruns EXCEPT ![j] = @ \cup {i}]
  /\ next' = [next EXCEPT ![j] = i + 1]
  /\ UNCHANGED <<lockVars, stage, setupVars, diskVars, failed, exit>>

EndConfirmLoop(j) ==
  /\ stage[j] = "confirm"
  /\ Doubtful(j) = {}
  /\ GoTo(j, "cleanup")
  /\ UNCHANGED <<lockVars, slotVars, setupVars, next, diskVars, verdictVars, failed, exit>>

-----------------------------------------------------------------------------
(* The deferred calls of runPackage, last first, and the end of the run.   *)

CleanDependents(j) ==
  /\ stage[j] = "cleanup"
  /\ guarded' = [guarded EXCEPT ![j] = @ \cap {1}]
  /\ built' = [built EXCEPT ![j] = @ \cap {1}]
  /\ GoTo(j, "cleanupOwn")
  /\ UNCHANGED <<lockVars, slotVars, setupVars, next, verdictVars, failed, exit>>

\* Mutant: the clean-up is skipped when the package failed.
CleanOwnOnSuccess(j) ==
  /\ stage[j] = "cleanupOwn"
  /\ guarded' = [guarded EXCEPT ![j] = {}]
  /\ built' = IF failed[j] = "no" THEN [built EXCEPT ![j] = {}] ELSE built
  /\ GoTo(j, "unlock")
  /\ BeginUnlock(j)
  /\ UNCHANGED <<slotVars, setupVars, next, verdictVars, failed, exit>>

CleanOwn(j) ==
  /\ stage[j] = "cleanupOwn"
  /\ guarded' = [guarded EXCEPT ![j] = {}]
  /\ built' = [built EXCEPT ![j] = {}]
  /\ GoTo(j, "unlock")
  /\ BeginUnlock(j)
  /\ UNCHANGED <<slotVars, setupVars, next, verdictVars, failed, exit>>

Mutants == UNION {{j} \X DOMAIN results[j] : j \in {k \in Jobs : failed[k] = "no"}}
Detected == {m \in Mutants : results[m[1]][m[2]] \in {"killed", "cached", "timeout"}}
BelowMinScore == Mutants # {} /\ 100 * Cardinality(Detected) < MinScore * Cardinality(Mutants)

\* Mutant: the errors of packages are left out of the exit code.
FinishRegardless ==
  /\ exit = Running
  /\ \A j \in Jobs : stage[j] = "done"
  /\ exit' \in {1, IF BelowMinScore THEN 3 ELSE 0}
  /\ UNCHANGED <<lockVars, slotVars, pipeVars>>

\* wg.Wait, collecting the results in job order, writing the report (which can
\* fail) and choosing the exit code.
Finish ==
  /\ exit = Running
  /\ \A j \in Jobs : stage[j] = "done"
  /\ exit' \in {1, IF \E j \in Jobs : failed[j] # "no" THEN 1
                   ELSE IF BelowMinScore THEN 3 ELSE 0}
  /\ UNCHANGED <<lockVars, slotVars, pipeVars>>

PipelineStep(j) ==
  \/ Launch(j) \/ Lock(j) \/ Unlock(j) \/ ExitPipeline(j)
  \/ Rewrite(j)
  \/ StartSlotted(j) \/ EndCompile(j) \/ EndCompileCov(j) \/ EndBaseline(j)
  \/ StartCoverage(j) \/ CancelCoverage(j) \/ EndCoverageLoop(j)
  \/ \E i \in 1 .. MaxTests : EndCoverage(j, i) \/ GiveUpCoverage(j, i)
  \/ Plan(j) \/ EndMutantLoop(j) \/ EndConfirmLoop(j)
  \/ \E i \in DOMAIN results[j] :
       StartMutant(j, i) \/ EndMutant(j, i) \/ StartConfirm(j, i) \/ EndConfirm(j, i)
  \/ CleanDependents(j) \/ CleanOwn(j)

Next == Finish \/ \E j \in Jobs : PipelineStep(j)

Spec == Init /\ [][Next]_vars

\* The goroutines and processes that can take a step do not all stand still:
\* tests have timeouts and compiles end.
FairSpec == Spec /\ WF_vars(Next)

-----------------------------------------------------------------------------
\* The suites whose test binary a process may be running in their directory.
SuitesOf(r) ==
  CASE r.task[1] \in {"baseline", "coverage"} -> {r.task[2]}
    [] r.task[1] \in {"mutant", "confirm"} -> ready[r.job]
    [] OTHER -> {}

\* A test process runs only while its binary is on disk, its directory is
\* guarded and its pipeline holds the lock of that directory: no failure path
\* of runPackage cleans up or unlocks under a process still running.
ProcessesGuarded ==
  \A r \in running : \A s \in SuitesOf(r) :
    /\ s \in built[r.job]
    /\ s \in guarded[r.job]
    /\ owner[SuiteDir[r.job][s]] = r.job

\* "Two pipelines never run tests in, or guard, the same directory at once":
\* while a pipeline runs a test in a directory, no guard of another pipeline
\* watches that directory.
NoForeignGuard ==
  \A r \in running : \A s \in SuitesOf(r) : \A k \in Jobs \ {r.job} : \A g \in guarded[k] :
    SuiteDir[r.job][s] \notin GuardCover[SuiteDir[k][g]]

\* Once a verdict is in, only a re-run with the machine to itself changes it.
VerdictsChangeAlone ==
  [][\A j \in Jobs : \A i \in DOMAIN results[j] :
       (results[j][i] \in Settled /\ results'[j][i] # results[j][i]) =>
         running = {Req(j, "confirm", 1, i)}]_vars

\* A package that is done has a verdict for every mutant, no timeout that was
\* not confirmed alone, and with --verify-kills no kill that was not.
VerdictsFinal ==
  \A j \in Jobs : stage[j] \in {"cleanup", "cleanupOwn", "unlock", "done"} /\ failed[j] = "no" =>
    \A i \in DOMAIN results[j] :
      /\ results[j][i] \in Settled
      /\ results[j][i] = "timeout" => i \in reruns[j]
      /\ VerifyKills /\ results[j][i] \in {"killed", "cached"} => i \in reruns[j]

\* "never let a partial result pass as success": exit code 0 means that no
\* package failed, every mutant was judged and --min-score is met.
ExitHonest ==
  exit \in {0, 3} =>
    /\ \A j \in Jobs : failed[j] = "no" /\ \A i \in DOMAIN results[j] : results[j][i] \in Settled
    /\ exit = 0 => ~BelowMinScore

\* A run that ends has returned every slot and lock, restored every guarded
\* directory and removed every binary, whatever failed on the way.
NothingLeftBehind ==
  exit # Running =>
    /\ cur = 0 /\ running = {} /\ waiters = << >>
    /\ \A d \in Dirs : owner[d] = NoJob
    /\ \A j \in Jobs : guarded[j] = {} /\ built[j] = {}

\* Every run ends: locks, permits and slots together cannot block it for good.
Terminates == <>(exit # Running)
=============================================================================
