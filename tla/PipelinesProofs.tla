-------------------------- MODULE PipelinesProofs ---------------------------
(***************************************************************************)
(* Proofs about the composed run, for any packages, dependents, tests and  *)
(* mutants: it is type correct, it uses the directory locks and the worker *)
(* slots only the way DirLocks and WorkerSlots allow, and so inherits what *)
(* is proved of them.  From there an invariant on what each stage may have *)
(* waiting, running, locked and on disk (RunInv) gives the promises of the *)
(* whole run: verdicts are final, the exit code is honest, no process runs *)
(* unguarded, and nothing is left behind.                                  *)
(***************************************************************************)
EXTENDS Pipelines, LocksAndSlotsProofs

\* Every step of the run is a step of the locks or leaves them alone.
LEMMA LockRefinementStep == [Next]_vars => [LockNext]_lockVars
<1> SUFFICES ASSUME [Next]_vars PROVE [LockNext]_lockVars
  OBVIOUS
<1>1. ASSUME NEW j \in Jobs, Launch(j) \/ Lock(j) \/ Unlock(j) \/ CleanOwn(j)
      PROVE  LockNext
  BY <1>1 DEF Launch, Lock, Unlock, CleanOwn, LockNext
<1>2. ASSUME NEW j \in Jobs,
             \/ ExitPipeline(j) \/ Rewrite(j) \/ StartSlotted(j) \/ EndCompile(j)
             \/ EndCompileCov(j) \/ EndBaseline(j) \/ StartCoverage(j)
      PROVE  UNCHANGED lockVars
  BY <1>2 DEF ExitPipeline, Rewrite, StartSlotted, EndCompile, EndCompileCov,
              EndBaseline, StartCoverage, lockVars
<1>3. ASSUME NEW j \in Jobs,
             \/ CancelCoverage(j) \/ EndCoverageLoop(j) \/ Plan(j)
             \/ EndMutantLoop(j) \/ EndConfirmLoop(j) \/ CleanDependents(j)
      PROVE  UNCHANGED lockVars
  BY <1>3 DEF CancelCoverage, EndCoverageLoop, Plan, EndMutantLoop, EndConfirmLoop,
              CleanDependents, lockVars
<1>4. ASSUME NEW j \in Jobs, NEW i \in 1 .. MaxTests,
             EndCoverage(j, i) \/ GiveUpCoverage(j, i)
      PROVE  UNCHANGED lockVars
  BY <1>4 DEF EndCoverage, GiveUpCoverage, lockVars
<1>5. ASSUME NEW j \in Jobs, NEW i \in DOMAIN results[j],
             StartMutant(j, i) \/ EndMutant(j, i) \/ StartConfirm(j, i) \/ EndConfirm(j, i)
      PROVE  UNCHANGED lockVars
  BY <1>5 DEF StartMutant, EndMutant, StartConfirm, EndConfirm, lockVars
<1>6. CASE Finish \/ UNCHANGED vars
  BY <1>6 DEF Finish, vars, lockVars
<1> QED BY <1>1, <1>2, <1>3, <1>4, <1>5, <1>6 DEF Next, PipelineStep

\* The run obeys the protocol of the directory locks.
LEMMA RunRefinesLocks == Spec => LockSpec
<1>1. Init => LockInit
  BY DEF Init
<1> QED BY <1>1, LockRefinementStep, PTL DEF Spec, LockSpec

\* Packages that share a directory never run at once, in the whole program.
THEOREM RunExcludes == Spec => []LocksExclude
BY RunRefinesLocks, LocksExcludeAlways, PTL

-----------------------------------------------------------------------------
\* What keeps a list of results a list of results.
LEMMA ResultListFacts ==
  ASSUME NEW f \in ResultLists
  PROVE  /\ DOMAIN f \subseteq 1 .. MaxMutants
         /\ \A i \in DOMAIN f : f[i] \in Statuses
         /\ \A i \in DOMAIN f : \A st \in Statuses : [f EXCEPT ![i] = st] \in ResultLists
         /\ \A g \in [DOMAIN f -> Statuses] : g \in ResultLists
<1>1. PICK n \in 0 .. MaxMutants : f \in [1 .. n -> Statuses]
  BY DEF ResultLists
<1>2. n \in Nat /\ n <= MaxMutants /\ DOMAIN f = 1 .. n
  BY <1>1, PipelinesAssumption
<1>3. \A g \in [1 .. n -> Statuses] : g \in ResultLists
  BY <1>1 DEF ResultLists
<1>4. \A i \in DOMAIN f : \A st \in Statuses : [f EXCEPT ![i] = st] \in [1 .. n -> Statuses]
  BY <1>1
<1>5. 1 .. n \subseteq 1 .. MaxMutants
  BY <1>2, PipelinesAssumption
<1> QED BY <1>1, <1>2, <1>3, <1>4, <1>5

\* Moving on to another suite keeps the pipeline well typed.
LEMMA SuiteTypes ==
  ASSUME PipeTypeOK, NEW j \in Jobs,
         stage[j] \in Slotted \cup {"coverage"},
         SuiteReady(j) \/ SuiteFails(j)
  PROVE  /\ stage' \in [Jobs -> Stages]
         /\ suite' \in [Jobs -> Nat \ {0}]
         /\ \A k \in Jobs : suite'[k] \in Suites(k)
         /\ ready' \in [Jobs -> SUBSET Nat]
         /\ failed' \in [Jobs -> FailureStages]
<1>1. AfterSuite(j) => /\ stage' \in [Jobs -> Stages]
                       /\ suite' \in [Jobs -> Nat \ {0}]
                       /\ \A k \in Jobs : suite'[k] \in Suites(k)
  BY DEF PipeTypeOK, AfterSuite, GoTo, Stages
<1>2. CASE SuiteReady(j)
  BY <1>1, <1>2 DEF PipeTypeOK, SuiteReady
<1>3. CASE SuiteFails(j) /\ suite[j] = 1
  BY <1>3 DEF PipeTypeOK, SuiteFails, GoTo, Stages, Slotted,
              FailureStage, FailureStages
<1>4. CASE SuiteFails(j) /\ suite[j] # 1
  BY <1>1, <1>4 DEF PipeTypeOK, SuiteFails
<1> QED BY <1>2, <1>3, <1>4

\* A package's own suite is one of its suites.
LEMMA OwnSuite == ASSUME NEW j \in Jobs PROVE 1 \in Suites(j)
<1>1. SuiteDir[j] \in Seq(Dirs) /\ SuiteDir[j] # << >>
  BY PipelinesAssumption
<1> QED BY <1>1, EmptySeq, LenProperties DEF Suites

\* The run starts well typed.
LEMMA PipeInitType == Init => PipeTypeOK
<1> SUFFICES ASSUME Init PROVE PipeTypeOK
  OBVIOUS
<1>1. << >> \in ResultLists
  <2>1. 0 \in 0 .. MaxMutants /\ << >> \in [1 .. 0 -> Statuses]
    BY PipelinesAssumption
  <2> QED BY <2>1 DEF ResultLists
<1>2. \A j \in Jobs : 1 \in Suites(j)
  BY OwnSuite
<1> QED BY <1>1, <1>2, PipelinesAssumption DEF Init, PipeTypeOK, Stages, FailureStages

\* Every step keeps the pipelines well typed.
LEMMA PipeStepType == PipeTypeOK /\ [Next]_vars => PipeTypeOK'
<1> SUFFICES ASSUME PipeTypeOK, [Next]_vars PROVE PipeTypeOK'
  OBVIOUS
<1> USE DEF PipeTypeOK, GoTo, setupVars, diskVars, verdictVars, pipeVars
<1>1. ASSUME NEW j \in Jobs,
             \/ Launch(j) \/ Lock(j) \/ Unlock(j) \/ ExitPipeline(j)
             \/ StartSlotted(j) \/ CancelCoverage(j) \/ EndConfirmLoop(j)
      PROVE  PipeTypeOK'
  BY <1>1 DEF Launch, Lock, Unlock, ExitPipeline, StartSlotted, CancelCoverage,
              EndConfirmLoop, Stages
<1>2. ASSUME NEW j \in Jobs, Rewrite(j) PROVE PipeTypeOK'
  <2>1. ASSUME NEW n \in 0 .. MaxMutants PROVE [i \in 1 .. n |-> "pending"] \in ResultLists
    <3>1. [i \in 1 .. n |-> "pending"] \in [1 .. n -> Statuses]
      BY DEF Statuses
    <3> QED BY <3>1 DEF ResultLists
  <2>2. results' \in [Jobs -> ResultLists]
    <3>1. results \in [Jobs -> ResultLists]
      OBVIOUS
    <3>2. CASE UNCHANGED results
      BY <3>1, <3>2
    <3>3. CASE \E n \in MutantCounts[j] :
                 results' = [results EXCEPT ![j] = [i \in 1 .. n |-> "pending"]]
      <4>1. PICK n \in MutantCounts[j] :
                 results' = [results EXCEPT ![j] = [i \in 1 .. n |-> "pending"]]
        BY <3>3
      <4>2. [i \in 1 .. n |-> "pending"] \in ResultLists
        BY <2>1, PipelinesAssumption
      <4> HIDE DEF PipeTypeOK, GoTo, setupVars, diskVars, verdictVars, pipeVars
      <4> DEFINE fresh == [i \in 1 .. n |-> "pending"]
      <4>3. results' = [results EXCEPT ![j] = fresh] /\ fresh \in ResultLists
        BY <4>1, <4>2
      <4> HIDE DEF fresh
      <4> QED BY <3>1, <4>3
    <3> QED BY <1>2, <3>2, <3>3 DEF Rewrite
  <2>3. stage' \in [Jobs -> Stages] /\ failed' \in [Jobs -> FailureStages]
    BY <1>2 DEF Rewrite, Stages, FailureStages
  <2> QED BY <1>2, <2>2, <2>3 DEF Rewrite
<1>3. ASSUME NEW j \in Jobs, EndCompile(j) PROVE PipeTypeOK'
  <2>1. stage[j] \in Slotted \cup {"coverage"} /\ suite[j] \in Nat
    BY <1>3 DEF EndCompile, Slotted
  <2>2. CASE SuiteFails(j)
    BY <1>3, <2>1, <2>2, SuiteTypes DEF EndCompile
  <2>3. CASE ~SuiteFails(j)
    BY <1>3, <2>1, <2>3 DEF EndCompile, Stages
  <2> QED BY <2>2, <2>3
<1>4. ASSUME NEW j \in Jobs, EndCompileCov(j) PROVE PipeTypeOK'
  <2>1. stage[j] \in Slotted \cup {"coverage"} /\ suite[j] \in Nat
    BY <1>4 DEF EndCompileCov, Slotted
  <2>2. CASE SuiteFails(j) \/ SuiteReady(j)
    <3>1. /\ stage' \in [Jobs -> Stages] /\ suite' \in [Jobs -> Nat \ {0}]
          /\ \A k \in Jobs : suite'[k] \in Suites(k)
          /\ ready' \in [Jobs -> SUBSET Nat] /\ failed' \in [Jobs -> FailureStages]
      BY <2>1, <2>2, SuiteTypes
    <3>2. guarded' \in [Jobs -> SUBSET Nat]
      BY <1>4, <2>1 DEF EndCompileCov
    <3> QED BY <1>4, <3>1, <3>2 DEF EndCompileCov
  <2>3. CASE ~(SuiteFails(j) \/ SuiteReady(j))
    <3>1. stage' \in [Jobs -> Stages] /\ UNCHANGED <<suite, ready, failed>>
      BY <1>4, <2>3 DEF EndCompileCov, Stages
    <3>2. guarded' \in [Jobs -> SUBSET Nat]
      BY <1>4, <2>1 DEF EndCompileCov
    <3> QED BY <1>4, <3>1, <3>2 DEF EndCompileCov
  <2> QED BY <2>2, <2>3
<1>5. ASSUME NEW j \in Jobs, EndBaseline(j) PROVE PipeTypeOK'
  <2>1. stage[j] \in Slotted \cup {"coverage"}
    BY <1>5 DEF EndBaseline, Slotted
  <2>2. CASE SuiteFails(j) /\ UNCHANGED <<tests, covErr, next, failedAlone>>
    BY <1>5, <2>1, <2>2, SuiteTypes DEF EndBaseline
  <2>3. CASE ~(SuiteFails(j) /\ UNCHANGED <<tests, covErr, next, failedAlone>>)
    <3>0. /\ \E n \in TestCounts[j] : tests' = [tests EXCEPT ![j] = n]
          /\ \E e \in {"no", "cancelled"} : covErr' = [covErr EXCEPT ![j] = e]
      BY <1>5, <2>3 DEF EndBaseline
    <3>1. tests' \in [Jobs -> 0 .. MaxTests] /\ covErr' \in [Jobs -> {"no", "returned", "cancelled"}]
      <4>1. tests' \in [Jobs -> 0 .. MaxTests]
        <5>1. PICK n \in TestCounts[j] : tests' = [tests EXCEPT ![j] = n]
          BY <3>0
        <5>2. n \in 0 .. MaxTests
          BY PipelinesAssumption
        <5> QED BY <5>1, <5>2
      <4>2. covErr' \in [Jobs -> {"no", "returned", "cancelled"}]
        BY <3>0
      <4> QED BY <4>1, <4>2
    <3>2. next' \in [Jobs -> Nat] /\ failedAlone' \in [Jobs -> SUBSET (1 .. MaxTests)]
      <4>1. next' = [next EXCEPT ![j] = 1] /\ failedAlone' = [failedAlone EXCEPT ![j] = {}]
        BY <1>5, <2>3 DEF EndBaseline
      <4>2. next' \in [Jobs -> Nat]
        BY <4>1
      <4>3. failedAlone' \in [Jobs -> SUBSET (1 .. MaxTests)]
        BY <4>1
      <4> QED BY <4>2, <4>3
    <3>3. stage' \in [Jobs -> Stages] /\ UNCHANGED <<suite, ready, failed>>
      BY <1>5, <2>3 DEF EndBaseline, Stages
    <3> QED BY <1>5, <3>1, <3>2, <3>3 DEF EndBaseline
  <2> QED BY <2>2, <2>3
<1>6. ASSUME NEW j \in Jobs, StartCoverage(j) PROVE PipeTypeOK'
  BY <1>6 DEF StartCoverage
<1>7. ASSUME NEW j \in Jobs, NEW i \in 1 .. MaxTests,
             EndCoverage(j, i) \/ GiveUpCoverage(j, i)
      PROVE  PipeTypeOK'
  BY <1>7 DEF EndCoverage, GiveUpCoverage
<1>8. ASSUME NEW j \in Jobs, EndCoverageLoop(j) PROVE PipeTypeOK'
  <2>1. stage[j] \in Slotted \cup {"coverage"} /\ (SuiteReady(j) \/ SuiteFails(j))
    BY <1>8 DEF EndCoverageLoop
  <2>2. tests' \in [Jobs -> 0 .. MaxTests] /\ covErr' \in [Jobs -> {"no", "returned", "cancelled"}]
    BY <1>8, PipelinesAssumption DEF EndCoverageLoop
  <2>3. next' \in [Jobs -> Nat] /\ failedAlone' \in [Jobs -> SUBSET (1 .. MaxTests)]
    BY <1>8 DEF EndCoverageLoop
  <2>4. UNCHANGED <<guarded, built, results, reruns, exit>>
    BY <1>8 DEF EndCoverageLoop
  <2> QED BY <2>1, <2>2, <2>3, <2>4, SuiteTypes
<1>9. ASSUME NEW j \in Jobs, Plan(j) PROVE PipeTypeOK'
  <2>1. PICK f \in [DOMAIN results[j] -> {"pending", "not_covered", "cached"}] :
          results' = [results EXCEPT ![j] = f]
    <3>1. PICK f \in [DOMAIN results[j] -> {"pending", "not_covered"}
                                      \cup (IF VerifyKills THEN {} ELSE {"cached"})] :
            results' = [results EXCEPT ![j] = f]
      BY <1>9 DEF Plan
    <3>2. f \in [DOMAIN results[j] -> {"pending", "not_covered", "cached"}]
      BY <3>1
    <3> QED BY <3>1, <3>2
  <2>2. f \in ResultLists
    <3>1. f \in [DOMAIN results[j] -> Statuses]
      BY <2>1 DEF Statuses, Settled
    <3> QED BY <3>1, ResultListFacts
  <2> QED BY <1>9, <2>1, <2>2 DEF Plan, Stages
<1>10. ASSUME NEW j \in Jobs, NEW i \in DOMAIN results[j],
              StartMutant(j, i) \/ EndMutant(j, i)
       PROVE  PipeTypeOK'
  <2>1. PICK st \in Statuses : results' = [results EXCEPT ![j][i] = st]
    BY <1>10 DEF StartMutant, EndMutant, Statuses, Settled
  <2>2. results' \in [Jobs -> ResultLists]
    BY <2>1, ResultListFacts
  <2> QED BY <1>10, <2>2 DEF StartMutant, EndMutant
<1>11. ASSUME NEW j \in Jobs, EndMutantLoop(j) PROVE PipeTypeOK'
  BY <1>11 DEF EndMutantLoop, Stages
<1>12. ASSUME NEW j \in Jobs, NEW i \in DOMAIN results[j], StartConfirm(j, i)
       PROVE  PipeTypeOK'
  BY <1>12 DEF StartConfirm
<1>13. ASSUME NEW j \in Jobs, NEW i \in DOMAIN results[j], EndConfirm(j, i)
       PROVE  PipeTypeOK'
  <2>1. PICK again \in Verdicts :
          results' = IF results[j][i] = "timeout" \/ again = "survived"
                       THEN [results EXCEPT ![j][i] = again] ELSE results
    BY <1>13 DEF EndConfirm
  <2>2. results' \in [Jobs -> ResultLists]
    BY <2>1, ResultListFacts DEF Statuses, Settled
  <2>3. i \in 1 .. MaxMutants /\ i \in Nat
    BY ResultListFacts
  <2> QED BY <1>13, <2>2, <2>3 DEF EndConfirm
<1>14. ASSUME NEW j \in Jobs, CleanDependents(j) \/ CleanOwn(j) PROVE PipeTypeOK'
  BY <1>14 DEF CleanDependents, CleanOwn, Stages
<1>15. CASE Finish
  BY <1>15 DEF Finish
<1>16. CASE UNCHANGED vars
  BY <1>16 DEF vars
<1> QED
  BY <1>1, <1>2, <1>3, <1>4, <1>5, <1>6, <1>7, <1>8, <1>9, <1>10, <1>11, <1>12,
     <1>13, <1>14, <1>15, <1>16 DEF Next, PipelineStep

\* The pipelines stay well typed.
THEOREM PipeTypeAlways == Spec => []PipeTypeOK
BY PipeInitType, PipeStepType, PTL DEF Spec

-----------------------------------------------------------------------------
\* What a pipeline asks slots for is a request WorkerSlots knows.
LEMMA ReqType ==
  ASSUME NEW j \in Jobs, NEW phase \in Phases, NEW s \in Suites(j),
         NEW i \in 0 .. MaxTests + MaxMutants
  PROVE  Req(j, phase, s, i) \in Requests
<1>1. s \in UNION {DOMAIN SuiteDir[k] : k \in Jobs}
  BY DEF Suites
<1>2. <<phase, s, i>> \in Tasks
  BY <1>1, PipelinesAssumption DEF PipelineTasks
<1> QED BY <1>2 DEF Req, Requests

\* Every step of the run is a step of the worker slots or leaves them alone.
LEMMA SlotRefinementStep == PipeTypeOK /\ [Next]_vars => [SlotNext]_slotVars
<1> SUFFICES ASSUME PipeTypeOK, [Next]_vars PROVE [SlotNext]_slotVars
  OBVIOUS
<1>1. ASSUME NEW j \in Jobs
      PROVE  /\ suite[j] \in Suites(j) /\ 1 \in Suites(j)
             /\ tests[j] \in 0 .. MaxTests /\ next[j] \in Nat
             /\ DOMAIN results[j] \subseteq 1 .. MaxMutants
  BY OwnSuite, ResultListFacts DEF PipeTypeOK
<1>2. MaxTests \in Nat /\ MaxMutants \in Nat
  BY PipelinesAssumption
<1>3. /\ 0 \in 0 .. MaxTests + MaxMutants
      /\ \A i \in 1 .. MaxTests : i \in 0 .. MaxTests + MaxMutants
      /\ \A i \in 1 .. MaxMutants : i \in 0 .. MaxTests + MaxMutants
  BY <1>2
<1>4. ASSUME NEW r \in Requests, Acquire(r) \/ Release(r) \/ CancelWait(r) PROVE SlotNext
  BY <1>4 DEF SlotNext
<1>5. ASSUME NEW j \in Jobs, StartSlotted(j) PROVE SlotNext
  <2>1. stage[j] \in Phases
    BY <1>5 DEF StartSlotted, Slotted, Phases
  <2>2. Req(j, stage[j], suite[j], 0) \in Requests
    BY <2>1, <1>1, <1>3, ReqType
  <2> QED BY <1>4, <1>5, <2>2 DEF StartSlotted
<1>6. ASSUME NEW j \in Jobs, EndCompile(j) \/ EndCompileCov(j) \/ EndBaseline(j) PROVE SlotNext
  <2>1. ASSUME NEW phase \in Phases PROVE Req(j, phase, suite[j], 0) \in Requests
    BY <1>1, <1>3, ReqType
  <2>2. {"compile", "compileCov", "baseline"} \subseteq Phases
    BY DEF Phases
  <2> QED BY <1>4, <1>6, <2>1, <2>2 DEF EndCompile, EndCompileCov, EndBaseline
<1>7. ASSUME NEW j \in Jobs, StartCoverage(j) PROVE SlotNext
  <2>1. next[j] \in 0 .. MaxTests + MaxMutants
    BY <1>1, <1>2, <1>7 DEF StartCoverage
  <2>2. Req(j, "coverage", suite[j], next[j]) \in Requests
    BY <2>1, <1>1, ReqType DEF Phases
  <2> QED BY <1>4, <1>7, <2>2 DEF StartCoverage
<1>8. ASSUME NEW j \in Jobs, NEW i \in 1 .. MaxTests,
             EndCoverage(j, i) \/ GiveUpCoverage(j, i)
      PROVE  SlotNext
  <2>1. Req(j, "coverage", suite[j], i) \in Requests
    BY <1>1, <1>3, ReqType DEF Phases
  <2> QED BY <1>4, <1>8, <2>1 DEF EndCoverage, GiveUpCoverage
<1>9. ASSUME NEW j \in Jobs, NEW i \in DOMAIN results[j],
             StartMutant(j, i) \/ EndMutant(j, i) \/ StartConfirm(j, i) \/ EndConfirm(j, i)
      PROVE  SlotNext
  <2>0. i \in 1 .. MaxMutants
    BY <1>1
  <2>1. i \in 0 .. MaxTests + MaxMutants
    BY <2>0, <1>2
  <2>2. Req(j, "mutant", 1, i) \in Requests /\ Req(j, "confirm", 1, i) \in Requests
    BY <2>1, <1>1, ReqType DEF Phases
  <2> QED BY <1>4, <1>9, <2>2 DEF StartMutant, EndMutant, StartConfirm, EndConfirm
<1>10. ASSUME NEW j \in Jobs,
              \/ Launch(j) \/ Lock(j) \/ Unlock(j) \/ ExitPipeline(j) \/ Rewrite(j)
              \/ CancelCoverage(j) \/ EndCoverageLoop(j) \/ Plan(j) \/ EndMutantLoop(j)
              \/ EndConfirmLoop(j) \/ CleanDependents(j) \/ CleanOwn(j)
       PROVE  UNCHANGED slotVars
  BY <1>10 DEF Launch, Lock, Unlock, ExitPipeline, Rewrite, CancelCoverage,
               EndCoverageLoop, Plan, EndMutantLoop, EndConfirmLoop, CleanDependents,
               CleanOwn, slotVars
<1>11. CASE Finish \/ UNCHANGED vars
  BY <1>11 DEF Finish, vars, slotVars
<1> QED BY <1>5, <1>6, <1>7, <1>8, <1>9, <1>10, <1>11 DEF Next, PipelineStep

\* The run obeys the protocol of the worker slots.
LEMMA RunRefinesSlots == Spec => SlotSpec
<1>1. Init => SlotInit
  BY DEF Init
<1> QED BY <1>1, PipeTypeAlways, SlotRefinementStep, PTL DEF Spec, SlotSpec

\* A verdict is confirmed with nothing running beside it, in the whole program.
THEOREM RunConfirmsAlone == Spec => []RunsAlone
BY RunRefinesSlots, RunsAloneAlways, PTL

\* The composed state is well typed.
THEOREM RunTypeAlways == Spec => []TypeOK
<1>1. LockInv => LockTypeOK
  BY DEF LockInv
<1>2. LockTypeOK /\ SlotTypeOK /\ PipeTypeOK => TypeOK
  BY DEF TypeOK
<1> QED BY <1>1, <1>2, RunRefinesLocks, LockSpecInv, RunRefinesSlots, SlotTypeAlways,
           PipeTypeAlways, PTL

-----------------------------------------------------------------------------
(* What each pipeline has outstanding, and what that says about its state. *)

\* The requests of pipeline j that hold slots or wait for them.
Own(j) == {r \in Asked : r.job = j}

\* A pipeline asks only for what the stage it is in calls for.
RequestsFit(j) ==
  \A r \in Own(j) :
    \/ /\ stage[j] \in Slotted
       /\ r = Req(j, stage[j], suite[j], 0)
    \/ /\ stage[j] = "coverage"
       /\ \E i \in 0 .. MaxTests : r = Req(j, "coverage", suite[j], i)
    \/ /\ stage[j] = "mutants"
       /\ \E i \in DOMAIN results[j] : results[j][i] = "started" /\ r = Req(j, "mutant", 1, i)
    \/ /\ stage[j] = "confirm"
       /\ \E i \in DOMAIN results[j] : IsLowest(i, Doubtful(j)) /\ r = Req(j, "confirm", 1, i)

\* A verdict that needs a re-run had one.
Confirmed(j, i) ==
  /\ results[j][i] = "timeout" => i \in reruns[j]
  /\ VerifyKills /\ results[j][i] \in {"killed", "cached"} => i \in reruns[j]

\* What the results say, stage by stage.
ResultsFit(j) ==
  /\ stage[j] \in {"queued", "locked"} => DOMAIN results[j] = {}
  /\ stage[j] \in Slotted \cup {"coverage", "plan"} =>
       \A i \in DOMAIN results[j] : results[j][i] = "pending"
  /\ stage[j] = "mutants" =>
       \A i \in DOMAIN results[j] :
         /\ results[j][i] = "started" => Req(j, "mutant", 1, i) \in Own(j)
         /\ VerifyKills => results[j][i] # "cached"
  /\ stage[j] = "confirm" =>
       \A i \in DOMAIN results[j] :
         /\ results[j][i] \in Settled
         /\ VerifyKills => results[j][i] # "cached"
         /\ i < next[j] => Confirmed(j, i)
  /\ (stage[j] \in {"cleanup", "cleanupOwn", "unlock", "done"} /\ failed[j] = "no") =>
       \A i \in DOMAIN results[j] : results[j][i] \in Settled /\ Confirmed(j, i)

Working == Slotted \cup {"coverage", "plan", "mutants", "confirm"}

\* A pipeline holds its locks from the first compile to the last clean-up.
LockFits(j) ==
  /\ stage[j] \in Working \cup {"cleanup", "cleanupOwn"} => lockPC[j] = "in"
  /\ stage[j] = "unlock" => lockPC[j] \in {"unlocking", "done"}
  /\ stage[j] = "done" => lockPC[j] \in {"out", "done"}

\* What is on disk: nothing outside the locks, and what the tests need while
\* they run.
DiskFits(j) ==
  /\ guarded[j] \subseteq Suites(j) /\ built[j] \subseteq Suites(j)
  /\ stage[j] \in {"queued", "locked", "unlock", "done"} => guarded[j] = {} /\ built[j] = {}
  /\ stage[j] \in {"queued", "locked"} \cup Working => ready[j] \subseteq guarded[j] \cap built[j]
  /\ stage[j] \in {"compileCov", "baseline", "coverage"} => suite[j] \in built[j]
  /\ stage[j] \in {"baseline", "coverage"} => suite[j] \in guarded[j]

JobInv(j) == RequestsFit(j) /\ ResultsFit(j) /\ LockFits(j) /\ DiskFits(j)

\* The run returns when every pipeline is done, with an honest exit code.
RunEnded ==
  /\ exit # Running => \A j \in Jobs : stage[j] = "done"
  /\ ExitHonest

RunInv == (\A j \in Jobs : JobInv(j)) /\ RunEnded

-----------------------------------------------------------------------------
\* What Acquire, Release and a cancelled wait of pipeline j do to what the
\* pipelines have outstanding.
LEMMA OwnAcquire ==
  ASSUME SlotInv, NEW j, NEW r \in Requests, r.job = j, Acquire(r)
  PROVE  /\ Own(j)' = Own(j) \cup {r}
         /\ \A k : k # j => Own(k)' = Own(k)
<1>1. waiters \in Seq(Requests)
  BY DEF SlotInv, Queue
<1>2. Asked' = Asked \cup {r}
  BY <1>1, AcquireAsks
<1> QED BY <1>2 DEF Own

\* A release takes the request away.
LEMMA OwnRelease ==
  ASSUME SlotInv, NEW j, NEW r, r.job = j, Release(r)
  PROVE  /\ r \in Own(j)
         /\ Own(j)' = Own(j) \ {r}
         /\ \A k : k # j => Own(k)' = Own(k)
<1>1. r \in Asked /\ Asked' = Asked \ {r}
  BY ReleaseAsked
<1> QED BY <1>1 DEF Own

\* So does a wait that is cancelled.
LEMMA OwnCancel ==
  ASSUME SlotInv, NEW j, NEW r, r.job = j, CancelWait(r)
  PROVE  /\ Own(j)' = Own(j) \ {r}
         /\ \A k : k # j => Own(k)' = Own(k)
<1>1. Asked' = Asked \ {r}
  BY CancelAsked
<1> QED BY <1>1 DEF Own

\* A step that leaves the slots alone leaves all requests alone.
LEMMA OwnUnchanged ==
  ASSUME UNCHANGED slotVars, NEW k
  PROVE  Own(k)' = Own(k)
BY DEF slotVars, Own, Asked, Waiting

\* A drained pipeline has nothing outstanding.
LEMMA DrainedOwnsNothing == ASSUME NEW j, Drained(j) PROVE Own(j) = {}
BY DEF Drained, Blocked, Own, Asked

\* The parts of a request.
LEMMA ReqParts ==
  ASSUME NEW j, NEW phase, NEW s, NEW i
  PROVE  /\ Req(j, phase, s, i).job = j
         /\ Req(j, phase, s, i).task = <<phase, s, i>>
         /\ phase = "confirm" => Req(j, phase, s, i).n = NumSlots
BY DEF Req

\* What the invariant of pipeline k is about, besides its requests.
Local(k) == <<stage[k], suite[k], next[k], ready[k], guarded[k], built[k], results[k],
              reruns[k], failed[k], lockPC[k]>>

\* A step of one pipeline changes nothing of another's.
LEMMA LocalOthers ==
  ASSUME PipeTypeOK, LockInv, NEW j \in Jobs, PipelineStep(j), NEW k \in Jobs, k # j
  PROVE  Local(k)' = Local(k)
<1> USE DEF GoTo, setupVars, diskVars, verdictVars, pipeVars, lockVars
<1>0. /\ stage \in [Jobs -> Stages] /\ suite \in [Jobs -> Nat \ {0}] /\ next \in [Jobs -> Nat]
      /\ ready \in [Jobs -> SUBSET Nat] /\ guarded \in [Jobs -> SUBSET Nat]
      /\ built \in [Jobs -> SUBSET Nat] /\ results \in [Jobs -> ResultLists]
      /\ reruns \in [Jobs -> SUBSET (1 .. MaxMutants)] /\ failed \in [Jobs -> FailureStages]
      /\ lockPC \in [Jobs -> LockPCs]
  BY DEF PipeTypeOK, LockInv, LockTypeOK
<1> SUFFICES /\ stage'[k] = stage[k] /\ suite'[k] = suite[k] /\ next'[k] = next[k]
             /\ ready'[k] = ready[k] /\ guarded'[k] = guarded[k] /\ built'[k] = built[k]
             /\ results'[k] = results[k] /\ reruns'[k] = reruns[k] /\ failed'[k] = failed[k]
             /\ lockPC'[k] = lockPC[k]
  BY DEF Local
<1>s. SuiteReady(j) \/ SuiteFails(j) =>
        /\ stage'[k] = stage[k] /\ suite'[k] = suite[k]
        /\ ready'[k] = ready[k] /\ failed'[k] = failed[k]
  BY <1>0 DEF SuiteReady, SuiteFails, AfterSuite
<1>1. CASE Launch(j) \/ Lock(j) \/ Unlock(j) \/ ExitPipeline(j)
  BY <1>0, <1>1 DEF Launch, Lock, Unlock, ExitPipeline, BeginLock, TakeLock, ReleaseLock
<1>2. CASE Rewrite(j) \/ StartSlotted(j)
  BY <1>0, <1>2 DEF Rewrite, StartSlotted
<1>3. CASE EndCompile(j)
  <2>1. /\ UNCHANGED <<next, guarded, results, reruns, lockPC>>
        /\ built'[k] = built[k]
    BY <1>0, <1>3 DEF EndCompile
  <2>2. /\ stage'[k] = stage[k] /\ suite'[k] = suite[k]
        /\ ready'[k] = ready[k] /\ failed'[k] = failed[k]
    BY <1>0, <1>3, <1>s DEF EndCompile
  <2> QED BY <2>1, <2>2
<1>4. CASE EndCompileCov(j)
  <2>1. /\ UNCHANGED <<next, built, results, reruns, lockPC>>
        /\ guarded'[k] = guarded[k]
    BY <1>0, <1>4 DEF EndCompileCov
  <2>2. /\ stage'[k] = stage[k] /\ suite'[k] = suite[k]
        /\ ready'[k] = ready[k] /\ failed'[k] = failed[k]
    BY <1>0, <1>4, <1>s DEF EndCompileCov
  <2> QED BY <2>1, <2>2
<1>5. CASE EndBaseline(j)
  <2>1. /\ UNCHANGED <<guarded, built, results, reruns, lockPC>>
        /\ next'[k] = next[k]
    BY <1>0, <1>5 DEF EndBaseline
  <2>2. /\ stage'[k] = stage[k] /\ suite'[k] = suite[k]
        /\ ready'[k] = ready[k] /\ failed'[k] = failed[k]
    BY <1>0, <1>5, <1>s DEF EndBaseline
  <2> QED BY <2>1, <2>2
<1>6. CASE StartCoverage(j) \/ CancelCoverage(j) \/ (\E i \in 1 .. MaxTests : EndCoverage(j, i) \/ GiveUpCoverage(j, i))
  BY <1>0, <1>6 DEF StartCoverage, CancelCoverage, EndCoverage, GiveUpCoverage
<1>7. CASE EndCoverageLoop(j)
  <2>1. /\ UNCHANGED <<guarded, built, results, reruns, lockPC>>
        /\ next'[k] = next[k] /\ (SuiteReady(j) \/ SuiteFails(j))
    BY <1>0, <1>7 DEF EndCoverageLoop
  <2> QED BY <2>1, <1>s
<1>8. CASE Plan(j) \/ EndMutantLoop(j) \/ EndConfirmLoop(j)
  BY <1>0, <1>8 DEF Plan, EndMutantLoop, EndConfirmLoop
<1>9. ASSUME NEW i \in DOMAIN results[j], StartMutant(j, i) \/ EndMutant(j, i) \/ StartConfirm(j, i)
      PROVE  Local(k)' = Local(k)
  BY <1>0, <1>9 DEF StartMutant, EndMutant, StartConfirm, Local
<1>10. ASSUME NEW i \in DOMAIN results[j], EndConfirm(j, i) PROVE Local(k)' = Local(k)
  BY <1>0, <1>10 DEF EndConfirm, Local
<1>11. CASE CleanDependents(j) \/ CleanOwn(j)
  BY <1>0, <1>11 DEF CleanDependents, CleanOwn, BeginUnlock
<1> QED BY <1>1, <1>2, <1>3, <1>4, <1>5, <1>6, <1>7, <1>8, <1>9, <1>10, <1>11 DEF PipelineStep, Local

\* Nor what another has outstanding.
LEMMA OwnOthers ==
  ASSUME PipeTypeOK, SlotInv, NEW j \in Jobs, PipelineStep(j), NEW k, k # j
  PROVE  Own(k)' = Own(k)
<1>1. /\ suite[j] \in Suites(j) /\ 1 \in Suites(j)
      /\ tests[j] \in 0 .. MaxTests /\ next[j] \in Nat
      /\ DOMAIN results[j] \subseteq 1 .. MaxMutants
  BY OwnSuite, ResultListFacts DEF PipeTypeOK
<1>2. /\ 0 \in 0 .. MaxTests + MaxMutants
      /\ \A i \in 1 .. MaxTests : i \in 0 .. MaxTests + MaxMutants
      /\ \A i \in 1 .. MaxMutants : i \in 0 .. MaxTests + MaxMutants
  BY PipelinesAssumption
<1>a. ASSUME NEW phase \in Phases, NEW s \in Suites(j), NEW i \in 0 .. MaxTests + MaxMutants,
             Acquire(Req(j, phase, s, i))
      PROVE  Own(k)' = Own(k)
  <2> DEFINE r == Req(j, phase, s, i)
  <2>1. r \in Requests /\ r.job = j /\ Acquire(r)
    BY <1>a, ReqType, ReqParts
  <2> HIDE DEF r
  <2> QED BY <2>1, OwnAcquire
<1>r. ASSUME NEW phase, NEW s, NEW i, Release(Req(j, phase, s, i)) PROVE Own(k)' = Own(k)
  <2> DEFINE r == Req(j, phase, s, i)
  <2>1. r.job = j /\ Release(r)
    BY <1>r, ReqParts
  <2> HIDE DEF r
  <2> QED BY <2>1, OwnRelease
<1>c. ASSUME NEW phase, NEW s, NEW i, CancelWait(Req(j, phase, s, i)) PROVE Own(k)' = Own(k)
  <2> DEFINE r == Req(j, phase, s, i)
  <2>1. r.job = j /\ CancelWait(r)
    BY <1>c, ReqParts
  <2> HIDE DEF r
  <2> QED BY <2>1, OwnCancel
<1>3. CASE \/ Launch(j) \/ Lock(j) \/ Unlock(j) \/ ExitPipeline(j) \/ Rewrite(j)
           \/ CancelCoverage(j) \/ EndCoverageLoop(j) \/ Plan(j) \/ EndMutantLoop(j)
           \/ EndConfirmLoop(j) \/ CleanDependents(j) \/ CleanOwn(j)
  <2>1. UNCHANGED slotVars
    BY <1>3 DEF Launch, Lock, Unlock, ExitPipeline, Rewrite, CancelCoverage,
                EndCoverageLoop, Plan, EndMutantLoop, EndConfirmLoop, CleanDependents,
                CleanOwn, slotVars
  <2> QED BY <2>1, OwnUnchanged
<1>4. CASE StartSlotted(j)
  <2>1. stage[j] \in Phases /\ Acquire(Req(j, stage[j], suite[j], 0))
    BY <1>4 DEF StartSlotted, Slotted, Phases
  <2> QED BY <2>1, <1>1, <1>2, <1>a
<1>5. CASE EndCompile(j) \/ EndCompileCov(j) \/ EndBaseline(j)
  BY <1>5, <1>r DEF EndCompile, EndCompileCov, EndBaseline
<1>6. CASE StartCoverage(j)
  <2>1. next[j] \in 0 .. MaxTests + MaxMutants
    BY <1>1, <1>6, PipelinesAssumption DEF StartCoverage
  <2>2. "coverage" \in Phases /\ Acquire(Req(j, "coverage", suite[j], next[j]))
    BY <1>6 DEF StartCoverage, Phases
  <2> QED BY <2>1, <2>2, <1>1, <1>a
<1>7. ASSUME NEW i \in 1 .. MaxTests, EndCoverage(j, i) \/ GiveUpCoverage(j, i)
      PROVE  Own(k)' = Own(k)
  BY <1>7, <1>r, <1>c DEF EndCoverage, GiveUpCoverage
<1>8. ASSUME NEW i \in DOMAIN results[j], StartMutant(j, i) \/ StartConfirm(j, i)
      PROVE  Own(k)' = Own(k)
  <2>1. i \in 0 .. MaxTests + MaxMutants
    BY <1>1, <1>2
  <2>2. "mutant" \in Phases /\ "confirm" \in Phases
    BY DEF Phases
  <2>3. Acquire(Req(j, "mutant", 1, i)) \/ Acquire(Req(j, "confirm", 1, i))
    BY <1>8 DEF StartMutant, StartConfirm
  <2> QED BY <2>1, <2>2, <2>3, <1>1, <1>a
<1>9. ASSUME NEW i \in DOMAIN results[j], EndMutant(j, i) \/ EndConfirm(j, i)
      PROVE  Own(k)' = Own(k)
  BY <1>9, <1>r DEF EndMutant, EndConfirm
<1> QED BY <1>3, <1>4, <1>5, <1>6, <1>7, <1>8, <1>9 DEF PipelineStep

\* So its invariant is not at risk.
LEMMA JobFrame ==
  ASSUME NEW k \in Jobs, JobInv(k), Local(k)' = Local(k), Own(k)' = Own(k)
  PROVE  JobInv(k)'
<1>1. /\ stage'[k] = stage[k] /\ suite'[k] = suite[k] /\ next'[k] = next[k]
      /\ ready'[k] = ready[k] /\ guarded'[k] = guarded[k] /\ built'[k] = built[k]
      /\ results'[k] = results[k] /\ reruns'[k] = reruns[k] /\ failed'[k] = failed[k]
      /\ lockPC'[k] = lockPC[k]
  BY DEF Local
<1>2. Doubtful(k)' = Doubtful(k)
  BY <1>1 DEF Doubtful
<1>3. RequestsFit(k)'
  BY <1>1, <1>2 DEF JobInv, RequestsFit, IsLowest, Req
<1>4. ResultsFit(k)'
  BY <1>1 DEF JobInv, ResultsFit, Confirmed, Req
<1>5. LockFits(k)' /\ DiskFits(k)'
  BY <1>1 DEF JobInv, LockFits, DiskFits
<1> QED BY <1>3, <1>4, <1>5 DEF JobInv

-----------------------------------------------------------------------------
(* The steps of pipeline j, and its own invariant.                         *)

\* With no request left, a stage asks for nothing it should not.
LEMMA NothingAsked == ASSUME NEW j, Own(j)' = {} PROVE RequestsFit(j)'
BY DEF RequestsFit

\* Stages in which a pipeline has nothing outstanding.
LEMMA QuietStages ==
  ASSUME NEW j, RequestsFit(j), stage[j] \notin Slotted \cup {"coverage", "mutants", "confirm"}
  PROVE  Own(j) = {}
BY DEF RequestsFit

\* In the stages that hold one slot, the only request is the one of the stage.
LEMMA SlottedOwnsOne ==
  ASSUME NEW j, RequestsFit(j), stage[j] \in Slotted
  PROVE  Own(j) \subseteq {Req(j, stage[j], suite[j], 0)}
BY DEF RequestsFit, Slotted

\* lock and unlock around runPackage.
LEMMA LockingKeeps ==
  ASSUME PipeTypeOK, LockInv, NEW j \in Jobs, JobInv(j),
         Launch(j) \/ Lock(j) \/ Unlock(j) \/ ExitPipeline(j)
  PROVE  JobInv(j)'
<1> USE DEF GoTo, setupVars, diskVars, verdictVars, pipeVars, lockVars
<1>0. stage \in [Jobs -> Stages] /\ lockPC \in [Jobs -> LockPCs]
  BY DEF PipeTypeOK, LockInv, LockTypeOK
<1>1. UNCHANGED slotVars /\ UNCHANGED <<suite, next, ready, guarded, built, results, reruns, failed>>
  BY DEF Launch, Lock, Unlock, ExitPipeline
<1>2. Own(j)' = Own(j)
  BY <1>1, OwnUnchanged
<1>3. CASE Launch(j)
  <2>1. stage[j] = "queued" /\ stage'[j] = "locked"
    BY <1>0, <1>3 DEF Launch
  <2>2. Own(j)' = {}
    BY <1>2, <2>1, QuietStages DEF JobInv, Slotted
  <2>3. ResultsFit(j)'
    BY <1>1, <2>1 DEF JobInv, ResultsFit, Slotted
  <2>4. LockFits(j)' /\ DiskFits(j)'
    BY <1>1, <2>1 DEF JobInv, LockFits, DiskFits, Working, Slotted
  <2> QED BY <2>2, <2>3, <2>4, NothingAsked DEF JobInv
<1>4. CASE ExitPipeline(j)
  <2>1. stage[j] = "unlock" /\ stage'[j] = "done" /\ lockPC'[j] = "done"
    BY <1>0, <1>4 DEF ExitPipeline
  <2>2. Own(j)' = {}
    BY <1>2, <2>1, QuietStages DEF JobInv, Slotted
  <2>3. ResultsFit(j)'
    BY <1>1, <2>1 DEF JobInv, ResultsFit, Slotted, Confirmed
  <2>4. LockFits(j)' /\ DiskFits(j)'
    BY <1>1, <2>1 DEF JobInv, LockFits, DiskFits, Working, Slotted
  <2> QED BY <2>2, <2>3, <2>4, NothingAsked DEF JobInv
<1>5. CASE Lock(j) \/ Unlock(j)
  <2>1. stage' = stage
    BY <1>5 DEF Lock, Unlock
  <2>2. \/ lockPC[j] = "locking"
        \/ lockPC[j] = "unlocking" /\ lockPC'[j] \in {"unlocking", "done"}
    BY <1>0, <1>5 DEF Lock, Unlock, TakeLock, ReleaseLock
  <2>3. LockFits(j)'
    BY <2>1, <2>2 DEF JobInv, LockFits
  <2>4. Doubtful(j)' = Doubtful(j)
    BY <1>1 DEF Doubtful
  <2>5. RequestsFit(j)'
    BY <1>1, <1>2, <2>1, <2>4 DEF JobInv, RequestsFit, IsLowest, Req
  <2>6. ResultsFit(j)'
    BY <1>1, <1>2, <2>1 DEF JobInv, ResultsFit, Confirmed, Req
  <2>7. DiskFits(j)'
    BY <1>1, <2>1 DEF JobInv, DiskFits
  <2> QED BY <2>3, <2>5, <2>6, <2>7 DEF JobInv
<1> QED BY <1>3, <1>4, <1>5

\* Rewriting the package.
LEMMA RewriteKeeps ==
  ASSUME PipeTypeOK, LockInv, NEW j \in Jobs, JobInv(j), Rewrite(j)
  PROVE  JobInv(j)'
<1>0. stage \in [Jobs -> Stages] /\ failed \in [Jobs -> FailureStages] /\ results \in [Jobs -> ResultLists]
  BY DEF PipeTypeOK
<1>1. /\ stage[j] = "locked" /\ lockPC'[j] = "in"
      /\ UNCHANGED slotVars /\ UNCHANGED <<suite, next, ready, guarded, built, reruns>>
  BY DEF Rewrite, setupVars, diskVars, lockVars
<1>2. Own(j)' = {}
  BY <1>1, OwnUnchanged, QuietStages DEF JobInv, Slotted
<1>3. \/ stage'[j] = "cleanup" /\ failed'[j] = "rewrite"
      \/ stage'[j] = "cleanup" /\ DOMAIN results'[j] = {}
      \/ stage'[j] = "compile" /\ \A i \in DOMAIN results'[j] : results'[j][i] = "pending"
  <2>1. CASE failed' = [failed EXCEPT ![j] = "rewrite"] /\ GoTo(j, "cleanup")
    BY <1>0, <2>1 DEF GoTo
  <2>2. ASSUME NEW n \in MutantCounts[j],
               results' = [results EXCEPT ![j] = [i \in 1 .. n |-> "pending"]],
               GoTo(j, IF n = 0 THEN "cleanup" ELSE "compile")
        PROVE  \/ stage'[j] = "cleanup" /\ DOMAIN results'[j] = {}
               \/ stage'[j] = "compile" /\ \A i \in DOMAIN results'[j] : results'[j][i] = "pending"
    <3>1. n \in 0 .. MaxMutants
      BY PipelinesAssumption
    <3>2. results'[j] = [i \in 1 .. n |-> "pending"] /\ stage'[j] = IF n = 0 THEN "cleanup" ELSE "compile"
      BY <1>0, <2>2 DEF GoTo
    <3> QED BY <3>1, <3>2
  <2> QED BY <2>1, <2>2 DEF Rewrite
<1>4. ResultsFit(j)'
  BY <1>3 DEF ResultsFit, Slotted
<1>5. LockFits(j)' /\ DiskFits(j)'
  BY <1>1, <1>3 DEF JobInv, LockFits, DiskFits, Working, Slotted
<1> QED BY <1>2, <1>4, <1>5, NothingAsked DEF JobInv

\* Moving on to the next suite, to the mutants, or to the clean-up.
LEMMA SuiteMoves ==
  ASSUME PipeTypeOK, NEW j \in Jobs, stage[j] \in Slotted \cup {"coverage"},
         SuiteReady(j) \/ SuiteFails(j)
  PROVE  /\ stage'[j] \in {"compile", "plan", "cleanup"}
         /\ stage'[j] = "cleanup" => failed'[j] # "no"
         /\ ready'[j] \subseteq ready[j] \cup {suite[j]}
         /\ SuiteFails(j) => ready'[j] = ready[j]
<1>0. /\ stage \in [Jobs -> Stages] /\ failed \in [Jobs -> FailureStages]
      /\ ready \in [Jobs -> SUBSET Nat]
  BY DEF PipeTypeOK
<1>1. AfterSuite(j) => stage'[j] \in {"compile", "plan"}
  BY <1>0 DEF AfterSuite, GoTo
<1>2. FailureStage(stage[j]) # "no"
  BY DEF FailureStage, Slotted
<1>3. CASE SuiteReady(j)
  <2>1. stage'[j] \in {"compile", "plan"} /\ ready'[j] = ready[j] \cup {suite[j]}
    BY <1>0, <1>1, <1>3 DEF SuiteReady
  <2>2. SuiteFails(j) => ready'[j] = ready[j]
    BY DEF SuiteFails
  <2> QED BY <2>1, <2>2
<1>4. CASE SuiteFails(j)
  <2>1. ready' = ready
    BY <1>4 DEF SuiteFails
  <2>2. CASE suite[j] = 1
    BY <1>0, <1>2, <1>4, <2>1, <2>2 DEF SuiteFails, GoTo
  <2>3. CASE suite[j] # 1
    BY <1>1, <1>4, <2>1, <2>3 DEF SuiteFails
  <2> QED BY <2>2, <2>3
<1> QED BY <1>3, <1>4

\* Whichever it is, the invariant is kept once the suite's requests are gone.
LEMMA NextSuiteKeeps ==
  ASSUME NEW j \in Jobs, JobInv(j), stage[j] \in Slotted \cup {"coverage"},
         stage'[j] \in {"compile", "plan", "cleanup"},
         stage'[j] = "cleanup" => failed'[j] # "no",
         Own(j)' = {}, results'[j] = results[j], lockPC'[j] = lockPC[j],
         guarded'[j] \subseteq Suites(j), built'[j] \subseteq Suites(j),
         ready'[j] \subseteq guarded'[j] \cap built'[j]
  PROVE  JobInv(j)'
<1>1. ResultsFit(j)'
  BY DEF JobInv, ResultsFit, Slotted
<1>2. LockFits(j)'
  BY DEF JobInv, LockFits, Working, Slotted
<1>3. DiskFits(j)'
  BY DEF DiskFits, Working, Slotted
<1> QED BY <1>1, <1>2, <1>3, NothingAsked DEF JobInv

\* slotted asks for the request of its stage.
LEMMA StartSlottedKeeps ==
  ASSUME PipeTypeOK, SlotInv, NEW j \in Jobs, JobInv(j), StartSlotted(j)
  PROVE  JobInv(j)'
<1> DEFINE r == Req(j, stage[j], suite[j], 0)
<1>1. stage[j] \in Slotted /\ Acquire(r) /\ UNCHANGED <<lockVars, pipeVars>>
  BY DEF StartSlotted
<1>2. r \in Requests /\ r.job = j
  <2>1. stage[j] \in Phases /\ suite[j] \in Suites(j) /\ 0 \in 0 .. MaxTests + MaxMutants
    BY <1>1, PipelinesAssumption DEF PipeTypeOK, Slotted, Phases
  <2> QED BY <2>1, ReqType, ReqParts
<1>3. Own(j)' = Own(j) \cup {r}
  <2> HIDE DEF r
  <2> QED BY <1>1, <1>2, OwnAcquire
<1>4. UNCHANGED <<stage, suite, next, ready, guarded, built, results, reruns, failed, lockPC>>
  BY <1>1 DEF pipeVars, setupVars, diskVars, verdictVars, lockVars
<1>5. RequestsFit(j)'
  <2>1. Own(j)' \subseteq {r}
    BY <1>1, <1>3, SlottedOwnsOne DEF JobInv
  <2>2. r = Req(j, stage[j], suite[j], 0)'
    BY <1>4 DEF Req
  <2>3. stage'[j] \in Slotted
    BY <1>1, <1>4
  <2> HIDE DEF r
  <2> QED BY <2>1, <2>2, <2>3 DEF RequestsFit
<1>6. ResultsFit(j)'
  BY <1>1, <1>4 DEF JobInv, ResultsFit, Slotted
<1>7. LockFits(j)' /\ DiskFits(j)'
  BY <1>4 DEF JobInv, LockFits, DiskFits
<1> QED BY <1>5, <1>6, <1>7 DEF JobInv

\* When the slot of a stage is returned, nothing is outstanding.
LEMMA SlottedEnds ==
  ASSUME SlotInv, NEW j \in Jobs, JobInv(j), stage[j] \in Slotted,
         Release(Req(j, stage[j], suite[j], 0))
  PROVE  Own(j)' = {}
<1> DEFINE r == Req(j, stage[j], suite[j], 0)
<1>1. Own(j) \subseteq {r}
  BY SlottedOwnsOne DEF JobInv
<1>2. r.job = j /\ Release(r)
  BY ReqParts
<1> HIDE DEF r
<1>3. Own(j)' = Own(j) \ {r}
  BY <1>2, OwnRelease
<1> QED BY <1>1, <1>3

\* The end of a compile of the schema binary.
LEMMA EndCompileKeeps ==
  ASSUME PipeTypeOK, SlotInv, NEW j \in Jobs, JobInv(j), EndCompile(j)
  PROVE  JobInv(j)'
<1>0. /\ stage \in [Jobs -> Stages] /\ built \in [Jobs -> SUBSET Nat]
      /\ suite[j] \in Suites(j)
  BY DEF PipeTypeOK
<1>1. /\ stage[j] = "compile" /\ Release(Req(j, "compile", suite[j], 0))
      /\ results' = results /\ guarded' = guarded /\ lockPC' = lockPC
  BY DEF EndCompile, verdictVars, lockVars
<1>2. Own(j)' = {}
  BY <1>1, SlottedEnds DEF Slotted
<1>3. CASE SuiteFails(j) /\ UNCHANGED built
  <2>1. /\ stage'[j] \in {"compile", "plan", "cleanup"}
        /\ stage'[j] = "cleanup" => failed'[j] # "no"
        /\ ready'[j] = ready[j]
    BY <1>1, <1>3, SuiteMoves DEF Slotted
  <2>2. /\ guarded'[j] \subseteq Suites(j) /\ built'[j] \subseteq Suites(j)
        /\ ready'[j] \subseteq guarded'[j] \cap built'[j]
    BY <1>1, <1>3, <2>1 DEF JobInv, DiskFits, Working, Slotted
  <2> QED BY <1>1, <1>2, <2>1, <2>2, NextSuiteKeeps DEF Slotted
<1>4. CASE ~(SuiteFails(j) /\ UNCHANGED built)
  <2>1. /\ stage'[j] = "compileCov" /\ built'[j] = built[j] \cup {suite[j]}
        /\ suite' = suite /\ ready' = ready
    BY <1>0, <1>4 DEF EndCompile, GoTo
  <2>2. ResultsFit(j)' /\ LockFits(j)'
    BY <1>1, <2>1 DEF JobInv, ResultsFit, LockFits, Working, Slotted
  <2>3. DiskFits(j)'
    BY <1>0, <1>1, <2>1 DEF JobInv, DiskFits, Working, Slotted
  <2> QED BY <1>2, <2>2, <2>3, NothingAsked DEF JobInv
<1> QED BY <1>3, <1>4

\* The end of a compile of the coverage binary: the directory is guarded.
LEMMA EndCompileCovKeeps ==
  ASSUME PipeTypeOK, SlotInv, NEW j \in Jobs, JobInv(j), EndCompileCov(j)
  PROVE  JobInv(j)'
<1>0. /\ stage \in [Jobs -> Stages] /\ guarded \in [Jobs -> SUBSET Nat]
      /\ suite[j] \in Suites(j)
  BY DEF PipeTypeOK
<1>1. /\ stage[j] = "compileCov" /\ Release(Req(j, "compileCov", suite[j], 0))
      /\ results' = results /\ built' = built /\ lockPC' = lockPC
  BY DEF EndCompileCov, verdictVars, lockVars
<1>2. Own(j)' = {}
  BY <1>1, SlottedEnds DEF Slotted
<1>d. /\ guarded[j] \subseteq Suites(j) /\ built[j] \subseteq Suites(j)
      /\ ready[j] \subseteq guarded[j] \cap built[j] /\ suite[j] \in built[j]
  BY <1>1 DEF JobInv, DiskFits, Working, Slotted
<1>3. CASE SuiteFails(j) /\ UNCHANGED guarded
  <2>1. /\ stage'[j] \in {"compile", "plan", "cleanup"}
        /\ stage'[j] = "cleanup" => failed'[j] # "no"
        /\ ready'[j] = ready[j]
    BY <1>1, <1>3, SuiteMoves DEF Slotted
  <2> QED BY <1>1, <1>2, <1>3, <1>d, <2>1, NextSuiteKeeps DEF Slotted
<1>4. CASE ~(SuiteFails(j) /\ UNCHANGED guarded)
  <2>1. guarded'[j] = guarded[j] \cup {suite[j]}
    BY <1>0, <1>4 DEF EndCompileCov
  <2>2. CASE SuiteReady(j)
    <3>1. /\ stage'[j] \in {"compile", "plan", "cleanup"}
          /\ stage'[j] = "cleanup" => failed'[j] # "no"
          /\ ready'[j] \subseteq ready[j] \cup {suite[j]}
      BY <1>1, <2>2, SuiteMoves DEF Slotted
    <3>2. /\ guarded'[j] \subseteq Suites(j) /\ built'[j] \subseteq Suites(j)
          /\ ready'[j] \subseteq guarded'[j] \cap built'[j]
      BY <1>0, <1>1, <1>d, <2>1, <3>1
    <3> QED BY <1>1, <1>2, <3>1, <3>2, NextSuiteKeeps DEF Slotted
  <2>3. CASE ~SuiteReady(j)
    <3>1. stage'[j] = "baseline" /\ suite' = suite /\ ready' = ready
      BY <1>0, <1>4, <2>3 DEF EndCompileCov, GoTo
    <3>2. ResultsFit(j)' /\ LockFits(j)'
      BY <1>1, <3>1 DEF JobInv, ResultsFit, LockFits, Working, Slotted
    <3>3. DiskFits(j)'
      BY <1>0, <1>1, <1>d, <2>1, <3>1 DEF DiskFits, Working, Slotted
    <3> QED BY <1>2, <3>2, <3>3, NothingAsked DEF JobInv
  <2> QED BY <2>2, <2>3
<1> QED BY <1>3, <1>4

\* The end of the baseline.
LEMMA EndBaselineKeeps ==
  ASSUME PipeTypeOK, SlotInv, NEW j \in Jobs, JobInv(j), EndBaseline(j)
  PROVE  JobInv(j)'
<1>0. stage \in [Jobs -> Stages]
  BY DEF PipeTypeOK
<1>1. /\ stage[j] = "baseline" /\ Release(Req(j, "baseline", suite[j], 0))
      /\ results' = results /\ guarded' = guarded /\ built' = built /\ lockPC' = lockPC
  BY DEF EndBaseline, verdictVars, diskVars, lockVars
<1>2. Own(j)' = {}
  BY <1>1, SlottedEnds DEF Slotted
<1>d. /\ guarded[j] \subseteq Suites(j) /\ built[j] \subseteq Suites(j)
      /\ ready[j] \subseteq guarded[j] \cap built[j]
      /\ suite[j] \in built[j] /\ suite[j] \in guarded[j]
  BY <1>1 DEF JobInv, DiskFits, Working, Slotted
<1>3. CASE SuiteFails(j)
  <2>1. /\ stage'[j] \in {"compile", "plan", "cleanup"}
        /\ stage'[j] = "cleanup" => failed'[j] # "no"
        /\ ready'[j] = ready[j]
    BY <1>1, <1>3, SuiteMoves DEF Slotted
  <2> QED BY <1>1, <1>2, <1>d, <2>1, NextSuiteKeeps DEF Slotted
<1>4. CASE ~SuiteFails(j)
  <2>1. stage'[j] = "coverage" /\ suite' = suite /\ ready' = ready
    BY <1>0, <1>4 DEF EndBaseline, GoTo
  <2>2. ResultsFit(j)' /\ LockFits(j)'
    BY <1>1, <2>1 DEF JobInv, ResultsFit, LockFits, Working, Slotted
  <2>3. DiskFits(j)'
    BY <1>1, <1>d, <2>1 DEF DiskFits, Working, Slotted
  <2> QED BY <1>2, <2>2, <2>3, NothingAsked DEF JobInv
<1> QED BY <1>3, <1>4

\* The coverage loop: its requests are those of the suite's tests.
LEMMA CoverageKeeps ==
  ASSUME PipeTypeOK, SlotInv, NEW j \in Jobs, JobInv(j), stage[j] = "coverage",
         UNCHANGED <<stage, suite, ready, guarded, built, results, reruns, failed, lockPC>>,
         \A r \in Own(j)' \ Own(j) :
           \E i \in 0 .. MaxTests : r = Req(j, "coverage", suite[j], i)
  PROVE  JobInv(j)'
<1>1. RequestsFit(j)'
  <2> SUFFICES ASSUME NEW r \in Own(j)'
               PROVE  \E i \in 0 .. MaxTests : r = Req(j, "coverage", suite[j], i)
    BY DEF RequestsFit, Req
  <2> QED BY DEF JobInv, RequestsFit, Slotted
<1>2. ResultsFit(j)' /\ LockFits(j)' /\ DiskFits(j)'
  BY DEF JobInv, ResultsFit, LockFits, DiskFits
<1> QED BY <1>1, <1>2 DEF JobInv

\* A coverage run starts, ends or gives up waiting, or the loop is cancelled.
LEMMA CoverageStepKeeps ==
  ASSUME PipeTypeOK, SlotInv, NEW j \in Jobs, JobInv(j),
         \/ StartCoverage(j) \/ CancelCoverage(j)
         \/ \E i \in 1 .. MaxTests : EndCoverage(j, i) \/ GiveUpCoverage(j, i)
  PROVE  JobInv(j)'
<1> USE DEF setupVars, diskVars, verdictVars, pipeVars, lockVars
<1>1. CASE StartCoverage(j)
  <2> DEFINE r == Req(j, "coverage", suite[j], next[j])
  <2>1. /\ stage[j] = "coverage" /\ Acquire(r)
        /\ next[j] <= tests[j]
        /\ UNCHANGED <<stage, suite, ready, guarded, built, results, reruns, failed, lockPC>>
    BY <1>1 DEF StartCoverage
  <2>2. next[j] \in 0 .. MaxTests + MaxMutants /\ tests[j] \in 0 .. MaxTests /\ suite[j] \in Suites(j)
    BY <2>1, PipelinesAssumption DEF PipeTypeOK
  <2>3. r \in Requests /\ r.job = j
    BY <2>2, ReqType, ReqParts DEF Phases
  <2>4. next[j] \in 0 .. MaxTests
    BY <2>1, <2>2, PipelinesAssumption
  <2> HIDE DEF r
  <2>5. Own(j)' = Own(j) \cup {r}
    BY <2>1, <2>3, OwnAcquire
  <2> QED BY <2>1, <2>4, <2>5, CoverageKeeps DEF r
<1>2. CASE CancelCoverage(j)
  <2>1. UNCHANGED slotVars /\ Local(j)' = Local(j)
    BY <1>2 DEF CancelCoverage, Local
  <2> QED BY <2>1, OwnUnchanged, JobFrame
<1>3. ASSUME NEW i \in 1 .. MaxTests, EndCoverage(j, i) \/ GiveUpCoverage(j, i)
      PROVE  JobInv(j)'
  <2> DEFINE r == Req(j, "coverage", suite[j], i)
  <2>1. /\ stage[j] = "coverage" /\ (Release(r) \/ CancelWait(r))
        /\ UNCHANGED <<stage, suite, ready, guarded, built, results, reruns, failed, lockPC>>
    BY <1>3 DEF EndCoverage, GiveUpCoverage
  <2>2. r.job = j
    BY ReqParts
  <2> HIDE DEF r
  <2>3. Own(j)' = Own(j) \ {r}
    BY <2>1, <2>2, OwnRelease, OwnCancel
  <2> QED BY <2>1, <2>3, CoverageKeeps
<1> QED BY <1>1, <1>2, <1>3

\* The coverage loop returns once its goroutines have.
LEMMA EndCoverageLoopKeeps ==
  ASSUME PipeTypeOK, SlotInv, NEW j \in Jobs, JobInv(j), EndCoverageLoop(j)
  PROVE  JobInv(j)'
<1>1. /\ stage[j] = "coverage" /\ Drained(j) /\ UNCHANGED slotVars
      /\ results' = results /\ guarded' = guarded /\ built' = built /\ lockPC' = lockPC
      /\ SuiteReady(j) \/ SuiteFails(j)
  BY DEF EndCoverageLoop, verdictVars, diskVars, lockVars
<1>2. Own(j)' = {}
  BY <1>1, DrainedOwnsNothing, OwnUnchanged
<1>3. /\ guarded[j] \subseteq Suites(j) /\ built[j] \subseteq Suites(j)
      /\ ready[j] \subseteq guarded[j] \cap built[j]
      /\ suite[j] \in built[j] /\ suite[j] \in guarded[j]
  BY <1>1 DEF JobInv, DiskFits, Working, Slotted
<1>4. /\ stage'[j] \in {"compile", "plan", "cleanup"}
      /\ stage'[j] = "cleanup" => failed'[j] # "no"
      /\ ready'[j] \subseteq ready[j] \cup {suite[j]}
  BY <1>1, SuiteMoves
<1>5. ready'[j] \subseteq guarded'[j] \cap built'[j]
  BY <1>1, <1>3, <1>4
<1> QED BY <1>1, <1>2, <1>3, <1>4, <1>5, NextSuiteKeeps

\* The indices of a package's mutants.
LEMMA MutantIndices ==
  ASSUME PipeTypeOK, NEW j \in Jobs
  PROVE  /\ results \in [Jobs -> ResultLists]
         /\ \A i \in DOMAIN results[j] : i \in Nat /\ 1 <= i /\ results[j][i] \in Statuses
         /\ next[j] \in Nat
<1>1. results \in [Jobs -> ResultLists] /\ next[j] \in Nat /\ results[j] \in ResultLists
  BY DEF PipeTypeOK
<1>2. /\ DOMAIN results[j] \subseteq 1 .. MaxMutants
      /\ \A i \in DOMAIN results[j] : results[j][i] \in Statuses
  BY <1>1, ResultListFacts
<1> QED BY <1>1, <1>2, PipelinesAssumption

\* Writing the status of mutant i.
LEMMA StatusWritten ==
  ASSUME PipeTypeOK, NEW j \in Jobs, NEW i \in DOMAIN results[j], NEW st,
         results' = [results EXCEPT ![j][i] = st]
  PROVE  /\ DOMAIN results'[j] = DOMAIN results[j]
         /\ results'[j][i] = st
         /\ \A k \in DOMAIN results[j] : k # i => results'[j][k] = results[j][k]
<1>1. results \in [Jobs -> ResultLists]
  BY DEF PipeTypeOK
<1>2. results'[j] = [results[j] EXCEPT ![i] = st]
  BY <1>1
<1> QED BY <1>2

\* Planning which mutants to run.
LEMMA PlanKeeps ==
  ASSUME PipeTypeOK, NEW j \in Jobs, JobInv(j), Plan(j)
  PROVE  JobInv(j)'
<1>0. stage \in [Jobs -> Stages] /\ results \in [Jobs -> ResultLists]
  BY DEF PipeTypeOK
<1>1. /\ stage[j] = "plan" /\ stage'[j] = "mutants" /\ UNCHANGED slotVars
      /\ UNCHANGED <<suite, ready, guarded, built, reruns, failed, lockPC>>
  BY <1>0 DEF Plan, GoTo, setupVars, diskVars, lockVars
<1>2. Own(j)' = {}
  BY <1>1, OwnUnchanged, QuietStages DEF JobInv, Slotted
<1>3. PICK f \in [DOMAIN results[j] -> {"pending", "not_covered"}
                                      \cup (IF VerifyKills THEN {} ELSE {"cached"})] :
        results' = [results EXCEPT ![j] = f]
  BY DEF Plan
<1>4. results'[j] = f
  BY <1>0, <1>3
<1>5. \A i \in DOMAIN results'[j] :
        results'[j][i] # "started" /\ (VerifyKills => results'[j][i] # "cached")
  BY <1>3, <1>4
<1>6. ResultsFit(j)'
  BY <1>1, <1>5 DEF ResultsFit, Slotted
<1>7. LockFits(j)' /\ DiskFits(j)'
  BY <1>1 DEF JobInv, LockFits, DiskFits, Working, Slotted
<1> QED BY <1>2, <1>6, <1>7, NothingAsked DEF JobInv

\* A mutant's process starts.
LEMMA StartMutantKeeps ==
  ASSUME PipeTypeOK, SlotInv, NEW j \in Jobs, JobInv(j),
         NEW i \in DOMAIN results[j], StartMutant(j, i)
  PROVE  JobInv(j)'
<1> DEFINE r == Req(j, "mutant", 1, i)
<1>1. /\ stage[j] = "mutants" /\ results[j][i] = "pending" /\ Acquire(r)
      /\ results' = [results EXCEPT ![j][i] = "started"]
      /\ UNCHANGED <<stage, suite, ready, guarded, built, reruns, failed, lockPC>>
  BY DEF StartMutant, setupVars, diskVars, lockVars
<1>2. /\ DOMAIN results'[j] = DOMAIN results[j] /\ results'[j][i] = "started"
      /\ \A k \in DOMAIN results[j] : k # i => results'[j][k] = results[j][k]
  BY <1>1, StatusWritten
<1>3. r \in Requests /\ r.job = j
  <2>1. i \in 1 .. MaxMutants
    BY ResultListFacts DEF PipeTypeOK
  <2>2. i \in 0 .. MaxTests + MaxMutants /\ 1 \in Suites(j) /\ "mutant" \in Phases
    BY <2>1, OwnSuite, PipelinesAssumption DEF Phases
  <2> QED BY <2>2, ReqType, ReqParts
<1>4. Own(j)' = Own(j) \cup {r}
  <2> HIDE DEF r
  <2> QED BY <1>1, <1>3, OwnAcquire
<1>5. RequestsFit(j)'
  <2> SUFFICES ASSUME NEW q \in Own(j)'
               PROVE  \E k \in DOMAIN results'[j] :
                        results'[j][k] = "started" /\ q = Req(j, "mutant", 1, k)
    BY <1>1 DEF RequestsFit, Req
  <2>1. CASE q = r
    BY <1>2, <2>1
  <2>2. CASE q \in Own(j)
    <3>1. PICK k \in DOMAIN results[j] : results[j][k] = "started" /\ q = Req(j, "mutant", 1, k)
      BY <1>1, <2>2 DEF JobInv, RequestsFit, Slotted
    <3> QED BY <1>2, <3>1
  <2> QED BY <1>4, <2>1, <2>2
<1>6. ResultsFit(j)'
  <2>1. \A k \in DOMAIN results'[j] :
          /\ results'[j][k] = "started" => Req(j, "mutant", 1, k) \in Own(j)'
          /\ VerifyKills => results'[j][k] # "cached"
    BY <1>1, <1>2, <1>4 DEF JobInv, ResultsFit
  <2> QED BY <1>1, <2>1 DEF ResultsFit, Slotted, Req
<1>7. LockFits(j)' /\ DiskFits(j)'
  BY <1>1 DEF JobInv, LockFits, DiskFits
<1> QED BY <1>5, <1>6, <1>7 DEF JobInv

\* Requests for different mutants differ.
LEMMA ReqDistinct ==
  ASSUME NEW j, NEW phase, NEW s, NEW i, NEW k, Req(j, phase, s, i) = Req(j, phase, s, k)
  PROVE  i = k
<1>1. <<phase, s, i>> = <<phase, s, k>>
  BY ReqParts
<1> QED BY <1>1

\* A mutant's process ends with a verdict.
LEMMA EndMutantKeeps ==
  ASSUME PipeTypeOK, SlotInv, NEW j \in Jobs, JobInv(j),
         NEW i \in DOMAIN results[j], EndMutant(j, i)
  PROVE  JobInv(j)'
<1> DEFINE r == Req(j, "mutant", 1, i)
<1>1. /\ stage[j] = "mutants" /\ Release(r)
      /\ UNCHANGED <<stage, suite, ready, guarded, built, reruns, failed, lockPC>>
  BY DEF EndMutant, setupVars, diskVars, lockVars
<1>v. PICK status \in Verdicts : results' = [results EXCEPT ![j][i] = status]
  BY DEF EndMutant
<1>2. /\ DOMAIN results'[j] = DOMAIN results[j] /\ results'[j][i] = status
      /\ \A k \in DOMAIN results[j] : k # i => results'[j][k] = results[j][k]
  BY <1>v, StatusWritten
<1>3. r.job = j
  BY ReqParts
<1>4. Own(j)' = Own(j) \ {r}
  <2> HIDE DEF r
  <2> QED BY <1>1, <1>3, OwnRelease
<1>5. RequestsFit(j)'
  <2> SUFFICES ASSUME NEW q \in Own(j)'
               PROVE  \E k \in DOMAIN results'[j] :
                        results'[j][k] = "started" /\ q = Req(j, "mutant", 1, k)
    BY <1>1 DEF RequestsFit, Req
  <2>1. q \in Own(j) /\ q # r
    BY <1>4
  <2>2. PICK k \in DOMAIN results[j] : results[j][k] = "started" /\ q = Req(j, "mutant", 1, k)
    BY <1>1, <2>1 DEF JobInv, RequestsFit, Slotted
  <2>3. k # i
    BY <2>1, <2>2
  <2> QED BY <1>2, <2>2, <2>3
<1>6. ResultsFit(j)'
  <2>1. ASSUME NEW k \in DOMAIN results'[j], results'[j][k] = "started"
        PROVE  Req(j, "mutant", 1, k) \in Own(j)'
    <3>1. k # i /\ results[j][k] = "started"
      BY <1>v, <1>2, <2>1 DEF Verdicts
    <3>2. Req(j, "mutant", 1, k) \in Own(j)
      BY <1>1, <1>2, <3>1 DEF JobInv, ResultsFit
    <3>3. Req(j, "mutant", 1, k) # r
      BY <3>1, ReqDistinct
    <3> QED BY <1>4, <3>2, <3>3
  <2>2. \A k \in DOMAIN results'[j] : VerifyKills => results'[j][k] # "cached"
    BY <1>1, <1>v, <1>2 DEF JobInv, ResultsFit, Verdicts
  <2> QED BY <1>1, <2>1, <2>2 DEF ResultsFit, Slotted, Req
<1>7. LockFits(j)' /\ DiskFits(j)'
  BY <1>1 DEF JobInv, LockFits, DiskFits
<1> QED BY <1>5, <1>6, <1>7 DEF JobInv

\* The loop over the mutants returns when each has a verdict.
LEMMA EndMutantLoopKeeps ==
  ASSUME PipeTypeOK, NEW j \in Jobs, JobInv(j), EndMutantLoop(j)
  PROVE  JobInv(j)'
<1>0. stage \in [Jobs -> Stages] /\ next \in [Jobs -> Nat]
  BY DEF PipeTypeOK
<1>1. /\ stage[j] = "mutants" /\ stage'[j] = "confirm" /\ next'[j] = 1 /\ UNCHANGED slotVars
      /\ Drained(j) /\ \A i \in DOMAIN results[j] : results[j][i] # "pending"
      /\ UNCHANGED <<suite, ready, guarded, built, results, reruns, failed, lockPC>>
  BY <1>0 DEF EndMutantLoop, GoTo, setupVars, diskVars, verdictVars, lockVars
<1>2. Own(j) = {} /\ Own(j)' = {}
  BY <1>1, DrainedOwnsNothing, OwnUnchanged
<1>3. ASSUME NEW i \in DOMAIN results[j]
      PROVE  results[j][i] \in Settled /\ (VerifyKills => results[j][i] # "cached") /\ ~(i < 1)
  <2>1. i \in Nat /\ 1 <= i /\ results[j][i] \in Statuses
    BY MutantIndices
  <2>2. results[j][i] # "started" /\ (VerifyKills => results[j][i] # "cached")
    BY <1>1, <1>2 DEF JobInv, ResultsFit
  <2> QED BY <1>1, <2>1, <2>2 DEF Statuses
<1>4. ResultsFit(j)'
  BY <1>1, <1>3 DEF ResultsFit, Slotted
<1>5. LockFits(j)' /\ DiskFits(j)'
  BY <1>1 DEF JobInv, LockFits, DiskFits, Working, Slotted
<1> QED BY <1>2, <1>4, <1>5, NothingAsked DEF JobInv

\* The re-run of the next doubtful verdict asks for all slots.
LEMMA StartConfirmKeeps ==
  ASSUME PipeTypeOK, SlotInv, NEW j \in Jobs, JobInv(j),
         NEW i \in DOMAIN results[j], StartConfirm(j, i)
  PROVE  JobInv(j)'
<1> DEFINE r == Req(j, "confirm", 1, i)
<1>1. /\ stage[j] = "confirm" /\ IsLowest(i, Doubtful(j)) /\ Acquire(r)
      /\ UNCHANGED <<stage, suite, next, ready, guarded, built, results, reruns, failed, lockPC>>
  BY DEF StartConfirm, pipeVars, setupVars, diskVars, verdictVars, lockVars
<1>2. r \in Requests /\ r.job = j
  <2>1. i \in 1 .. MaxMutants
    BY ResultListFacts DEF PipeTypeOK
  <2>2. i \in 0 .. MaxTests + MaxMutants /\ 1 \in Suites(j) /\ "confirm" \in Phases
    BY <2>1, OwnSuite, PipelinesAssumption DEF Phases
  <2> QED BY <2>2, ReqType, ReqParts
<1>3. Own(j)' = Own(j) \cup {r}
  <2> HIDE DEF r
  <2> QED BY <1>1, <1>2, OwnAcquire
<1>4. Doubtful(j)' = Doubtful(j)
  BY <1>1 DEF Doubtful
<1>5. RequestsFit(j)'
  <2> SUFFICES ASSUME NEW q \in Own(j)'
               PROVE  \E k \in DOMAIN results[j] :
                        IsLowest(k, Doubtful(j)) /\ q = Req(j, "confirm", 1, k)
    BY <1>1, <1>4 DEF RequestsFit, Req, IsLowest
  <2>1. CASE q = r
    BY <1>1, <2>1
  <2>2. CASE q \in Own(j)
    BY <1>1, <2>2 DEF JobInv, RequestsFit, Slotted
  <2> QED BY <1>3, <2>1, <2>2
<1>6. ResultsFit(j)' /\ LockFits(j)' /\ DiskFits(j)'
  <2>1. LockFits(j)' /\ DiskFits(j)'
    BY <1>1 DEF JobInv, LockFits, DiskFits
  <2>2. ResultsFit(j)'
    BY <1>1 DEF JobInv, ResultsFit, Slotted, Confirmed
  <2> QED BY <2>1, <2>2
<1> QED BY <1>5, <1>6 DEF JobInv

\* There is one lowest doubtful verdict, and a pipeline re-runs no other.
LEMMA OneReRun ==
  ASSUME PipeTypeOK, NEW j \in Jobs, RequestsFit(j), stage[j] = "confirm",
         NEW i, Req(j, "confirm", 1, i) \in Own(j)
  PROVE  /\ i \in DOMAIN results[j] /\ IsLowest(i, Doubtful(j))
         /\ Own(j) = {Req(j, "confirm", 1, i)}
<1>1. ASSUME NEW q \in Own(j)
      PROVE  \E k \in DOMAIN results[j] : IsLowest(k, Doubtful(j)) /\ q = Req(j, "confirm", 1, k)
  BY DEF RequestsFit, Slotted
<1>2. PICK k \in DOMAIN results[j] :
        IsLowest(k, Doubtful(j)) /\ Req(j, "confirm", 1, i) = Req(j, "confirm", 1, k)
  BY <1>1
<1>3. k = i
  BY <1>2, ReqDistinct
<1>4. ASSUME NEW q \in Own(j) PROVE q = Req(j, "confirm", 1, i)
  <2>1. PICK l \in DOMAIN results[j] : IsLowest(l, Doubtful(j)) /\ q = Req(j, "confirm", 1, l)
    BY <1>1
  <2>2. l \in Nat /\ i \in Nat
    BY <1>2, <1>3, MutantIndices
  <2>3. l = i
    BY <1>2, <1>3, <2>1, <2>2 DEF IsLowest
  <2> QED BY <2>1, <2>3
<1> QED BY <1>2, <1>3, <1>4

\* A verdict below the lowest doubtful one needs no re-run any more.
LEMMA BelowDoubtful ==
  ASSUME PipeTypeOK, NEW j \in Jobs, ResultsFit(j), stage[j] = "confirm",
         NEW k \in DOMAIN results[j], k \notin Doubtful(j)
  PROVE  Confirmed(j, k)
<1>1. k \in Nat /\ next[j] \in Nat
  BY MutantIndices
<1>2. /\ k < next[j] => Confirmed(j, k)
      /\ VerifyKills => results[j][k] # "cached"
  BY DEF ResultsFit
<1>3. k >= next[j] => results[j][k] # "timeout" /\ ~(VerifyKills /\ results[j][k] = "killed")
  BY DEF Doubtful
<1> QED BY <1>1, <1>2, <1>3 DEF Confirmed

\* A re-run ends, and the loop goes on behind it.
LEMMA EndConfirmKeeps ==
  ASSUME PipeTypeOK, SlotInv, NEW j \in Jobs, JobInv(j),
         NEW i \in DOMAIN results[j], EndConfirm(j, i)
  PROVE  JobInv(j)'
<1> DEFINE r == Req(j, "confirm", 1, i)
<1>0. next \in [Jobs -> Nat] /\ reruns \in [Jobs -> SUBSET (1 .. MaxMutants)]
  BY DEF PipeTypeOK
<1>1. /\ stage[j] = "confirm" /\ Release(r)
      /\ reruns'[j] = reruns[j] \cup {i} /\ next'[j] = i + 1
      /\ UNCHANGED <<stage, suite, ready, guarded, built, failed, lockPC>>
  BY <1>0 DEF EndConfirm, setupVars, diskVars, lockVars
<1>2. r.job = j
  BY ReqParts
<1>3. r \in Own(j) /\ Own(j)' = Own(j) \ {r}
  <2> HIDE DEF r
  <2> QED BY <1>1, <1>2, OwnRelease
<1>4. IsLowest(i, Doubtful(j)) /\ Own(j) = {r}
  BY <1>1, <1>3, OneReRun DEF JobInv
<1>5. Own(j)' = {}
  BY <1>3, <1>4
<1>v. PICK again \in Verdicts :
        results' = IF results[j][i] = "timeout" \/ again = "survived"
                     THEN [results EXCEPT ![j][i] = again]
                     ELSE results
  BY DEF EndConfirm
<1>6. /\ DOMAIN results'[j] = DOMAIN results[j]
      /\ results'[j][i] \in {again, results[j][i]}
      /\ \A k \in DOMAIN results[j] : k # i => results'[j][k] = results[j][k]
  <2>1. CASE results' = [results EXCEPT ![j][i] = again]
    BY <2>1, StatusWritten
  <2>2. CASE results' = results
    BY <2>2
  <2> QED BY <1>v, <2>1, <2>2
<1>7. ASSUME NEW k \in DOMAIN results'[j]
      PROVE  results'[j][k] \in Settled /\ (VerifyKills => results'[j][k] # "cached")
  BY <1>1, <1>6 DEF JobInv, ResultsFit, Verdicts, Settled
<1>8. ASSUME NEW k \in DOMAIN results'[j], k < next'[j] PROVE Confirmed(j, k)'
  <2>1. CASE k = i
    BY <1>1, <2>1 DEF Confirmed
  <2>2. CASE k # i
    <3>1. k \in Nat /\ i \in Nat
      BY <1>6, MutantIndices
    <3>2. k \notin Doubtful(j)
      BY <1>1, <1>4, <1>8, <2>2, <3>1 DEF IsLowest
    <3>3. Confirmed(j, k)
      BY <1>1, <1>6, <3>2, BelowDoubtful DEF JobInv
    <3> QED BY <1>1, <1>6, <2>2, <3>3 DEF Confirmed
  <2> QED BY <2>1, <2>2
<1>9. ResultsFit(j)'
  BY <1>1, <1>7, <1>8 DEF ResultsFit, Slotted
<1>10. LockFits(j)' /\ DiskFits(j)'
  BY <1>1 DEF JobInv, LockFits, DiskFits
<1> QED BY <1>5, <1>9, <1>10, NothingAsked DEF JobInv

\* confirmVerdicts returns when no verdict is in doubt.
LEMMA EndConfirmLoopKeeps ==
  ASSUME PipeTypeOK, NEW j \in Jobs, JobInv(j), EndConfirmLoop(j)
  PROVE  JobInv(j)'
<1>0. stage \in [Jobs -> Stages]
  BY DEF PipeTypeOK
<1>1. /\ stage[j] = "confirm" /\ stage'[j] = "cleanup" /\ UNCHANGED slotVars
      /\ Doubtful(j) = {}
      /\ UNCHANGED <<suite, ready, guarded, built, results, reruns, failed, lockPC>>
  BY <1>0 DEF EndConfirmLoop, GoTo, setupVars, diskVars, verdictVars, lockVars
<1>2. Own(j)' = {}
  BY <1>1, OwnUnchanged DEF JobInv, RequestsFit, Slotted, IsLowest
<1>3. ASSUME NEW i \in DOMAIN results[j] PROVE results[j][i] \in Settled /\ Confirmed(j, i)
  BY <1>1, BelowDoubtful DEF JobInv, ResultsFit
<1>4. ResultsFit(j)'
  BY <1>1, <1>3 DEF ResultsFit, Slotted, Confirmed
<1>5. LockFits(j)' /\ DiskFits(j)'
  BY <1>1 DEF JobInv, LockFits, DiskFits, Working, Slotted
<1> QED BY <1>2, <1>4, <1>5, NothingAsked DEF JobInv

\* The deferred clean-up, and the start of unlocking.
LEMMA CleanKeeps ==
  ASSUME PipeTypeOK, LockInv, NEW j \in Jobs, JobInv(j), CleanDependents(j) \/ CleanOwn(j)
  PROVE  JobInv(j)'
<1>0. /\ stage \in [Jobs -> Stages] /\ guarded \in [Jobs -> SUBSET Nat]
      /\ built \in [Jobs -> SUBSET Nat] /\ lockPC \in [Jobs -> LockPCs]
  BY DEF PipeTypeOK, LockInv, LockTypeOK
<1>1. /\ stage[j] \in {"cleanup", "cleanupOwn"} /\ UNCHANGED slotVars
      /\ UNCHANGED <<suite, ready, results, reruns, failed>>
  BY DEF CleanDependents, CleanOwn, setupVars, verdictVars
<1>2. Own(j)' = {}
  BY <1>1, OwnUnchanged, QuietStages DEF JobInv, Slotted
<1>3. \/ /\ stage'[j] = "cleanupOwn" /\ lockPC' = lockPC
         /\ guarded'[j] \subseteq guarded[j] /\ built'[j] \subseteq built[j]
      \/ /\ stage'[j] = "unlock" /\ lockPC'[j] = "unlocking"
         /\ guarded'[j] = {} /\ built'[j] = {}
  <2>1. CASE CleanDependents(j)
    BY <1>0, <2>1 DEF CleanDependents, GoTo, lockVars
  <2>2. CASE CleanOwn(j)
    BY <1>0, <2>2 DEF CleanOwn, GoTo, BeginUnlock
  <2> QED BY <2>1, <2>2
<1>4. ResultsFit(j)'
  BY <1>1, <1>3 DEF JobInv, ResultsFit, Slotted, Confirmed
<1>5. LockFits(j)' /\ DiskFits(j)'
  BY <1>1, <1>3 DEF JobInv, LockFits, DiskFits, Working, Slotted
<1> QED BY <1>2, <1>4, <1>5, NothingAsked DEF JobInv

-----------------------------------------------------------------------------
(* The invariant of the run.                                               *)

\* Every pipeline starts in its invariant, those that failed to load included.
LEMMA JobInvInit == ASSUME Init, NEW j \in Jobs PROVE JobInv(j)
<1>1. Own(j) = {}
  <2>1. running = {} /\ DOMAIN waiters = {}
    BY DEF Init, SlotInit
  <2> QED BY <2>1 DEF Own, Asked, Waiting
<1>2. /\ stage[j] = "queued" \/ (stage[j] = "done" /\ failed[j] = "load")
      /\ DOMAIN results[j] = {} /\ lockPC[j] = "out"
      /\ guarded[j] = {} /\ built[j] = {} /\ ready[j] = {}
  BY DEF Init, LockInit
<1>3. RequestsFit(j)
  BY <1>1 DEF RequestsFit
<1>4. ResultsFit(j)
  BY <1>2 DEF ResultsFit, Slotted
<1>5. LockFits(j) /\ DiskFits(j)
  BY <1>2 DEF LockFits, DiskFits, Working, Slotted
<1> QED BY <1>3, <1>4, <1>5 DEF JobInv

\* A step of pipeline j keeps its own invariant.
LEMMA OwnStepKeeps ==
  ASSUME PipeTypeOK, LockInv, SlotInv, NEW j \in Jobs, JobInv(j), PipelineStep(j)
  PROVE  JobInv(j)'
<1>1. CASE Launch(j) \/ Lock(j) \/ Unlock(j) \/ ExitPipeline(j)
  BY <1>1, LockingKeeps
<1>2. CASE Rewrite(j) \/ StartSlotted(j) \/ EndCompile(j) \/ EndCompileCov(j) \/ EndBaseline(j)
  BY <1>2, RewriteKeeps, StartSlottedKeeps, EndCompileKeeps, EndCompileCovKeeps, EndBaselineKeeps
<1>3. CASE \/ StartCoverage(j) \/ CancelCoverage(j)
           \/ \E i \in 1 .. MaxTests : EndCoverage(j, i) \/ GiveUpCoverage(j, i)
  BY <1>3, CoverageStepKeeps
<1>4. CASE EndCoverageLoop(j) \/ Plan(j) \/ EndMutantLoop(j) \/ EndConfirmLoop(j)
  BY <1>4, EndCoverageLoopKeeps, PlanKeeps, EndMutantLoopKeeps, EndConfirmLoopKeeps
<1>5. ASSUME NEW i \in DOMAIN results[j],
             StartMutant(j, i) \/ EndMutant(j, i) \/ StartConfirm(j, i) \/ EndConfirm(j, i)
      PROVE  JobInv(j)'
  BY <1>5, StartMutantKeeps, EndMutantKeeps, StartConfirmKeeps, EndConfirmKeeps
<1>6. CASE CleanDependents(j) \/ CleanOwn(j)
  BY <1>6, CleanKeeps
<1> QED BY <1>1, <1>2, <1>3, <1>4, <1>5, <1>6 DEF PipelineStep

\* Every step keeps the invariant of every pipeline.
LEMMA JobInvStep ==
  ASSUME PipeTypeOK, LockInv, SlotInv, \A j \in Jobs : JobInv(j), [Next]_vars, NEW k \in Jobs
  PROVE  JobInv(k)'
<1>1. CASE Finish \/ UNCHANGED vars
  <2>1. UNCHANGED slotVars /\ Local(k)' = Local(k)
    BY <1>1 DEF Finish, vars, pipeVars, setupVars, diskVars, verdictVars, lockVars, Local
  <2> QED BY <2>1, OwnUnchanged, JobFrame
<1>2. ASSUME NEW j \in Jobs, PipelineStep(j) PROVE JobInv(k)'
  <2>1. CASE k = j
    BY <1>2, <2>1, OwnStepKeeps
  <2>2. CASE k # j
    BY <1>2, <2>2, LocalOthers, OwnOthers, JobFrame
  <2> QED BY <2>1, <2>2
<1> QED BY <1>1, <1>2 DEF Next

\* No pipeline sets the exit code, and one that is done changes its results
\* no more.
LEMMA DoneStays ==
  ASSUME NEW j \in Jobs, PipelineStep(j)
  PROVE  /\ exit' = exit
         /\ stage[j] = "done" => UNCHANGED <<stage, results, failed>>
<1> USE DEF setupVars, diskVars, verdictVars, pipeVars
<1>1. CASE Launch(j) \/ Lock(j) \/ Unlock(j) \/ ExitPipeline(j) \/ Rewrite(j)
  BY <1>1 DEF Launch, Lock, Unlock, ExitPipeline, Rewrite
<1>2. CASE StartSlotted(j) \/ EndCompile(j) \/ EndCompileCov(j) \/ EndBaseline(j)
  BY <1>2 DEF StartSlotted, EndCompile, EndCompileCov, EndBaseline, Slotted
<1>3. CASE \/ StartCoverage(j) \/ CancelCoverage(j) \/ EndCoverageLoop(j)
           \/ \E i \in 1 .. MaxTests : EndCoverage(j, i) \/ GiveUpCoverage(j, i)
  BY <1>3 DEF StartCoverage, CancelCoverage, EndCoverageLoop, EndCoverage, GiveUpCoverage
<1>4. CASE Plan(j) \/ EndMutantLoop(j) \/ EndConfirmLoop(j) \/ CleanDependents(j) \/ CleanOwn(j)
  BY <1>4 DEF Plan, EndMutantLoop, EndConfirmLoop, CleanDependents, CleanOwn
<1>5. ASSUME NEW i \in DOMAIN results[j],
             StartMutant(j, i) \/ EndMutant(j, i) \/ StartConfirm(j, i) \/ EndConfirm(j, i)
      PROVE  exit' = exit /\ stage[j] # "done"
  BY <1>5 DEF StartMutant, EndMutant, StartConfirm, EndConfirm
<1> QED BY <1>1, <1>2, <1>3, <1>4, <1>5 DEF PipelineStep

\* The exit code stays honest: it is chosen when all verdicts are final, and
\* nothing it was chosen from changes afterwards.
LEMMA RunEndedStep ==
  ASSUME PipeTypeOK, \A j \in Jobs : JobInv(j), RunEnded, [Next]_vars
  PROVE  RunEnded'
<1>1. ASSUME UNCHANGED <<results, failed>> PROVE BelowMinScore' = BelowMinScore
  BY <1>1 DEF BelowMinScore, Detected, Mutants
<1>2. ASSUME UNCHANGED <<stage, results, failed, exit>> PROVE RunEnded'
  BY <1>1, <1>2 DEF RunEnded, ExitHonest
<1>3. CASE UNCHANGED vars
  BY <1>2, <1>3 DEF vars, pipeVars, verdictVars
<1>4. CASE Finish
  <2>1. /\ \A j \in Jobs : stage[j] = "done"
        /\ UNCHANGED <<stage, results, failed>>
        /\ exit' \in {1, IF \E j \in Jobs : failed[j] # "no" THEN 1
                         ELSE IF BelowMinScore THEN 3 ELSE 0}
    BY <1>4 DEF Finish, pipeVars, verdictVars
  <2>2. exit' \in {0, 3} => /\ \A j \in Jobs : failed[j] = "no"
                            /\ exit' = 0 => ~BelowMinScore
    BY <2>1
  <2>3. ASSUME NEW j \in Jobs, failed[j] = "no", NEW i \in DOMAIN results[j]
        PROVE  results[j][i] \in Settled
    BY <2>1, <2>3 DEF JobInv, ResultsFit
  <2>4. ExitHonest'
    BY <1>1, <2>1, <2>2, <2>3 DEF ExitHonest
  <2> QED BY <2>1, <2>4 DEF RunEnded
<1>5. ASSUME NEW j \in Jobs, PipelineStep(j) PROVE RunEnded'
  <2>1. CASE exit = Running
    <3>1. exit' = Running
      BY <1>5, <2>1, DoneStays
    <3> QED BY <3>1 DEF RunEnded, ExitHonest, Running
  <2>2. CASE exit # Running
    <3>1. stage[j] = "done"
      BY <2>2 DEF RunEnded
    <3> QED BY <1>2, <1>5, <3>1, DoneStays
  <2> QED BY <2>1, <2>2
<1> QED BY <1>3, <1>4, <1>5 DEF Next

\* The invariant holds throughout a run.
THEOREM RunInvAlways == Spec => []RunInv
<1>1. Init => RunInv
  BY JobInvInit DEF Init, RunInv, RunEnded, ExitHonest, Running
<1>2. PipeTypeOK /\ LockInv /\ SlotInv /\ RunInv /\ [Next]_vars => RunInv'
  BY JobInvStep, RunEndedStep DEF RunInv
<1> QED BY <1>1, <1>2, PipeTypeAlways, RunRefinesLocks, LockSpecInv, RunRefinesSlots,
           SlotSpecInv, PTL DEF Spec

\* What the parts prove, together.
Everything == PipeTypeOK /\ LockInv /\ SlotInv /\ RunInv

LEMMA EverythingAlways == Spec => []Everything
BY PipeTypeAlways, RunRefinesLocks, LockSpecInv, RunRefinesSlots, SlotSpecInv,
   RunInvAlways, PTL DEF Everything

-----------------------------------------------------------------------------
(* What a user of kanly relies on.                                         *)

\* confirmVerdicts leaves no verdict open: a package that is done without an
\* error has judged every mutant, and no timeout, nor a kill under
\* --verify-kills, is reported that was not confirmed alone.
THEOREM RunVerdictsFinal == Spec => []VerdictsFinal
<1>1. RunInv => VerdictsFinal
  <2> SUFFICES ASSUME RunInv, NEW j \in Jobs,
                      stage[j] \in {"cleanup", "cleanupOwn", "unlock", "done"}, failed[j] = "no",
                      NEW i \in DOMAIN results[j]
               PROVE  results[j][i] \in Settled /\ Confirmed(j, i)
    BY DEF VerdictsFinal, Confirmed
  <2> QED BY DEF RunInv, JobInv, ResultsFit
<1> QED BY <1>1, RunInvAlways, PTL

\* The exit code of run lets no partial result pass as success.
THEOREM RunExitHonest == Spec => []ExitHonest
<1>1. RunInv => ExitHonest
  BY DEF RunInv, RunEnded
<1> QED BY <1>1, RunInvAlways, PTL

\* A process that runs was asked for by the stage its pipeline is in.
LEMMA RunningFits ==
  ASSUME Everything, NEW r \in running
  PROVE  r.job \in Jobs /\ r \in Own(r.job) /\ JobInv(r.job)
BY DEF Everything, SlotInv, Holding, Requests, Own, Asked, RunInv

\* Every suite a process may run is set up, and its pipeline is in its locks.
LEMMA SuitesGuarded ==
  ASSUME Everything, NEW r \in running, NEW s \in SuitesOf(r)
  PROVE  /\ s \in Suites(r.job) /\ s \in built[r.job] /\ s \in guarded[r.job]
         /\ lockPC[r.job] = "in"
<1> DEFINE j == r.job
<1>1. j \in Jobs /\ r \in Own(j) /\ RequestsFit(j) /\ LockFits(j) /\ DiskFits(j)
  BY RunningFits DEF JobInv
<1>2. \/ stage[j] \in {"baseline", "coverage"} /\ s = suite[j]
      \/ stage[j] \in {"mutants", "confirm"} /\ s \in ready[j]
  <2>1. CASE stage[j] \in Slotted /\ r = Req(j, stage[j], suite[j], 0)
    <3>1. r.task[1] = stage[j] /\ r.task[2] = suite[j]
      BY <2>1, ReqParts
    <3> QED BY <2>1, <3>1 DEF SuitesOf, Slotted
  <2>2. CASE stage[j] = "coverage" /\ \E i \in 0 .. MaxTests : r = Req(j, "coverage", suite[j], i)
    <3>1. r.task[1] = "coverage" /\ r.task[2] = suite[j]
      BY <2>2, ReqParts
    <3> QED BY <2>2, <3>1 DEF SuitesOf
  <2>3. CASE stage[j] = "mutants" /\ \E i \in DOMAIN results[j] : r = Req(j, "mutant", 1, i)
    <3>1. r.task[1] = "mutant"
      BY <2>3, ReqParts
    <3> QED BY <2>3, <3>1 DEF SuitesOf
  <2>4. CASE stage[j] = "confirm" /\ \E i \in DOMAIN results[j] : r = Req(j, "confirm", 1, i)
    <3>1. r.task[1] = "confirm"
      BY <2>4, ReqParts
    <3> QED BY <2>4, <3>1 DEF SuitesOf
  <2> QED BY <1>1, <2>1, <2>2, <2>3, <2>4 DEF RequestsFit
<1>3. s \in guarded[j] \cap built[j] /\ guarded[j] \subseteq Suites(j) /\ lockPC[j] = "in"
  BY <1>1, <1>2 DEF LockFits, DiskFits, Working, Slotted
<1> QED BY <1>3

\* No failure path of runPackage cleans up or unlocks under a process: while a
\* test runs, its binary is on disk, its directory guarded and locked.
THEOREM RunProcessesGuarded == Spec => []ProcessesGuarded
<1>1. Everything => ProcessesGuarded
  <2> SUFFICES ASSUME Everything, NEW r \in running, NEW s \in SuitesOf(r)
               PROVE  s \in built[r.job] /\ s \in guarded[r.job] /\ owner[SuiteDir[r.job][s]] = r.job
    BY DEF ProcessesGuarded
  <2>1. /\ r.job \in Jobs /\ s \in Suites(r.job) /\ lockPC[r.job] = "in"
        /\ s \in built[r.job] /\ s \in guarded[r.job]
    BY SuitesGuarded, RunningFits
  <2>2. SuiteDir[r.job][s] \in DirsOf[r.job]
    BY <2>1, PipelinesAssumption DEF Suites
  <2> QED BY <2>1, <2>2 DEF Everything, LockInv, OwnsAllWhenIn
<1> QED BY <1>1, EverythingAlways, PTL

\* A guard covers a directory of another package only if the packages share a
\* directory, and so a lock: no package lies in the testdata of an unrelated
\* one.
CoverMeansShared ==
  \A j, k \in Jobs : \A s \in Suites(j) : \A g \in Suites(k) :
    SuiteDir[j][s] \in GuardCover[SuiteDir[k][g]] => DirsOf[j] \cap DirsOf[k] # {}

\* Then "two pipelines never run tests in, or guard, the same directory at
\* once".
THEOREM RunNoForeignGuard == ASSUME CoverMeansShared PROVE Spec => []NoForeignGuard
<1>1. Everything /\ LocksExclude => NoForeignGuard
  <2> SUFFICES ASSUME Everything, LocksExclude, NEW r \in running, NEW s \in SuitesOf(r),
                      NEW k \in Jobs \ {r.job}, NEW g \in guarded[k],
                      SuiteDir[r.job][s] \in GuardCover[SuiteDir[k][g]]
               PROVE  FALSE
    BY DEF NoForeignGuard
  <2>1. r.job \in Jobs /\ s \in Suites(r.job) /\ lockPC[r.job] = "in"
    BY SuitesGuarded, RunningFits
  <2>2. g \in Suites(k) /\ lockPC[k] = "in"
    <3>1. LockFits(k) /\ DiskFits(k) /\ stage[k] \in Stages
      BY DEF Everything, RunInv, JobInv, PipeTypeOK
    <3> QED BY <3>1 DEF LockFits, DiskFits, Stages, Working, Slotted
  <2>3. DirsOf[r.job] \cap DirsOf[k] # {}
    BY <2>1, <2>2 DEF CoverMeansShared
  <2> QED BY <2>1, <2>2, <2>3 DEF LocksExclude
<1> QED BY <1>1, EverythingAlways, RunExcludes, PTL

\* When run returns, every slot and lock is returned, every guarded directory
\* restored and every binary removed, whatever failed on the way.
THEOREM RunNothingLeftBehind == Spec => []NothingLeftBehind
<1>1. Everything => NothingLeftBehind
  <2> SUFFICES ASSUME Everything, exit # Running
               PROVE  /\ cur = 0 /\ running = {} /\ waiters = << >>
                      /\ \A d \in Dirs : owner[d] = NoJob
                      /\ \A j \in Jobs : guarded[j] = {} /\ built[j] = {}
    BY DEF NothingLeftBehind
  <2>1. ASSUME NEW j \in Jobs
        PROVE  stage[j] = "done" /\ RequestsFit(j) /\ LockFits(j) /\ DiskFits(j)
    BY DEF Everything, RunInv, RunEnded, JobInv
  <2>2. Asked = {}
    <3>1. \A r \in Asked : r.job \in Jobs
      <4>1. running \subseteq Requests /\ waiters \in Seq(Requests)
        BY DEF Everything, SlotInv, Holding, Queue
      <4>2. Asked \subseteq Requests
        BY <4>1 DEF Asked, Waiting
      <4> QED BY <4>2 DEF Requests
    <3>2. \A j \in Jobs : Own(j) = {}
      BY <2>1, QuietStages DEF Slotted
    <3> QED BY <3>1, <3>2 DEF Own
  <2>3. running = {} /\ waiters = << >>
    <3>1. running = {} /\ DOMAIN waiters = {}
      BY <2>2 DEF Asked, Waiting
    <3>2. waiters \in Seq(Requests)
      BY DEF Everything, SlotInv, Queue
    <3> QED BY <3>1, <3>2, EmptySeq, LenProperties
  <2>4. cur = 0
    <3>1. Cardinality(running) = 0
      BY <2>3, FS_EmptySet
    <3> QED BY <2>3, <3>1 DEF Everything, SlotInv, Holding, Accounts
  <2>5. ASSUME NEW d \in Dirs PROVE owner[d] = NoJob
    <3>1. owner[d] \in Jobs \cup {NoJob}
      BY DEF Everything, LockInv, LockTypeOK
    <3>2. ASSUME NEW j \in Jobs, owner[d] = j PROVE FALSE
      <4>1. lockPC[j] \in {"locking", "in", "unlocking"}
        BY <3>2 DEF Everything, LockInv, OwnsOnlyItsOwn
      <4> QED BY <2>1, <4>1 DEF LockFits
    <3> QED BY <3>1, <3>2
  <2>6. \A j \in Jobs : guarded[j] = {} /\ built[j] = {}
    BY <2>1 DEF DiskFits
  <2> QED BY <2>3, <2>4, <2>5, <2>6
<1> QED BY <1>1, EverythingAlways, PTL

\* Once a verdict is in, only a re-run with the machine to itself changes it.
THEOREM RunVerdictsChangeAlone == Spec => VerdictsChangeAlone
<1> DEFINE Alters(j, i) == results[j][i] \in Settled /\ results'[j][i] # results[j][i]
           Changed == \A j \in Jobs : \A i \in DOMAIN results[j] :
                        Alters(j, i) => running = {Req(j, "confirm", 1, i)}
<1>1. Everything /\ RunsAlone /\ [Next]_vars => [Changed]_vars
  <2> SUFFICES ASSUME Everything, RunsAlone, [Next]_vars, NEW j \in Jobs,
                      NEW i \in DOMAIN results[j], Alters(j, i)
               PROVE  running = {Req(j, "confirm", 1, i)}
    OBVIOUS
  <2> USE DEF setupVars, verdictVars, pipeVars
  <2>t. PipeTypeOK /\ LockInv /\ ResultsFit(j) /\ results \in [Jobs -> ResultLists]
    BY DEF Everything, RunInv, JobInv, PipeTypeOK
  <2>1. ~(Finish \/ UNCHANGED vars)
    BY DEF Finish, vars
  <2>2. PICK k \in Jobs : PipelineStep(k)
    BY <2>1 DEF Next
  <2>3. k = j
    <3>1. k # j => results'[j] = results[j]
      BY <2>2, <2>t, LocalOthers DEF Local
    <3> QED BY <3>1
  <2>4. ~\/ Launch(j) \/ Lock(j) \/ Unlock(j) \/ ExitPipeline(j) \/ StartSlotted(j)
         \/ EndCompile(j) \/ EndCompileCov(j) \/ EndBaseline(j)
    BY DEF Launch, Lock, Unlock, ExitPipeline, StartSlotted, EndCompile, EndCompileCov, EndBaseline
  <2>5. ~\/ StartCoverage(j) \/ CancelCoverage(j) \/ EndCoverageLoop(j)
         \/ \E l \in 1 .. MaxTests : EndCoverage(j, l) \/ GiveUpCoverage(j, l)
    BY DEF StartCoverage, CancelCoverage, EndCoverageLoop, EndCoverage, GiveUpCoverage
  <2>6. ~\/ EndMutantLoop(j) \/ EndConfirmLoop(j) \/ CleanDependents(j) \/ CleanOwn(j)
    BY DEF EndMutantLoop, EndConfirmLoop, CleanDependents, CleanOwn
  <2>7. ~(Rewrite(j) \/ Plan(j))
    BY <2>t DEF Rewrite, Plan, ResultsFit, Settled, Verdicts, Slotted
  <2>8. PICK l \in DOMAIN results[j] :
          StartMutant(j, l) \/ EndMutant(j, l) \/ StartConfirm(j, l) \/ EndConfirm(j, l)
    BY <2>2, <2>3, <2>4, <2>5, <2>6, <2>7 DEF PipelineStep
  <2>9. l = i
    <3>1. CASE \E st : results' = [results EXCEPT ![j][l] = st]
      BY <3>1, <2>t, StatusWritten
    <3>2. CASE results' = results
      BY <3>2
    <3> QED BY <2>8, <3>1, <3>2 DEF StartMutant, EndMutant, StartConfirm, EndConfirm
  <2>10. ~StartMutant(j, i) /\ ~StartConfirm(j, i)
    BY DEF StartMutant, StartConfirm, Settled, Verdicts
  <2>11. ~EndMutant(j, i)
    <3> SUFFICES ASSUME EndMutant(j, i) PROVE FALSE
      OBVIOUS
    <3>1. stage[j] = "mutants" /\ Req(j, "mutant", 1, i) \in running
      BY DEF EndMutant, Release
    <3>2. Req(j, "mutant", 1, i) \in Own(j) /\ RequestsFit(j)
      BY <3>1, ReqParts DEF Own, Asked, Everything, RunInv, JobInv
    <3>3. PICK m \in DOMAIN results[j] :
            results[j][m] = "started" /\ Req(j, "mutant", 1, i) = Req(j, "mutant", 1, m)
      BY <3>1, <3>2 DEF RequestsFit, Slotted
    <3>4. results[j][i] = "started"
      BY <3>3, ReqDistinct
    <3> QED BY <3>4 DEF Settled, Verdicts
  <2>12. EndConfirm(j, i)
    BY <2>8, <2>9, <2>10, <2>11
  <2> QED BY <2>12, ReqParts DEF EndConfirm, Release, RunsAlone
<1> QED BY <1>1, EverythingAlways, RunConfirmsAlone, PTL DEF Spec, VerdictsChangeAlone

\* Whoever waits for slots is served in order, in the whole program.
THEOREM RunServesInOrder == Spec => NoOvertaking
BY RunRefinesSlots, NoOvertakingAlways, PTL
=============================================================================
