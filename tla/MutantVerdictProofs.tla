------------------------- MODULE MutantVerdictProofs ------------------------
(***************************************************************************)
(* Proofs about how one mutant gets its verdict, for every number of       *)
(* suites and every set of covering tests.                                 *)
(*                                                                         *)
(* The verdict is known only when the last suite was judged, so the        *)
(* properties say nothing before pc = "done".  The inductive invariant     *)
(* says what the status and the killers mean half-way through an attempt   *)
(* (SoFar), what is known between a process's exit and its judgement       *)
(* (Judging), and what the re-run still knows of the first attempt         *)
(* (FirstAttempt).                                                         *)
(***************************************************************************)
EXTENDS MutantVerdict, TLAPS

VerdictType ==
  /\ failFast \in BOOLEAN /\ verifyKills \in BOOLEAN
  /\ attempt \in {1, 2}
  /\ pc \in {"run", "judge", "done"}
  /\ s \in 1 .. Len(Covering) + 1
  /\ status \in Statuses
  /\ killers \subseteq Names
  /\ exitOf \in Ends
  /\ result \in [status : Statuses \cup {"none"}, killers : SUBSET Names]
  /\ log \in [{1, 2} -> [Suites -> Ends]]

\* The tests that failed in the processes of the suites S of attempt a.
FailedIn(a, S) == UNION {log[a][t].tests : t \in {u \in S : log[a][u].kind = "fail"}}

Before(k) == {t \in Suites : t < k}

\* What the suites judged so far say, in the running attempt.
SoFar ==
  /\ status = "survived" =>
       \A t \in Before(s) : Covering[t] # {} => log[attempt][t].kind = "pass" /\ ~log[attempt][t].late
  /\ status = "timeout" =>
       \E t \in Before(s) : log[attempt][t].kind # "not run" /\ log[attempt][t].late
  /\ status = "killed" =>
       \E t \in Before(s) : log[attempt][t].kind \notin {"not run", "pass"} /\ ~log[attempt][t].late
  /\ killers # {} => status = "killed"
  /\ killers \subseteq FailedIn(attempt, Before(s))

\* A process that ended and is not judged yet is the current suite's.
Judging ==
  pc = "judge" =>
    /\ s \in Suites
    /\ exitOf = log[attempt][s]
    /\ exitOf.kind # "not run"
    /\ exitOf.kind # "fail" => exitOf.tests = {}

\* What the first attempt left to the re-run.
FirstAttempt ==
  (attempt = 2 /\ pc # "done") =>
    /\ result.status \in {"timeout", "killed"}
    /\ result.status = "timeout" => ~InTime(1)
    /\ result.killers # {} => result.status = "killed"
    /\ result.killers \subseteq FailedIn(1, Suites)

\* What is reported.
Reported == SurvivedEverything /\ TimeoutsConfirmed /\ KillsNotContradicted /\ KillersFailed

VerdictInv ==
  /\ VerdictType
  /\ pc # "done" => SoFar
  /\ Judging /\ FirstAttempt /\ Reported

-----------------------------------------------------------------------------
\* The suites are the indices of a sequence.
LEMMA SuiteIndices ==
  /\ Len(Covering) \in Nat
  /\ Suites = 1 .. Len(Covering)
  /\ \A t \in Suites : Covering[t] \subseteq Names
BY MutantVerdictAssumption DEF Suites, Names

\* A run begins with no suite judged.
LEMMA VerdictInit == Init => VerdictInv
<1> SUFFICES ASSUME Init PROVE VerdictInv
  OBVIOUS
<1>1. NotRun \in Ends
  BY DEF NotRun, Ends
<1>2. VerdictType
  BY <1>1, SuiteIndices DEF Init, VerdictType, Statuses
<1>3. Before(s) = {}
  BY SuiteIndices DEF Init, Before
<1>4. SoFar
  BY <1>3 DEF Init, SoFar
<1>5. Judging /\ FirstAttempt
  BY DEF Init, Judging, FirstAttempt
<1>6. Reported
  BY DEF Init, Reported, SurvivedEverything, TimeoutsConfirmed, KillsNotContradicted, KillersFailed
<1> QED
  BY <1>2, <1>4, <1>5, <1>6 DEF VerdictInv

\* Passing over a suite without covering tests.
LEMMA SkipSuiteKeeps == VerdictInv /\ SkipSuite => VerdictInv'
<1> SUFFICES ASSUME VerdictInv, SkipSuite PROVE VerdictInv'
  OBVIOUS
<1>0. pc = "run" /\ pc' = "run" /\ s \in Suites /\ s' = s + 1 /\ Covering[s] = {}
  BY DEF SkipSuite
<1>1. VerdictType'
  BY SuiteIndices DEF VerdictInv, VerdictType, SkipSuite, flags
<1>2. Before(s') = Before(s) \cup {s}
  BY <1>0, SuiteIndices DEF Before
<1>3. SoFar'
  BY <1>0, <1>2 DEF VerdictInv, SoFar, SkipSuite, FailedIn, Before, flags
<1>4. Judging' /\ FirstAttempt'
  BY <1>0 DEF VerdictInv, Judging, FirstAttempt, InTime, Ran, FailedIn, SkipSuite, flags
<1>5. Reported'
  BY <1>0 DEF Reported, SurvivedEverything, TimeoutsConfirmed, KillsNotContradicted, KillersFailed
<1> QED
  BY <1>1, <1>3, <1>4, <1>5 DEF VerdictInv

\* A process ends: only the log of the current suite changes, and the suites
\* judged so far are those before it.
LEMMA RunProcessKeeps == VerdictInv /\ RunProcess => VerdictInv'
<1> SUFFICES ASSUME VerdictInv, RunProcess PROVE VerdictInv'
  OBVIOUS
<1>0. pc = "run" /\ pc' = "judge" /\ s \in Suites /\ s' = s /\ attempt' = attempt
  BY DEF RunProcess
<1>t. VerdictType
  BY DEF VerdictInv
<1>e. PICK e \in Ends :
        /\ e.kind # "not run"
        /\ e.kind # "fail" => e.tests = {}
        /\ exitOf' = e
        /\ log' = [log EXCEPT ![attempt][s] = e]
  BY DEF RunProcess
<1>l. /\ log' \in [{1, 2} -> [Suites -> Ends]]
      /\ log'[attempt][s] = e
      /\ \A t \in Suites \ {s} : log'[attempt][t] = log[attempt][t]
      /\ \A a \in {1, 2} \ {attempt} : log'[a] = log[a]
  <2>1. attempt \in {1, 2} /\ log \in [{1, 2} -> [Suites -> Ends]]
    BY <1>t DEF VerdictType
  <2>2. log[attempt] \in [Suites -> Ends]
    BY <2>1
  <2> DEFINE row == [log[attempt] EXCEPT ![s] = e]
  <2>3. log' = [log EXCEPT ![attempt] = row]
    BY <1>e
  <2>4. /\ row \in [Suites -> Ends]
        /\ row[s] = e
        /\ \A t \in Suites \ {s} : row[t] = log[attempt][t]
    BY <1>0, <1>e, <2>2
  <2> HIDE DEF row
  <2>5. log'[attempt] = row
    BY <2>1, <2>3
  <2>6. log' \in [{1, 2} -> [Suites -> Ends]]
    BY <2>1, <2>3, <2>4
  <2>7. \A a \in {1, 2} \ {attempt} : log'[a] = log[a]
    BY <2>1, <2>3
  <2> QED
    BY <2>4, <2>5, <2>6, <2>7
<1>1. VerdictType'
  BY <1>0, <1>t, <1>e, <1>l DEF VerdictType, RunProcess, flags
<1>2. \A t \in Before(s) : t \in Suites \ {s}
  BY SuiteIndices, <1>0 DEF Before
<1>3. SoFar'
  <2>1. /\ status' = status /\ killers' = killers /\ Before(s)' = Before(s)
        /\ \A t \in Before(s) : log'[attempt'][t] = log[attempt][t]
    BY <1>0, <1>l, <1>2 DEF RunProcess, Before
  <2>2. FailedIn(attempt, Before(s))' = FailedIn(attempt, Before(s))
    BY <2>1, <1>0 DEF FailedIn
  <2>3. SoFar
    BY <1>0 DEF VerdictInv
  <2> QED
    BY <2>1, <2>2, <2>3 DEF SoFar
<1>4. Judging'
  BY <1>0, <1>e, <1>l DEF Judging
<1>5. FirstAttempt'
  <2> SUFFICES ASSUME attempt' = 2 PROVE FirstAttempt'
    BY DEF FirstAttempt
  <2>0. attempt = 2 /\ result' = result
    BY <1>0 DEF RunProcess
  <2>1. log'[1] = log[1]
    BY <2>0, <1>l
  <2>2. (InTime(1)' <=> InTime(1)) /\ FailedIn(1, Suites)' = FailedIn(1, Suites)
    BY <2>1 DEF InTime, Ran, FailedIn
  <2> QED
    BY <1>0, <2>0, <2>2 DEF VerdictInv, FirstAttempt
<1>6. Reported'
  BY <1>0 DEF Reported, SurvivedEverything, TimeoutsConfirmed, KillsNotContradicted, KillersFailed
<1> QED
  BY <1>1, <1>3, <1>4, <1>5, <1>6 DEF VerdictInv

\* The judgement of a suite: the status and the killers take in the suite just
\* run; a kill that ends the attempt early leaves a witness behind.
LEMMA JudgeSuiteKeeps == VerdictInv /\ JudgeSuite => VerdictInv'
<1> SUFFICES ASSUME VerdictInv, JudgeSuite PROVE VerdictInv'
  OBVIOUS
<1>0. /\ pc = "judge" /\ pc' = "run" /\ attempt' = attempt /\ log' = log /\ result' = result
      /\ exitOf' = exitOf /\ failFast' = failFast /\ verifyKills' = verifyKills
      /\ VerdictType /\ SoFar /\ Judging
  BY DEF VerdictInv, JudgeSuite, flags
<1>1. /\ s \in Suites /\ exitOf = log[attempt][s] /\ exitOf.kind # "not run"
      /\ exitOf \in Ends
      /\ exitOf.kind # "fail" => exitOf.tests = {}
  BY <1>0 DEF Judging, VerdictType
<1> DEFINE st == SuiteStatus(exitOf)
<1>2. /\ status' = Worse(status, st)
      /\ killers' = IF st = "killed" THEN killers \cup exitOf.tests ELSE killers
      /\ s' = IF st = "killed" /\ failFast THEN Len(Covering) + 1 ELSE s + 1
  BY DEF JudgeSuite
<1>3. /\ st \in Statuses
      /\ st = "survived" => exitOf.kind = "pass" /\ ~exitOf.late
      /\ st = "timeout" => exitOf.late
      /\ st = "killed" => exitOf.kind # "pass" /\ ~exitOf.late
  BY <1>1 DEF SuiteStatus, Statuses, Ends
<1> HIDE DEF st
<1>w. /\ status' \in Statuses
      /\ status' = "survived" => status = "survived" /\ st = "survived"
      /\ status' = "timeout" => "timeout" \in {status, st} /\ st # "killed"
      /\ status' = "killed" <=> "killed" \in {status, st}
  BY <1>0, <1>2, <1>3 DEF Worse, VerdictType, Statuses
<1>s. /\ s' \in 1 .. Len(Covering) + 1
      /\ s \in Before(s') /\ Before(s) \subseteq Before(s')
      /\ st # "killed" => Before(s') = Before(s) \cup {s}
  <2>1. s \in 1 .. Len(Covering) /\ Len(Covering) \in Nat
    BY <1>1, SuiteIndices
  <2>2. s' \in {s + 1, Len(Covering) + 1} /\ (st # "killed" => s' = s + 1)
    BY <1>2
  <2>3. s' \in 1 .. Len(Covering) + 1 /\ s < s'
    BY <2>1, <2>2
  <2>4. s \in Before(s') /\ Before(s) \subseteq Before(s')
    BY <2>1, <2>3, SuiteIndices DEF Before
  <2>5. st # "killed" => Before(s') = Before(s) \cup {s}
    BY <2>1, <2>2, SuiteIndices DEF Before
  <2> QED
    BY <2>3, <2>4, <2>5
<1>4. VerdictType'
  <2>1. exitOf.tests \subseteq Names
    BY <1>1 DEF Ends
  <2> QED
    BY <1>0, <1>2, <1>w, <1>s, <2>1 DEF VerdictType
<1>5. SoFar'
  <2>1. ASSUME status' = "survived", NEW t \in Before(s'), Covering[t] # {}
        PROVE  log[attempt][t].kind = "pass" /\ ~log[attempt][t].late
    BY <1>0, <1>1, <1>3, <1>w, <1>s, <2>1 DEF SoFar
  <2>2. ASSUME status' = "timeout"
        PROVE  \E t \in Before(s') : log[attempt][t].kind # "not run" /\ log[attempt][t].late
    BY <1>0, <1>1, <1>3, <1>w, <1>s, <2>2 DEF SoFar
  <2>3. ASSUME status' = "killed"
        PROVE  \E t \in Before(s') : log[attempt][t].kind \notin {"not run", "pass"} /\ ~log[attempt][t].late
    BY <1>0, <1>1, <1>3, <1>w, <1>s, <2>3 DEF SoFar
  <2>4. killers' # {} => status' = "killed"
    BY <1>0, <1>2, <1>w DEF SoFar
  <2>5. killers' \subseteq FailedIn(attempt, Before(s'))
    <3>1. FailedIn(attempt, Before(s)) \subseteq FailedIn(attempt, Before(s'))
      BY <1>s DEF FailedIn
    <3>2. exitOf.tests \subseteq FailedIn(attempt, Before(s'))
      BY <1>1, <1>s DEF FailedIn
    <3> QED
      BY <1>0, <1>2, <3>1, <3>2 DEF SoFar
  <2>6. FailedIn(attempt, Before(s))' = FailedIn(attempt, Before(s'))
    BY <1>0 DEF FailedIn, Before
  <2>7. Before(s)' = Before(s')
    BY DEF Before
  <2> QED
    BY <1>0, <2>1, <2>2, <2>3, <2>4, <2>5, <2>6, <2>7 DEF SoFar
<1>6. Judging' /\ FirstAttempt'
  BY <1>0 DEF VerdictInv, Judging, FirstAttempt, InTime, Ran, FailedIn
<1>7. Reported'
  BY <1>0 DEF Reported, SurvivedEverything, TimeoutsConfirmed, KillsNotContradicted, KillersFailed
<1> QED
  BY <1>4, <1>5, <1>6, <1>7 DEF VerdictInv

\* When the last suite was judged, the status speaks of all of them.
LEMMA AllJudged ==
  ASSUME VerdictInv, pc = "run", s \notin Suites
  PROVE  /\ status = "survived" => \A t \in Suites : Covering[t] # {} =>
              log[attempt][t].kind = "pass" /\ ~log[attempt][t].late
         /\ status = "timeout" => ~InTime(attempt)
         /\ status # "survived" =>
              \E t \in Suites : Ran(attempt, t) /\ (log[attempt][t].kind # "pass" \/ log[attempt][t].late)
         /\ killers # {} => status = "killed"
         /\ killers \subseteq FailedIn(attempt, Suites)
<1>1. Before(s) = Suites
  BY SuiteIndices DEF VerdictInv, VerdictType, Before
<1>2. SoFar /\ VerdictType
  BY DEF VerdictInv
<1>3. status \in {"survived", "timeout", "killed"}
  BY <1>2 DEF VerdictType, Statuses
<1> QED
  BY <1>1, <1>2, <1>3 DEF SoFar, InTime, Ran

\* The end of an attempt: its verdict stands, or it is handed to the re-run.
LEMMA EndAttemptKeeps == VerdictInv /\ EndAttempt => VerdictInv'
<1> SUFFICES ASSUME VerdictInv, EndAttempt PROVE VerdictInv'
  OBVIOUS
<1>0. /\ pc = "run" /\ s \notin Suites /\ log' = log /\ exitOf' = exitOf
      /\ failFast' = failFast /\ verifyKills' = verifyKills
      /\ VerdictType /\ FirstAttempt
  BY DEF VerdictInv, EndAttempt, flags
<1> DEFINE again == attempt = 1 /\ (status = "timeout" \/ (verifyKills /\ status = "killed"))
           stands == attempt = 2 /\ result.status = "killed" /\ status # "survived"
<1>1. /\ result' = IF stands THEN result ELSE [status |-> status, killers |-> killers]
      /\ IF again
           THEN attempt' = 2 /\ s' = 1 /\ status' = "survived" /\ killers' = {} /\ pc' = "run"
           ELSE pc' = "done" /\ attempt' = attempt /\ s' = s /\ status' = status /\ killers' = killers
  BY DEF EndAttempt
<1>2. VerdictType'
  BY <1>0, <1>1, SuiteIndices DEF VerdictType, Statuses
<1>3. CASE again
  <2>1. /\ attempt = 1 /\ attempt' = 2 /\ s' = 1 /\ status' = "survived" /\ killers' = {} /\ pc' = "run"
        /\ result'.status = status /\ result'.killers = killers /\ status \in {"timeout", "killed"}
    BY <1>1, <1>3
  <2>2. Before(s)' = {}
    BY <2>1, SuiteIndices DEF Before
  <2>3. SoFar'
    BY <2>1, <2>2 DEF SoFar
  <2>4. Judging'
    BY <2>1 DEF Judging
  <2>5. FirstAttempt'
    <3>1. (InTime(1)' <=> InTime(1)) /\ FailedIn(1, Suites)' = FailedIn(1, Suites)
      BY <1>0 DEF InTime, Ran, FailedIn
    <3> QED
      BY <1>0, <2>1, <3>1, AllJudged DEF FirstAttempt
  <2>6. Reported'
    BY <2>1 DEF Reported, SurvivedEverything, TimeoutsConfirmed, KillsNotContradicted, KillersFailed
  <2> QED
    BY <1>2, <2>3, <2>4, <2>5, <2>6 DEF VerdictInv
<1>4. CASE ~again
  <2>1. pc' = "done" /\ attempt' = attempt
    BY <1>1, <1>4
  <2>2. Judging' /\ FirstAttempt'
    BY <2>1 DEF Judging, FirstAttempt
  <2>3. attempt = 1 => status # "timeout" /\ ~(verifyKills /\ status = "killed")
    BY <1>4
  <2>4. attempt \in {1, 2} /\ status \in Statuses
    BY <1>0 DEF VerdictType
  <2>5. stands => result'.status = "killed" /\ result'.killers = result.killers
    BY <1>1
  <2>6. ~stands => result'.status = status /\ result'.killers = killers
    BY <1>1
  <2>7. /\ \A a \in {1, 2} : InTime(a)' <=> InTime(a)
        /\ \A a \in {1, 2}, t \in Suites : Ran(a, t)' <=> Ran(a, t)
        /\ \A a \in {1, 2} : FailedIn(a, Suites)' = FailedIn(a, Suites)
    BY <1>0 DEF InTime, Ran, FailedIn
  <2>8. SurvivedEverything'
    BY <1>0, <2>1, <2>4, <2>5, <2>6, AllJudged DEF SurvivedEverything, Ran
  <2>9. TimeoutsConfirmed'
    <3> SUFFICES ASSUME result'.status = "timeout"
                 PROVE  attempt' = 2 /\ ~InTime(1)' /\ ~InTime(2)'
      BY DEF TimeoutsConfirmed
    <3>1. ~stands /\ status = "timeout" /\ attempt = 2
      BY <2>3, <2>4, <2>5, <2>6
    <3>2. result.status = "timeout"
      BY <1>0, <3>1 DEF FirstAttempt
    <3> QED
      BY <1>0, <2>1, <2>7, <3>1, <3>2, AllJudged DEF FirstAttempt
  <2>10. KillsNotContradicted'
    <3> SUFFICES ASSUME verifyKills, result'.status = "killed"
                 PROVE  \E t \in Suites : Ran(2, t) /\ (log[2][t].kind # "pass" \/ log[2][t].late)
      BY <1>0, <2>1, <2>7 DEF KillsNotContradicted
    <3>1. attempt = 2 /\ status # "survived"
      BY <2>3, <2>4, <2>5, <2>6
    <3> QED
      BY <1>0, <3>1, AllJudged
  <2>11. KillersFailed'
    <3>1. \A a \in {1, 2} :
            UNION {log[a][t].tests : t \in Failed(a)} = FailedIn(a, Suites)
      BY DEF FailedIn, Failed
    <3>2. \A a \in {1, 2} :
            UNION {log'[a][t].tests : t \in Failed(a)'} = FailedIn(a, Suites)
      BY <1>0, <3>1 DEF Failed
    <3>3. CASE stands
      <4>1. result.killers \subseteq FailedIn(1, Suites)
        BY <1>0, <3>3 DEF FirstAttempt
      <4>2. 1 \in 1 .. attempt'
        BY <2>1, <2>4
      <4> QED
        BY <2>5, <3>2, <3>3, <4>1, <4>2 DEF KillersFailed
    <3>4. CASE ~stands
      <4>1. killers \subseteq FailedIn(attempt, Suites) /\ (killers # {} => status = "killed")
        BY <1>0, AllJudged
      <4>2. attempt \in 1 .. attempt'
        BY <2>1, <2>4
      <4> QED
        BY <2>4, <2>6, <3>2, <3>4, <4>1, <4>2 DEF KillersFailed
    <3> QED
      BY <3>3, <3>4
  <2> QED
    BY <1>2, <2>1, <2>2, <2>8, <2>9, <2>10, <2>11 DEF VerdictInv, Reported
<1> QED
  BY <1>3, <1>4

\* The invariant holds in every reachable state.
LEMMA VerdictInvAlways == Spec => []VerdictInv
<1>1. VerdictInv /\ [Next]_vars => VerdictInv'
  <2> SUFFICES ASSUME VerdictInv, [Next]_vars PROVE VerdictInv'
    OBVIOUS
  <2>1. CASE Next
    BY <2>1, SkipSuiteKeeps, RunProcessKeeps, JudgeSuiteKeeps, EndAttemptKeeps DEF Next
  <2>2. CASE UNCHANGED vars
    <3>1. /\ failFast' = failFast /\ verifyKills' = verifyKills /\ attempt' = attempt
          /\ pc' = pc /\ s' = s /\ status' = status /\ killers' = killers
          /\ exitOf' = exitOf /\ result' = result /\ log' = log
      BY <2>2 DEF vars, flags
    <3>2. VerdictType'
      BY <3>1 DEF VerdictInv, VerdictType
    <3>3. pc' # "done" => SoFar'
      BY <3>1 DEF VerdictInv, SoFar, FailedIn, Before
    <3>4. Judging' /\ FirstAttempt'
      BY <3>1 DEF VerdictInv, Judging, FirstAttempt, InTime, Ran, FailedIn
    <3>5. SurvivedEverything' /\ TimeoutsConfirmed'
      BY <3>1 DEF VerdictInv, Reported, SurvivedEverything, TimeoutsConfirmed, InTime, Ran
    <3>6. KillsNotContradicted' /\ KillersFailed'
      BY <3>1 DEF VerdictInv, Reported, KillsNotContradicted, KillersFailed, Ran, Failed
    <3> QED
      BY <3>2, <3>3, <3>4, <3>5, <3>6 DEF VerdictInv, Reported
  <2> QED
    BY <2>1, <2>2
<1> QED
  BY VerdictInit, <1>1, PTL DEF Spec

\* runMutantSuites reports a mutant as survived only if, in the attempt that
\* decides, every covering test of every suite ran, in time, and passed.
THEOREM SurvivedEverythingAlways == Spec => []SurvivedEverything
<1>1. VerdictInv => SurvivedEverything
  BY DEF VerdictInv, Reported
<1> QED
  BY VerdictInvAlways, <1>1, PTL

\* confirmVerdicts reports a timeout only if the mutant ran out of time among
\* the others and again alone.
THEOREM TimeoutsConfirmedAlways == Spec => []TimeoutsConfirmed
<1>1. VerdictInv => TimeoutsConfirmed
  BY DEF VerdictInv, Reported
<1> QED
  BY VerdictInvAlways, <1>1, PTL

\* With --verify-kills, confirmVerdicts lets no kill stand whose tests all
\* passed in time when the mutant ran alone.
THEOREM KillsNotContradictedAlways == Spec => []KillsNotContradicted
<1>1. VerdictInv => KillsNotContradicted
  BY DEF VerdictInv, Reported
<1> QED
  BY VerdictInvAlways, <1>1, PTL

\* The killers runMutantSuites names failed in the attempt the result is from,
\* and only a killed mutant has any.
THEOREM KillersFailedAlways == Spec => []KillersFailed
<1>1. VerdictInv => KillersFailed
  BY DEF VerdictInv, Reported
<1> QED
  BY VerdictInvAlways, <1>1, PTL
=============================================================================
