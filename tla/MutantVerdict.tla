---------------------------- MODULE MutantVerdict ---------------------------
(***************************************************************************)
(* How one mutant gets its verdict: runMutantSuites and confirmVerdicts of *)
(* cmd/kanly/main.go, RunMutant and runTestCommand of internal/runner.     *)
(* The covering tests of each suite run in a process of their own, one     *)
(* suite after the other; a doubtful verdict is re-run alone.              *)
(*                                                                         *)
(* What the tests do differs from one process to the next: they may be     *)
(* flaky, or collide with others running beside them.                      *)
(***************************************************************************)
EXTENDS Integers, Sequences

CONSTANT Covering   \* Covering[s]: the tests of suite s that cover the mutant

Suites == DOMAIN Covering
Names == UNION {Covering[t] : t \in Suites}

ASSUME MutantVerdictAssumption ==
  /\ Covering \in Seq(SUBSET Names)
  /\ \E t \in Suites : Covering[t] # {}

VARIABLES
  failFast,     \* no --kill-matrix
  verifyKills,  \* --verify-kills
  attempt,  \* 1: among the other mutants; 2: the re-run, alone
  pc,       \* "run", "judge" (a process ended) or "done"
  s,        \* the suite whose tests run
  status,   \* of the mutant in this attempt, so far
  killers,  \* the tests that killed it in this attempt
  exitOf,   \* how the last process ended
  result,   \* the mutant's result
  log       \* history: how each suite's process ended, per attempt

flags == <<failFast, verifyKills>>
vars == <<flags, attempt, pc, s, status, killers, exitOf, result, log>>

Statuses == {"survived", "killed", "timeout"}

\* A process passes, fails with the tests it named (none if it crashed outside
\* a test), or does not start; whether its deadline has passed is looked up
\* only after it ended.
Ends == [kind : {"not run", "pass", "fail", "error"}, tests : SUBSET Names, late : BOOLEAN]
NotRun == [kind |-> "not run", tests |-> {}, late |-> FALSE]

Init ==
  /\ failFast \in BOOLEAN /\ verifyKills \in BOOLEAN
  /\ attempt = 1
  /\ pc = "run"
  /\ s = 1
  /\ status = "survived"
  /\ killers = {}
  /\ exitOf = NotRun
  /\ result = [status |-> "none", killers |-> {}]
  /\ log = [a \in {1, 2} |-> [t \in Suites |-> NotRun]]

-----------------------------------------------------------------------------
\* Suites without covering tests are passed over.
SkipSuite ==
  /\ pc = "run" /\ s \in Suites
  /\ Covering[s] = {}
  /\ s' = s + 1
  /\ UNCHANGED <<flags, attempt, pc, status, killers, exitOf, result, log>>

\* runTestCommand: the process of a suite, from start to exit.
RunProcess ==
  /\ pc = "run" /\ s \in Suites
  /\ Covering[s] # {}
  /\ \E e \in Ends :
       /\ e.kind # "not run"
       /\ e.tests \subseteq Covering[s]
       /\ e.kind # "fail" => e.tests = {}
       /\ exitOf' = e
       /\ log' = [log EXCEPT ![attempt][s] = e]
  /\ pc' = "judge"
  /\ UNCHANGED <<flags, attempt, s, status, killers, result>>

\* RunMutant: a deadline that has passed decides, whatever the process did; any
\* other error of running it is a kill.
SuiteStatus(e) ==
  IF e.late THEN "timeout" ELSE IF e.kind = "pass" THEN "survived" ELSE "killed"

\* Mutant: the last suite decides.
WorseLast(old, new) == new

\* A kill is never taken back, and a timeout only gives way to a kill.
Worse(old, new) == IF "killed" \in {old, new} THEN "killed"
                   ELSE IF "timeout" \in {old, new} THEN "timeout" ELSE "survived"

\* Mutant: failures are read from the output of a process that timed out.
JudgeSuiteLate ==
  /\ pc = "judge"
  /\ LET st == SuiteStatus(exitOf)
     IN  /\ status' = Worse(status, st)
         /\ killers' = killers \cup exitOf.tests
         /\ s' = IF st = "killed" /\ failFast THEN Len(Covering) + 1 ELSE s + 1
  /\ pc' = "run"
  /\ UNCHANGED <<flags, attempt, exitOf, result, log>>

JudgeSuite ==
  /\ pc = "judge"
  /\ LET st == SuiteStatus(exitOf)
     IN  /\ status' = Worse(status, st)
         /\ killers' = IF st = "killed" THEN killers \cup exitOf.tests ELSE killers
         /\ s' = IF st = "killed" /\ failFast THEN Len(Covering) + 1 ELSE s + 1
  /\ pc' = "run"
  /\ UNCHANGED <<flags, attempt, exitOf, result, log>>

\* Mutant: timeouts are not re-run.
EndAttemptTrusting ==
  /\ pc = "run" /\ s \notin Suites
  /\ result' = [status |-> status, killers |-> killers]
  /\ pc' = "done"
  /\ UNCHANGED <<flags, attempt, s, status, killers, exitOf, log>>

\* Mutant: a kill stands whatever the re-run says.
EndAttemptStubborn ==
  /\ pc = "run" /\ s \notin Suites
  /\ LET again == attempt = 1 /\ (status = "timeout" \/ (verifyKills /\ status = "killed"))
         stands == attempt = 2 /\ result.status = "killed"
     IN  /\ result' = IF stands THEN result ELSE [status |-> status, killers |-> killers]
         /\ IF again
              THEN attempt' = 2 /\ s' = 1 /\ status' = "survived" /\ killers' = {} /\ pc' = "run"
              ELSE pc' = "done" /\ UNCHANGED <<attempt, s, status, killers>>
  /\ UNCHANGED <<flags, exitOf, log>>

\* The attempt's verdict is in.  confirmVerdicts re-runs a timeout and, with
\* --verify-kills, a kill; a timeout takes the verdict of the re-run, a kill
\* only gives way to survival.
EndAttempt ==
  /\ pc = "run" /\ s \notin Suites
  /\ LET again == attempt = 1 /\ (status = "timeout" \/ (verifyKills /\ status = "killed"))
         stands == attempt = 2 /\ result.status = "killed" /\ status # "survived"
     IN  /\ result' = IF stands THEN result ELSE [status |-> status, killers |-> killers]
         /\ IF again
              THEN attempt' = 2 /\ s' = 1 /\ status' = "survived" /\ killers' = {} /\ pc' = "run"
              ELSE pc' = "done" /\ UNCHANGED <<attempt, s, status, killers>>
  /\ UNCHANGED <<flags, exitOf, log>>

Next == SkipSuite \/ RunProcess \/ JudgeSuite \/ EndAttempt

Spec == Init /\ [][Next]_vars

-----------------------------------------------------------------------------
Ran(a, t) == log[a][t].kind # "not run"
Failed(a) == {t \in Suites : log[a][t].kind = "fail"}
InTime(a) == \A t \in Suites : Ran(a, t) => ~log[a][t].late

\* A mutant counts as survived only if, in the attempt that decides, every
\* covering test of every suite ran, in time, and passed.
SurvivedEverything ==
  pc = "done" /\ result.status = "survived" =>
    \A t \in Suites : Covering[t] # {} =>
      Ran(attempt, t) /\ log[attempt][t].kind = "pass" /\ ~log[attempt][t].late

\* "Every timeout is re-run": a mutant reported as timed out ran out of time
\* twice, the second time alone and with the longer budget.
TimeoutsConfirmed ==
  pc = "done" /\ result.status = "timeout" => attempt = 2 /\ ~InTime(1) /\ ~InTime(2)

\* With --verify-kills a kill that stands was not contradicted: no mutant is
\* reported killed whose tests all passed, in time, when it ran alone.
KillsNotContradicted ==
  pc = "done" /\ verifyKills /\ result.status = "killed" =>
    \E t \in Suites : Ran(2, t) /\ (log[2][t].kind # "pass" \/ log[2][t].late)

\* The tests named as killers did fail, in the attempt the result comes from.
KillersFailed ==
  pc = "done" => /\ result.killers # {} => result.status = "killed"
                 /\ \E a \in 1 .. attempt : result.killers
                      \subseteq UNION {log[a][t].tests : t \in Failed(a)}
=============================================================================
