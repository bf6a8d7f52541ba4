----------------------------- MODULE SuiteSetup -----------------------------
(***************************************************************************)
(* How a test suite is set up before it judges mutants: establishBaseline  *)
(* and the coverage part of runPackage and dependentSuites of              *)
(* cmd/kanly/main.go, RunBaseline and CollectPerTestCoverage of            *)
(* internal/runner, and the set-up cache of cmd/kanly/cache.go, which      *)
(* kanly processes on one suite share while a developer edits.             *)
(*                                                                         *)
(* Tests are flaky: what one does differs from process to process.  A      *)
(* version stands for the bytes of a binary, or for the sizes and times of *)
(* the files that moduleStamp reads; an edit never brings back an old one. *)
(* A binary reports every selected test unless the run fails.  The reasons *)
(* given for excluding a test are text and left out.                       *)
(***************************************************************************)
EXTENDS Integers, FiniteSets

CONSTANTS
  Runs,               \* kanly processes, each started over and over
  Tests,              \* the suite's top-level tests
  Selections,         \* Selections[r]: the sets of tests that --tests may select in r
  Lines,              \* lines of the mutated package
  Mutants,            \* mutations: [line, coverLine, packageInit]
  MaxBaselineRounds,  \* maxBaselineRounds
  MaxEdits,           \* bound on the edits
  MaxStored           \* bound on the set-ups in the cache

ASSUME SuiteSetupAssumption ==
  /\ IsFiniteSet(Tests)
  /\ Selections \in [Runs -> SUBSET (SUBSET Tests)]
  /\ Mutants \subseteq [line : Lines, coverLine : Lines \cup {0}, packageInit : BOOLEAN]
  /\ 0 \notin Lines
  /\ MaxBaselineRounds \in Nat /\ MaxEdits \in Nat /\ MaxStored \in Nat

VARIABLES
  sources,   \* version of the code that the binaries link
  fixtures,  \* version of the module's other files
  cache,     \* setupCache: the stored set-ups, with their keys
  pc,
  cfg,       \* the run: its suite, its --tests and the stamp it took
  bins,      \* versions in the schema binary and in the coverage binary
  skip,      \* establishBaseline: the tests that failed so far
  round,     \* establishBaseline: the rounds so far
  setup,     \* the baseline's tests and the coverage map
  excluded   \* the tests reported as excluded

runVars == <<pc, cfg, bins, skip, round, setup, excluded>>
vars == <<sources, fixtures, cache, runVars>>

Versions == 0 .. MaxEdits
NoStamp == -1
Configs == [own : BOOLEAN, tests : SUBSET Tests, stamp : Versions \cup {NoStamp}]
Bins == [schema : Versions, cov : Versions]

\* Baseline.Tests and the coverage map, with the history of the set-up: what
\* it was made from and the tests that failed in it.
Origins == [bins : Bins, tests : SUBSET Tests, fixtures : Versions, failed : SUBSET Tests]
Setups == [tests : SUBSET Tests, covMap : [Lines -> SUBSET Tests], of : Origins]

\* setupCache.key: the binaries, the stamp and --tests.
Keys == [bins : Bins, stamp : Versions, tests : SUBSET Tests]

NoBins == [schema |-> 0, cov |-> 0]
NoConfig == [own |-> TRUE, tests |-> {}, stamp |-> NoStamp]
NoSetup == [tests |-> {}, covMap |-> [l \in Lines |-> {}],
            of |-> [bins |-> NoBins, tests |-> {}, fixtures |-> 0, failed |-> {}]]

TypeOK ==
  /\ sources \in Versions /\ fixtures \in Versions
  /\ cache \subseteq [key : Keys, setup : Setups]
  /\ pc \in [Runs -> {"idle", "compile", "compileCov", "look up", "baseline",
                      "coverage", "ready", "failing tests"}]
  /\ cfg \in [Runs -> Configs]
  /\ bins \in [Runs -> Bins]
  /\ skip \in [Runs -> SUBSET Tests]
  /\ round \in [Runs -> 0 .. MaxBaselineRounds]
  /\ setup \in [Runs -> Setups]
  /\ excluded \in [Runs -> SUBSET Tests]

Init ==
  /\ sources = 0 /\ fixtures = 0
  /\ cache = {}
  /\ pc = [r \in Runs |-> "idle"]
  /\ cfg = [r \in Runs |-> NoConfig]
  /\ bins = [r \in Runs |-> NoBins]
  /\ skip = [r \in Runs |-> {}]
  /\ round = [r \in Runs |-> 0]
  /\ setup = [r \in Runs |-> NoSetup]
  /\ excluded = [r \in Runs |-> {}]

GoTo(r, l) == pc' = [pc EXCEPT ![r] = l]

\* A suite is given up because of its failing tests; which they are is kept as
\* history.  skip and round end with establishBaseline, whose variables they are.
GiveUp(r, failed) ==
  /\ GoTo(r, "failing tests")
  /\ setup' = [setup EXCEPT ![r].of.failed = failed]
  /\ skip' = [skip EXCEPT ![r] = {}]
  /\ round' = [round EXCEPT ![r] = 0]
  /\ UNCHANGED <<cfg, bins, excluded>>

\* A run ends, and what it knew with it.
Quit(r) ==
  /\ GoTo(r, "idle")
  /\ cfg' = [cfg EXCEPT ![r] = NoConfig]
  /\ bins' = [bins EXCEPT ![r] = NoBins]
  /\ skip' = [skip EXCEPT ![r] = {}]
  /\ round' = [round EXCEPT ![r] = 0]
  /\ setup' = [setup EXCEPT ![r] = NoSetup]
  /\ excluded' = [excluded EXCEPT ![r] = {}]

-----------------------------------------------------------------------------
\* A source file or a fixture changes: the developer saves it, or a test writes it.
Edit ==
  /\ sources + fixtures < MaxEdits
  /\ \/ sources' = sources + 1 /\ UNCHANGED fixtures
     \/ fixtures' = fixtures + 1 /\ UNCHANGED sources
  /\ UNCHANGED <<cache, runVars>>

\* moduleStamp of the files as they are now; "" when one cannot be read.
ModuleStamps == {fixtures, NoStamp}

\* A run begins: the module is stamped before anything is compiled.
Start(r) ==
  /\ pc[r] = "idle"
  /\ \E own \in BOOLEAN, T \in Selections[r], stamp \in ModuleStamps :
       cfg' = [cfg EXCEPT ![r] = [own |-> own, tests |-> T, stamp |-> stamp]]
  /\ GoTo(r, "compile")
  /\ UNCHANGED <<sources, fixtures, cache, bins, skip, round, setup, excluded>>

\* CompileDependentTestBinary, then CompileDependentCoverageBinary.
Compile(r) ==
  /\ pc[r] = "compile"
  /\ bins' = [bins EXCEPT ![r].schema = sources]
  /\ GoTo(r, "compileCov")
  /\ UNCHANGED <<sources, fixtures, cache, cfg, skip, round, setup, excluded>>

CompileCov(r) ==
  /\ pc[r] = "compileCov"
  /\ bins' = [bins EXCEPT ![r].cov = sources]
  /\ GoTo(r, IF cfg[r].own THEN "baseline" ELSE "look up")
  /\ UNCHANGED <<sources, fixtures, cache, cfg, skip, round, setup, excluded>>

\* A binary does not compile, fails outside any test or does not end in time,
\* or a cover profile cannot be read.
Break(r) ==
  /\ pc[r] \in {"compile", "compileCov", "baseline", "coverage"}
  /\ Quit(r)
  /\ UNCHANGED <<sources, fixtures, cache>>

\* Mutant: --tests is not part of the key.
KeyAnyTests(r) == [bins |-> bins[r], stamp |-> cfg[r].stamp, tests |-> {}]

\* Mutant: the stamp is not part of the key.
KeyUnstamped(r) == [bins |-> bins[r], stamp |-> 0, tests |-> cfg[r].tests]

Key(r) == [bins |-> bins[r], stamp |-> cfg[r].stamp, tests |-> cfg[r].tests]

\* A set-up stored under the key is taken as it is; otherwise, or when the
\* binaries or the file cannot be read, the tests run.
LookUp(r) ==
  /\ pc[r] = "look up"
  /\ \/ \E e \in cache :
          /\ cfg[r].stamp # NoStamp
          /\ e.key = Key(r)
          /\ setup' = [setup EXCEPT ![r] = e.setup]
          /\ GoTo(r, "ready")
     \/ UNCHANGED setup /\ GoTo(r, "baseline")
  /\ UNCHANGED <<sources, fixtures, cache, cfg, bins, skip, round, excluded>>

-----------------------------------------------------------------------------
\* RunBaseline without the tests that failed so far: those that are left pass.
\* When none is left, "every test fails with no mutant applied".
BaselinePasses(r) ==
  /\ pc[r] = "baseline"
  /\ LET ran == cfg[r].tests \ skip[r]
     IN  IF ran = {} /\ skip[r] # {}
           THEN GiveUp(r, skip[r])
           ELSE /\ setup' = [setup EXCEPT ![r] =
                     [tests |-> ran, covMap |-> NoSetup.covMap,
                      of |-> [bins |-> bins[r], tests |-> cfg[r].tests,
                              fixtures |-> fixtures, failed |-> skip[r]]]]
                /\ GoTo(r, "coverage")
                /\ skip' = [skip EXCEPT ![r] = {}]
                /\ round' = [round EXCEPT ![r] = 0]
                /\ UNCHANGED <<cfg, bins, excluded>>
  /\ UNCHANGED <<sources, fixtures, cache>>

\* Mutant: the last round is not used.
BaselineFailsEarly(r) ==
  /\ pc[r] = "baseline"
  /\ \E F \in (SUBSET (cfg[r].tests \ skip[r])) \ {{}} :
       IF round[r] + 1 >= MaxBaselineRounds
         THEN GiveUp(r, skip[r] \cup F)
         ELSE /\ skip' = [skip EXCEPT ![r] = @ \cup F]
              /\ excluded' = [excluded EXCEPT ![r] = @ \cup F]
              /\ round' = [round EXCEPT ![r] = @ + 1]
              /\ UNCHANGED <<pc, cfg, bins, setup>>
  /\ UNCHANGED <<sources, fixtures, cache>>

\* Some tests fail.  They are re-run to say why, excluded and skipped in the
\* next round, unless there have been maxBaselineRounds already.
BaselineFails(r) ==
  /\ pc[r] = "baseline"
  /\ \E F \in (SUBSET (cfg[r].tests \ skip[r])) \ {{}} :
       IF round[r] = MaxBaselineRounds
         THEN GiveUp(r, skip[r] \cup F)
         ELSE /\ skip' = [skip EXCEPT ![r] = @ \cup F]
              /\ excluded' = [excluded EXCEPT ![r] = @ \cup F]
              /\ round' = [round EXCEPT ![r] = @ + 1]
              /\ UNCHANGED <<pc, cfg, bins, setup>>
  /\ UNCHANGED <<sources, fixtures, cache>>

-----------------------------------------------------------------------------
\* Mutant: the profile of a test that failed on its own counts as well.
CountedAll(tests, failed) == tests

\* The merge of CollectPerTestCoverage leaves out the tests that failed on their own.
Counted(tests, failed) == tests \ failed

\* The tests whose profile has a block that contains the line.
CovMap(touched) == [l \in Lines |-> {t \in DOMAIN touched : l \in touched[t]}]

\* setupCache.store, which may fail, and does when the bound is reached.
Store(r, s) ==
  LET others == {e \in cache : e.key # Key(r)}
  IN  \/ /\ cfg[r].stamp # NoStamp
         /\ Cardinality(others) < MaxStored
         /\ cache' = others \cup {[key |-> Key(r), setup |-> s]}
      \/ UNCHANGED cache

\* CollectPerTestCoverage: each test runs on its own, and is excluded if it
\* fails; a package none of whose own tests passes alone is given up.  A
\* dependent's set-up is stored when no test was excluded.
CollectCoverage(r) ==
  /\ pc[r] = "coverage"
  /\ \E failed \in SUBSET setup[r].tests :
     \E touched \in [Counted(setup[r].tests, failed) -> SUBSET Lines] :
       LET s == [setup[r] EXCEPT !.covMap = CovMap(touched), !.of.failed = @ \cup failed]
       IN  IF cfg[r].own /\ failed # {} /\ failed = setup[r].tests
             THEN GiveUp(r, setup[r].of.failed \cup failed) /\ UNCHANGED cache
             ELSE /\ setup' = [setup EXCEPT ![r] = s]
                  /\ excluded' = [excluded EXCEPT ![r] = @ \cup failed]
                  /\ GoTo(r, "ready")
                  /\ IF ~cfg[r].own /\ excluded[r] \cup failed = {}
                       THEN Store(r, s) ELSE UNCHANGED cache
                  /\ UNCHANGED <<cfg, bins, skip, round>>
  /\ UNCHANGED <<sources, fixtures>>

\* The suite has judged its mutants, or was given up.
End(r) ==
  /\ pc[r] \in {"ready", "failing tests"}
  /\ Quit(r)
  /\ UNCHANGED <<sources, fixtures, cache>>

RunStep(r) ==
  \/ Start(r) \/ Compile(r) \/ CompileCov(r) \/ LookUp(r)
  \/ BaselinePasses(r) \/ BaselineFails(r) \/ CollectCoverage(r)
  \/ Break(r) \/ End(r)

Next == Edit \/ \E r \in Runs : RunStep(r)

Spec == Init /\ [][Next]_vars

-----------------------------------------------------------------------------
\* runPackage's inventory: the tests that are left.
Inventory(r) == setup[r].tests \ excluded[r]

\* coveringTests: the tests that judge a mutant.  The own tests all judge one in
\* a package-level initializer, which lies outside every cover block.
Covering(r, m) ==
  LET hits == setup[r].covMap[m.line]
                \cup (IF m.coverLine = 0 THEN {} ELSE setup[r].covMap[m.coverLine])
  IN  IF cfg[r].own /\ m.packageInit /\ hits = {} THEN Inventory(r) ELSE hits

\* "A test that fails on its own cannot be trusted to judge a mutant either": a
\* test that judges a mutant has failed in no run of the set-up it comes from,
\* not in the set-up of another process either, when that is reused.
JudgesTrusted ==
  \A r \in Runs : pc[r] = "ready" =>
    \A m \in Mutants : Covering(r, m) \cap setup[r].of.failed = {}

\* No test is dropped silently: when a suite is ready, each test that --tests
\* selects is in the inventory or reported as excluded, also when the set-up is
\* one that a run with another --tests could have stored.
NoTestDropped ==
  \A r \in Runs : pc[r] = "ready" => Inventory(r) \cup excluded[r] = cfg[r].tests

\* "cached under a key that changes whenever its outcome could": the set-up of
\* a suite was made with the binaries of this run, and with fixtures no older
\* than those the run was stamped with.
SetupCurrent ==
  \A r \in Runs : pc[r] = "ready" =>
    /\ setup[r].of.bins = bins[r]
    /\ setup[r].of.fixtures >= cfg[r].stamp

\* "It fails only when the binary fails outside any test or failures persist": a
\* suite is given up for its failing tests only when more tests failed than there
\* are rounds to exclude one in, or when every selected test failed; never when a
\* test is left that passed, and a round to run it in without the others.
FailuresPersisted ==
  \A r \in Runs : pc[r] = "failing tests" =>
    \/ setup[r].of.failed = cfg[r].tests
    \/ Cardinality(setup[r].of.failed) > MaxBaselineRounds
=============================================================================
