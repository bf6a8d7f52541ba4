# A TLA+ model of Kanly

Kanly is a mutation tester for Go. It rewrites a package so that one test
binary holds all its mutants, runs the covering tests against each mutant in
the real checkout, and reports which mutants survive. Most of what can silently
go wrong in such a tool is not in a single function: it is in pipelines that
share directories and worker slots, in verdicts taken on a loaded machine, in
caches that outlive the code they speak of, in files that tests leave in a
user's checkout, in mutants that are not the change they claim to be, and in a
gate that blocks, or lets pass, for the wrong reason. That is what these modules
are about.

## The system and its parts

| Part | State it keeps | Operations | Where |
|---|---|---|---|
| the run | the jobs in report order, errors, exit code | load, launch, wait, collect, report, exit code | `cmd/kanly/main.go` `run` |
| package pipelines | binaries, guards, results of one package | rewrite, compile, baseline, coverage, plan, judge, confirm, deferred clean-up | `main.go` `runPackage`, `dependentSuites` |
| directory locks | one mutex per directory | `lock`, `unlock` | `main.go` `dirLocks` |
| worker slots | a weighted semaphore of `--jobs` | `Acquire`, `Release`, cancellation | `main.go` `slotted`, `runner.go` |
| mutant verdicts | status and killers of a mutant | `RunMutant`, `runMutantSuites`, `confirmVerdicts` | `main.go`, `runner.go`, `proc.go` |
| kill cache | one file of kills per package | `load`, `update`, keys and hashes, `reusedKiller` | `cmd/kanly/killcache.go` |
| set-up cache | set-ups of dependents, by key | `key`, `moduleStamp`, `load`, `store` | `cmd/kanly/cache.go` |
| directory guard | a snapshot of a package directory | `SnapshotDir`, `Restore` | `internal/runner/fsguard.go` |
| baseline and coverage | tests that pass unmutated, the lines each covers | `establishBaseline`, `CollectPerTestCoverage` | `main.go`, `runner.go` |
| schema | mutants, their numbers and fingerprints, ignores; in the test binary the active mutant | `RewriteWith`, dispatchers, ignore files | `internal/schema` |
| operators | none | match a syntax tree, propose and write replacements | `internal/operators` |
| report | results, scores, statistics, the brief's budget | `Build`, `WriteLLM` and the other writers | `internal/report` |
| selection | which lines and functions are in scope | `Compute`, `ParseDiff`, `Patterns`, `MatchFunc` | `internal/diff`, `internal/selector` |
| agent hook, inspection | the agent's settings and skill file | `init`, `hook stop`, `show`, `test` | `agent.go`, `inspect.go` |

How they interact: `run` starts a goroutine per package, at most `--jobs` at a
time. Each takes the locks of every directory it will run tests in, then works
through `runPackage`. Every compile and every test process takes a worker slot;
the re-run of a doubtful verdict takes all of them. The coverage and the mutant
loop start a goroutine per process. A guard is set up before the first test
runs in a directory and undone by a deferred call before the lock is released.
The kill cache is read when the mutants are planned and written when they have
been judged; other kanly processes use the same file. `.kanlyignore` and
`//kanly:ignore` directives, which developers write, outlive the code they speak
of. A coding agent's runtime calls `kanly hook stop`, which computes the diff,
calls `run`, and turns its exit code into a decision.

What is hard here: lock order, permits and slots that wait on each other,
cancelled waits, early returns past goroutines and deferred calls, timeouts
that race with the end of a process, state read from disk after the binaries
were built, unlocked read-modify-write of a file, and a checkout that changes
under the tool; identifiers that must name the same mutant in every scope and
after edits; rewrites of one expression by several operators, typed by Go's
inference; and a hook that must neither trap an agent nor be passed by a run that
tested nothing. `PROJECT.json` lists these hazards at their lines.

What makes each part correct:

- locks: pipelines sharing a directory exclude each other, and nobody waits for
  ever;
- slots: a request for all slots runs alone, no slot leaks, no wake-up is lost,
  nobody overtakes and nobody starves;
- pipelines: no failure path cleans up or unlocks under a running process, the
  run ends, leaves nothing behind, and its exit code is honest;
- verdicts: survived means that every covering test passed in time; timeouts
  and, on request, kills are confirmed alone;
- kill cache: a reused kill was really seen on these sources, a survivor is
  tested again, and a scoped run forgets nothing;
- set-up: only tests that never failed judge mutants, no test is dropped
  silently, a cached set-up comes from the same binaries and from fixtures no
  older than the run's stamp;
- guard: nothing that existed is moved, nothing created is lost, and every
  difference left is reported;
- rewriter: IDs and fingerprints do not depend on what a run leaves out, every
  candidate is settled once, a judgement stays with its line;
- schema and operators: what is instrumented compiles, and behaves as the source
  with the one change written into it, or as the source itself;
- selection, report, hook: the scope is exactly what changed, the gate follows
  the score, the brief accounts for every mutant missed, and the agent's turn
  ends.

## The modules

| Module | Models | Built on |
|---|---|---|
| `RunJobs` | constants the components of a run share | |
| `DirExclusion` | abstract: atomic acquisition of directory sets | |
| `DirLocks` | `dirLocks`; implements `DirExclusion` | `RunJobs` |
| `WorkerSlots` | the semaphore as kanly uses it | `RunJobs` |
| `Pipelines` | `run` and `runPackage`; composes the two | `DirLocks`, `WorkerSlots` |
| `MutantVerdict` | one mutant's suites, processes and re-run | |
| `KillCache` | the cache file and the runs that share it | |
| `DirGuard` | snapshot, changes, restore | |
| `SuiteSetup` | baseline rounds, coverage, the set-up cache and the runs that share it | |
| `Rewriter` | `RewriteWith` as a pass over a package, ignores, edits between passes | |
| `GoLang` | small Go programs: trees, types, integer arithmetic | |
| `Operators` | which nodes each operator mutates, and into what | `GoLang` |
| `Schema` | the rewrite, the dispatchers, a run of the test binary | `Operators` |
| `Diff` | `git diff` output and how it is parsed | |
| `Report` | summaries, test views, the brief | |
| `AgentSettings` | `kanly init` | |
| `AgentLoop` | an agent under the stop hook; composes the three | `AgentSettings`, `Diff`, `Report` |
| `LocksAndSlotsProofs` | theorems about both | `DirLocks`, `WorkerSlots` |
| `PipelinesProofs` | theorems | `Pipelines`, `LocksAndSlotsProofs` |
| `MutantVerdictProofs`, `KillCacheProofs`, `DirGuardProofs`, `SuiteSetupProofs`, `RewriterProofs`, `AgentLoopProofs` | theorems | their module |
| `MC...` | constants for TLC | their module |

An operator marked "Mutant:" in a comment is a plausible wrong version of the
definition below it. TLC, given the mutant in place of the definition, finds
the property violated that the definition makes true.

### DirLocks

A directory is its rank in `sort.Strings` order, so that "lowest" is the next
one `lock` takes. `TakeLock` and `ReleaseLock` are one iteration of the two
loops. The map of mutexes under `dirLocks.mu` neither blocks nor fails and is
part of `TakeLock`. `DirExclusion` says what the callers rely on: sets of
directories are acquired whole. `ExclusionSpec` instantiates it with the
pipelines that are inside.

### WorkerSlots

`golang.org/x/sync/semaphore` is not part of the repository; its queue is
modelled from how kanly uses it: `Acquire` never jumps the queue, `Release`
and a cancelled front waiter wake the longest prefix that fits. A request is
named by its pipeline and task and asks for one slot or for all.

### Pipelines

Each action that acquires or releases is conjoined with the action of
`DirLocks` or `WorkerSlots` it is, so everything known about the components
carries over to the run.

`stage` is the position in `runPackage`: the pipeline's goroutine acquires a
slot (`Start...`), the process or compile ends (`End...`), the loop goes on.
The coverage loop has its cancellation: the goroutine's deferred `Release`
comes before errgroup sees its error (`EndCoverage`, then `CancelCoverage`),
and a blocked `Acquire` gives up (`GiveUpCoverage`). The mutant loop has no
failure path: `RunMutant` never returns an error and the run's context is never
cancelled. `guarded` and `built` are what the deferred calls have to undo.
`CleanDependents` and `CleanOwn` are the deferred calls in their order.
What compiles and tests report, what is covered, and what the caches know is
chosen freely. A snapshot is assumed to succeed: when `SnapshotDir` fails
(`main.go:378`) the code goes on without a guard on that directory.

### MutantVerdict

One process per suite with covering tests, and up to two attempts. How a
process ended and whether its deadline has passed by the time `RunMutant` looks
are independent choices; so are the flags. `log` is history.

### KillCache

A hash is the version of what it hashes; `NoHash` is a source that does not parse.
A run loads (`code` into its binary), compiles (`test` into its binary), plans
(keys and hashes read from disk again), judges, reads the file and renames a new
one over it, or fails to. The developer's edits come at any time, or (`EditAnytime
= FALSE`) not while a run sets up. `observed` and `unkilled` are history.
`TestVersions` limits the versions that tests take, to keep TLC's instances small;
the theorem holds for any. The parts of a key that a check never changes (kanly's
binary, the module stamp, flags) are left out, as is a cache that is switched off.

### DirGuard

A directory tree is a function from paths to what is there. `Above` gives the
directories a path lies below; `Change` is a test or a developer; `Move` is one
rename, in any order, though the code sorts. A file is its size and
modification time, as the code sees it. `disturbed` is history: what is reported
can only be judged if nobody changes files after the listing. `KindFlips` lets
tests put a file where a directory was. The temporary directory is assumed to
exist: without one `MkdirTemp` fails as a rename of a vanished file does
(`fsguard.go:107`), and what stays in place is not named.

### SuiteSetup

What `Pipelines` has as one step each, from inside: a run stamps the module,
compiles the two binaries (each with the sources as they are then), looks for a
stored set-up if the suite is a dependent's, runs the baseline round by round,
excludes what fails and collects coverage test by test. Failing tests end a set-up
in three places (`GiveUp`): failures in the last round, a baseline that passes
because every test is skipped, and, for the package's own suite, coverage that
finds no test passing alone; which tests failed is kept for `FailuresPersisted`.
The comment at `main.go:221` names the first of the three only. Any failure
outside the tests is `Break`. Versions only grow, as modification times do, and
files may change at any moment. Each test's coverage is written to its own slot
and merged at the end, so `CollectCoverage` is one step; the concurrency of the
coverage processes is in `Pipelines`. `setup.of` is history: what a set-up was
made from and which tests failed in it, carried through the cache. A passing
binary is assumed to report every selected test.

### Rewriter

One pass is a state machine over the variables of `RewriteWith`: the files in
path order, the candidates of a file in the order of the operators (`Visit`),
numbered and fingerprinted before anything is dropped, then the clash check, then
the stale entries. A file is a sequence of lines with the function it lies in,
its text, its indentation and its directive; what an operator finds on a text is
a constant, as `Operators` is about that. Between passes a developer inserts,
rewrites and reindents lines, accepts reported mutants and spoils or prunes
`.kanlyignore`. `uid` and `judged` are history: which line a fingerprint was
judged on. A fingerprint is the tuple that is hashed; 48 bits of SHA-256 are
taken to be injective. `Rank` and `FingerprintOf` say what a number and a
fingerprint are as functions of the package alone. `FindMutants` is the lookup
of `kanly show` and `kanly test`, which rewrite the package afresh: it finds
nothing when that rewrite fails (`Rewrites`), on an unknown name in any directive
or on a clash. Formatting a file and rendering the dispatchers may fail at any
pass; in the fresh rewrite they are taken to succeed.

### GoLang, Operators, Schema

A program is a tree over one integer type (`int`, `uint` or a sized one), plain or
named booleans and strings, an error, a pointer (or map, channel or func), a
channel, an array, slices, calls that leave a mark and may take an argument, and
switches. `Recovered` is a call of `recover` in a deferred function while a panic
unwinds; it sees the panic only if no closure of the schema lies in between. A
literal shift count stays untyped, as in go/types, so `int_literal` skips it.
`Operators` has one definition per `Find` and one per helper of `typecheck.go`.
`Schema` groups the candidates of a node, rewrites in post-order, renders the
dispatchers that are fed, and evaluates the source and the rewritten tree with one
evaluator: a dispatcher compares its mutants' IDs with `KANLY_MUTANT` and falls
back to the original operation. `Written` is the reference: the source with the
change made by hand. `Own` is the part of Go's type checker the schema can fall
foul of: untyped constants that take their type from the context, inference of
type parameters with defaults, and dispatchers that are called and not rendered.

What the translation made visible, and what `Written` therefore says: a swap of
two clauses, one of which falls through, exchanges where control enters, so the
text after `fallthrough` still runs; the expression that `return_zero`,
`struct_field_zero` and `err_return_nil` replace is still evaluated; a nil
pointer returned through an interface is left alone, as `var zero T` would not
be the nil interface. Integers have 5 bits (`Width`, for 64) and `int` is taken
to have 4 (`Narrow`, for 32) when a literal fits. The literals of `MCSchema` are
0, 1, 2, and the numbers at the limits of `intRange`: the largest of 4 signed
bits and the next, and the largest of 5. `LiteralsHeld`, a part of
`SchemaCompiles`, says that no mutant of a literal overflows its type on a target
on which the literal itself fits.

`SchemaFaithful` leaves out the programs of `RecoverMoved`, in which `call_delete`,
`chan_op` or `int_compound_assign` moves a call of `recover` into a closure. The
code does not look for it there, and `schema_recover` shows what follows. An
operand of `x++` (`a[f(recover())]++`) has the same fate; `IncDec` has no operand.

`hasOwnType` and others are recursive, so these modules are for TLC only.

### Diff, Report, AgentSettings, AgentLoop

`Diff` prints what git would for a set of changed, cut and new lines, as tokens,
and parses it back. Both are folds over lines and files, written as recursive
functions, so that they can be proved about; so is the spending of the brief's
budget (`Spent`). The order of the brief's groups is given by how many are ahead
of each (`Ahead`, `Ordered`), as a sort would leave them. `Report` computes what
the report says from a set of results. `AgentSettings` is `init`: the skill, and
the groups of `hooks.Stop` in settings that a developer edits as well. Which hooks
`init` replaces is decided by a search for " hook stop" in the command
(`isKanlyStopHook`): true of every hook that runs Kanly, and of the other tools'
in `Alike`. `byHand`, history, has the places the developer wrote, so that a hook
doubled by `init` is told from one the developer copied. `AgentLoop` composes
them: an agent edits lines, creates and deletes files, breaks and mends packages,
writes tests with good and bad assertions and accepts mutants; it stops; the hook
computes the diff (`HookDiff`), which is read before packages are loaded, and runs
kanly on it (`HookRun`). A verdict follows from what tests cover and notice: how
verdicts are reached is the subject of `Pipelines` and `MutantVerdict`. The
agent's runtime sets `stop_hook_active` after a block, by any hook, and kills a
hook that takes too long. `DeveloperRun` is a run with `--kill-matrix`, with and
without `--cross-package`.

## Runs

| Run | Bounds | Shows |
|---|---|---|
| `dir_locks` | 4 pipelines, overlapping directory sets | exclusion, every lock granted, refinement of `DirExclusion` |
| `worker_slots` | 3 pipelines, 2 tasks, 3 slots | alone, no lost wake-up, no overtaking, no starvation |
| `pipelines` | 3 packages: one with a dependent, that dependent, and one apart with 2 tests and 2 mutants (the others have 1 of each); 2 slots, `--verify-kills` | verdicts final and changed only alone, honest exit code, processes guarded, no foreign guard, nothing left behind, termination |
| `kill_cache` | 2 mutants of one declaration with 2 versions, 1 test, runs one after another, stores may fail | reused kills were seen, survivors re-tested |
| `dir_guard` | 4 paths, 2 stamps, changes also during `Restore` | what existed stays, differences reported, nothing lost |
| `suite_setup` | 2 processes, one with `--tests`, 4 tests, 2 rounds, 1 edit, 1 stored set-up | only trusted tests judge, none dropped silently, set-ups current, a suite is given up only when all tests, or more than rounds, failed |
| `verdict` | 3 suites, one without covering tests, all flags | survivors, timeouts, kills and killers |
| `rewriter` | 3 files, one generated, 3 operators, 4 scopes, 1 edit, 1 accepted mutant | identity across scopes, everything settled, judgements follow, mutants found again |
| `schema` | every program of `MCSchema`, in 3 integer types, 6 inputs, every mutant, all operators or one | instrumented programs compile and are faithful |
| `schema_recover` | the same | **violated**: with no mutant active the program is unchanged where it calls `recover` |
| `agent_loop` | 4 packages, 6 mutants, 2 tests, 3 steps of work, 2 of set-up, a limit of 1, 2 scores, 2 other tools, one with a command like Kanly's | exact scope, an edited skill and other hooks kept, the hook updated and not doubled, honest gate, complete brief, no trap |
| `agent_loop_views` | the same | **violated**: tests listed as killing nothing kill nothing |

Bounds: two contenders and one bystander are what it takes for a lock, slot or
file conflict and for overtaking; a third slot tells "one" from "all" and
leaves room for a prefix of waiters. Two tests or two mutants are needed for a
loop to be cancelled or confirmed half way, and one suffices where the question
is about packages. In `KillCache` two versions are the least that make a hash
stale. In `DirGuard` a directory, a file below it and one beside it show every
combination of new and old parents, and two stamps tell a rewritten file from
an old one. In `SuiteSetup` one edit is what makes a stamp or a binary stale; four
tests are one more than two rounds and a last failure use up (the code has three
rounds), so a suite can be given up both with and without a test left; two
processes share a set-up when both have `--tests`, and must not when one has not.
In `Pipelines` `TestCounts` and `MutantCounts` say how many tests and mutants a
package may have: packages that share a directory never run together, so it is
the one beside them that has two of each. In `Rewriter` one edit is enough to
shift, create or separate two lines that read alike, and the package starts with
such lines in functions of one name. `Schema` nests operators two deep, which is
what it takes for a dispatcher inside another, a wrapper around either and a
literal inside a constant. In `AgentLoop` three steps let an agent edit, be
blocked, and edit or test again, and the limit of 1 is below one function's
mutants and between two functions'; two steps of set-up are an `init` after an
addition, a copy, an edit of the skill or another `init` (longer histories are the
theorem's). `MaxTests` and `MaxMutants` bound the loops,
`MaxEdits` the versions and edits, `MaxAccepts` the judgements, `MaxStored` the
stored set-ups, `MaxSteps` and `MaxSetup` the agent's and developer's steps; no
other counter is bounded. `CHECK_DEADLOCK FALSE` stands where the system really
stops: a finished run, verdict, restore, evaluation or session.

Fairness: goroutines of the Go scheduler that can go on do so; test processes
have timeouts and their process group is killed; compiles are assumed to end.
`LockFairness` and `SlotFairness` ask for weak fairness of exactly those steps,
`FairSpec` of `Pipelines` only that not everything stands still. `AgentLoop` asks
for weak fairness of the agent's attempt to stop and of the hooks, which end by
themselves or by the runtime's timeout; nothing makes the agent write tests.

## Where the code disagrees with its comments

`agent_loop_views`, a finding in `PROJECT.json`: test statistics are keyed by the
package of the mutants and the name of the test in their results. With
`--cross-package --kill-matrix` a test has two names, and one that kills only
mutants of other packages is printed among the tests that killed nothing, under
the very name the results give as a killer. Without the flag this cannot happen
(`ZeroKillHonestInPackage`). Redundant groups have the same cause
for doubt: they compare kills within one package of mutants.

`schema_recover`, the other one: `bool_logic` and `switch_case` leave operands that
call `recover` alone, since a closure "silently breaks it" (`typecheck.go:264`).
`call_delete` looks at the callee only, `chan_op` and `int_compound_assign` not at
all: `log(recover())` in a deferred function stops no panic once instrumented,
with no mutant active.

More disagreements show in the models when a condition of a passing property, or an
assumption of a passing run, is lifted:

- `SettingsKept` without `\ Alike`: `init` overwrites a hook of another tool whose
  command contains " hook stop" (`agent.go:142`), against the comments at
  `agent.go:140` and `:145`.
- `FoundAgain` without `Twins(pkg, c) = {c}`: lines of one scope that read alike are
  numbered in file order (`rewriter.go:321`), so inserting one before another gives
  the untouched line's mutants another fingerprint, against `README.md:129`.
- `SchemaFaithful` takes the values that `int_literal` proposes as they are:
  `n + 1` is computed in 64 bits before it is compared with the range
  (`int_literal.go:178`), so the largest `int64` literal has the smallest as its
  mutant, which `README.md:233` says is dropped.
- `GuardCover <- Nested` in `Pipelines.cfg`, with `NoForeignGuard`: the locks name
  package directories while the guard walks all of `testdata` (`fsguard.go:44`),
  so a package below another's `testdata` is guarded by a pipeline that does not
  hold its lock, against the comment at `main.go:1211`.
- `EditAnytime = TRUE` in `KillCacheSerial.cfg`: keys and hashes are read at plan
  time, after the compile (`main.go:771`), so a kill of the old code can be stored
  under the hash of the new and `CachedKillsObserved` fails, against
  `killcache.go:19`.
- `KindFlips = TRUE` in `DirGuardTests.cfg`: a directory replaced by a file is
  neither moved nor reported (`fsguard.go:117`) and `DifferencesReported` fails,
  against `fsguard.go:84`.
- `RunMutant` counts a process that did not start as a kill (`runner.go:388`),
  against `runner.go:363`; `SuiteStatus` has it so.

With two runs of `KillCache` the later rename drops what the other run stored
meanwhile. And an entry whose removal could not be stored is reused later, so a
cache that cannot be written is not only slower: `SurvivorsRetested` is therefore
about stored verdicts. The comment of `groupByFunction` (`report.go:474`) still speaks
of package-then-function order; the code, and `Ahead`, put the largest groups first.

Conditions of the properties of `Rewriter` and `AgentLoop` mark what the code does
not promise: lines of one scope that read alike exchange fingerprints when one is
inserted or removed (`Twins`, see above); a method of a pointer to a generic type
has no receiver in its name, so it shares a scope with others of that name; an
added line that starts with `++ ` is read as a file header (`diff.go:112`) and
costs its own file, and the one it names, their exact scope (`Misread`, `Stray`);
and a package without tests has no mutants and so cannot lower the score
(`Tested`).

## Proofs

Theorems hold for every value of the constants that satisfies the named
assumptions (`JobsAssumption`, `SlotsAssumption`, `DirsAssumption`,
`PipelinesAssumption`, `MutantVerdictAssumption`, `KillCacheAssumption`,
`DirGuardAssumption`, `SuiteSetupAssumption`, `RewriterAssumption`,
`UidsAssumption`, `MinsAssumption`, `OthersAssumption`, `LinesAssumption`,
`TreeAssumption`, `MutantsAssumption`, `LimitAssumption`). They say what the
constants stand for: a `--min-score` is a percentage (`agent.go:93`), lines are
numbered from 1, git lists the tracked files, mutants are made in non-test Go
files, the hook's limit is positive, and another tool's hook does not run Kanly
(`OthersAssumption`, which says nothing of what its command looks like). Four
carry weight in a proof: a mutant that is run has a covering test in some suite
(`MutantVerdictAssumption`; the others are "no coverage" and never run); a path
lies below finitely many directories and has a parent (`DirGuardAssumption`); the
lines of a package have names of their own (`UidsAssumption`, about the history
variable `uid`); functions are told apart by their place in the order of packages
and names (`MutantsAssumption`). The type invariants are proved here
(`RunTypeAlways`, `GuardTypeAlways`, `CacheTypeAlways` and the parts of the other
inductive invariants) rather than checked in runs. Every inductive invariant below
was also checked by TLC on the instances of the runs.

- `LocksAndSlotsProofs`, locks. `LocksExclude` and `WaitsClimb` are not
  inductive. The invariant adds that a pipeline inside holds exactly its
  directories, that one outside holds none, and that one locking holds a set
  below everything it misses. The refinement of `DirExclusion` follows: the step
  that takes the last mutex is the abstract acquisition, the first step of
  unlocking the release, every other step a stutter.
- `LocksAndSlotsProofs`, slots. `RunsAlone` needs the accounting: `cur` is the
  number of slots of the requests running, which needs in turn that no request
  is both waiting and running or waits twice. The lemmas on `Demand` say what
  granting a prefix adds. `FrontBlocked` follows from granting the longest
  prefix, and the action property `NoOvertaking` from granting a prefix: whatever
  still waits stood behind what was granted.
- `PipelinesProofs`, components. The composed run is well typed; that its steps
  are steps of `DirLocks` and `WorkerSlots`, or leave them alone, is how it is
  built, and two lemmas say so. `RunExcludes`, `RunConfirmsAlone` and
  `RunServesInOrder` transfer the components' theorems to the whole program.
- `PipelinesProofs`, the run. None of the promises of the run is inductive: each
  is about the end, or about a process in the middle, of a pipeline that has
  come a long way. `RunInv` says for each stage of a pipeline what may be
  waiting or running in its name (`RequestsFit`), which results it has
  (`ResultsFit`), that it is inside the locks (`LockFits`), and which suites are
  built, guarded and ready (`DiskFits`); and that a run with an exit code has
  only pipelines that ended (`RunEnded`). Every error path of `runPackage` has to
  re-establish it. From it follow `VerdictsFinal`, `ExitHonest`,
  `ProcessesGuarded`, `NothingLeftBehind` and the action property
  `VerdictsChangeAlone`. `NoForeignGuard` needs one hypothesis more,
  `CoverMeansShared`: a guard covers a directory of another package only if the
  two packages have a directory, and so a lock, in common. A package below
  another's `testdata` breaks it, as the section above shows.
- `MutantVerdictProofs`. All four properties, for any number of suites and tests.
  The verdict is known only after the last suite, so the invariant says what
  status and killers mean half-way (`SoFar`), what is known between the exit of a
  process and its judgement (`Judging`), and what the re-run still knows of the
  first attempt (`FirstAttempt`).
- `KillCacheProofs`. With no edit during a set-up, `CachedKillsObserved` holds
  for any number of runs that share the file without a lock and whose stores may
  fail. The invariant says that every kill in the file, and in every copy a run
  has read, was seen (`Genuine`), that a run's keys and hashes are those of its
  binaries (`InStep`), and that its own kills were seen (`KillsSeen`). A lost
  update loses entries; it never invents one. `SurvivorsRetested` is proved for
  runs that do not overlap (`OneAtATime`), with any edits and failing stores:
  the file then holds no kill of a mutant on code for which another verdict was
  stored (`NoStaleKill`), and what a run is about to write started from the file
  as it is. Two overlapping runs do break it, since the later rename wins.
- `DirGuardProofs`. `PreexistingStay`: everything `Restore` moves is new. The
  invariant says that what is to be moved was absent from the snapshot, and a
  snapshot is a tree, so what lies below an absent path was absent too.
  `NothingLost` and `DifferencesReported` rest on the choice of what to move:
  above every created path there is a topmost created one (`TopmostCreated`, the
  least by number of directories above), and the subtrees of two of them are
  apart (`CreatedApart`). So each created path is still to be moved, or moved with
  its topmost directory, or left where it is and reported (`RestoreInv`).
  `DifferencesReported` assumes `~KindFlips`, as the run does: a
  directory replaced by a file is not reported (see above).
- `SuiteSetupProofs`. All four safety properties. What is claimed of a suite that
  is ready must hold of whatever is stored under a key (`StoredOK`) and build up
  through the stages (`StageOK`): a stored set-up has no failed test, a stamp is
  never newer than the fixtures, and each round adds to the skipped tests
  (`RoundsOK`, by cardinality), which is what `FailuresPersisted` needs of a suite
  given up in the last round; the other two exits have every selected test in the
  failed ones.
- `RewriterProofs`. All four properties, for every package, operator set, scope
  and sequence of edits. A pass counts, so its invariant (`PassInv`) speaks of
  the candidates visited so far: `mutID` is their number, `occurrences` the
  number of those with one bare fingerprint, and kept, ignored and matched are
  what they should be for them. `Before` is a total order (`BeforeOrder`), and
  what was visited is exactly what comes before the next candidate
  (`VisitedIsBefore`), so the counters give it the rank and the fingerprint that
  `Rank` and `FingerprintOf` define without a pass (`NumberedByRank`). A
  fingerprint determines its candidate (`FingerprintInjective`, by cardinality of
  the twins before it), which is why one names at most one mutant. What survives
  edits is said of the names of lines (`LinesInv`): a name stays in its file and
  function, so a line that reads as it did has the bare fingerprint it had.
- `AgentLoopProofs`, settings. `SettingsKept`, for any other tools' hooks, any
  scores and any number of steps, of `init` alone (`SettingsKeptAlways`) and of the
  whole loop (`LoopKeepsSettings`). With the type of the settings, and with the
  fact that a registered hook comes from an `init`, it is inductive (`SetupInv`).
  The argument is about the set of commands in the groups: appending a group or a
  command adds what is appended (`AppendCommands`, `GrowCommands`), and replacing
  keeps exactly the commands that are not taken for Kanly's and adds the entry
  (`ReplaceCommands`). That no hook is doubled is about places: replacing moves
  none, and a group is appended only when there is no such place.
- `AgentLoopProofs`, recursion. A recursive function is a `CHOOSE` that nothing is
  known of until some function is shown to satisfy it. `LeastNatural` (from the
  well-foundedness of `<`) gives induction up to a bound as a statement about a set
  (`UpTo`), and that a function given by its first value and by how each follows
  from the one before exists (`Recursion`). `HunksUpTo`, `DiffUpTo`, `ParseFrom` and
  `Spent` are unfolded with it.
- `AgentLoopProofs`, scope. `ScopeExact`, for any files, order, length and changes.
  The output of git is a join of blocks (`Joins`), the parser's state after a
  concatenation is that after its second part started where the first ended
  (`ParsedConcat`), and so the claim is made of one line (`ParseAtLine`), then of the
  hunks of a file (`ParseHunks`), of a file from any state the parser may have been
  left in (`ParseFileDiff`), and of the output (`ComputeScope`). A misread header can
  leave the parser in the wrong file; the next `diff --git` line ends that, which is
  why only its own file and the one it names are excepted. `RunsCover` says that the
  ranges in the hunk headers cover exactly the new lines. The inductive invariant
  `LoopInv` adds what the hook relies on: from the diff to the run the parsed diff
  is still that of the code.
- `AgentLoopProofs`, gate and brief. From `LoopInv` the packages selected and the
  results of the run are those of `ToJudge` (`PatternsRead`, `RunJudges`), as many
  as mutants (`JudgedCount`), and the score is the share of detected ones
  (`ScoreRead`): `GateHonest`. For `BriefComplete`, every place in a finite strict
  total order is taken (`Ranks`, an injection of a finite set into as many ranks),
  so `groupByFunction` returns each function once, largest first (`GroupsRead`);
  groups are disjoint, so what was spent is the number of mutants listed
  (`SpentRead`); and `take` stops at the least place where a group does not fit
  (`TakeRead`). That a block leaves something to list needs a score of at most 100
  (`LowScore`). The proof of `GateHonest` failed at first on its last condition,
  which spoke of the new lines of a file that has since been deleted; a deleted file
  selects no package, and the condition now says so.

Only model-checked: all liveness (`EveryLockGranted`, `NoStarvation`,
`Terminates`, `NeverTrapped`), as the prover has neither fairness nor `ENABLED`;
and the two properties of `Schema`, which uses `GoLang` and `Operators`: these are
recursive operators over syntax trees, and with such an operator in reach the
prover has no arithmetic or set reasoning. Of the violated properties, `ZeroKillHonest`
is shown to hold (`ZeroKillHonestInPackage` in `AgentLoopProofs`) of every run
without `--cross-package`, where a result names tests of the mutant's package only.

## Not modelled

- Text: progress, warnings, the layout of reports, snippets, hints, JSON, the
  guide, the cut of an over-long brief at `maxHookReason`.
- Operators on floats and their dispatchers: they have the shape of the integer
  ones, and TLC has no floats. For the same reason scores are compared as
  fractions, where the code compares `score * 100` with `--min-score` as floats
  (`main.go:1310`), which can differ for a score equal to the bound.
- Go beyond `GoLang`: loops, assignments to several variables, operations on strings,
  unary minus, type switches, generics in the mutated code, `lang.go`'s language
  versions, `go/format`.
- Which functions run at package initialization and which lines of a `case` count
  as covered (`collectFileScopeFuncLits`, `collectCaseSpans`): line arithmetic on
  syntax trees.
- Parsers of strings: selectors, flags, test output, cover profiles. Derived
  timeouts: every timeout is a free choice.
- The go tool, the file system beyond the guard, process groups. Signals: kanly
  has no handler, an interrupt ends the process and nothing is cleaned up.

## Plan

Done, in this order: `DirLocks`, `WorkerSlots`, `Pipelines`, their proofs,
`KillCache`, `DirGuard`, `MutantVerdict`, `SuiteSetup`, first proofs of them;
`Rewriter`, `GoLang`, `Operators`, `Schema`, `Diff`, `Report`, `AgentSettings`
with its proof, `AgentLoop`; then the promises of the whole run, the verdicts,
the guard, the serial kill cache, the order of the slots and the rewriter's pass
as theorems; then the agent loop: exact scope, honest gate and complete brief.

Next theorem: that a dispatcher returns what `Written` says for one node, given
the values of its operands. It needs the evaluator of `Schema` split into its
steps on one node, without recursion, and the recursion kept for TLC. Next model:
`Timeouts` (`Overhead`, `MutantTimeout`, `confirmTimeoutScale`).
