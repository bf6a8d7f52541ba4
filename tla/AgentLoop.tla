----------------------------- MODULE AgentLoop ------------------------------
(***************************************************************************)
(* Kanly beside a coding agent (cmd/kanly/agent.go): `kanly init` writes   *)
(* the skill and registers `kanly hook stop` in the agent's settings, and  *)
(* the hook runs Kanly on the lines changed since the diff base whenever   *)
(* the agent wants to stop.  The hook's run goes from git's output         *)
(* (internal/diff) over the selected packages to the report                *)
(* (internal/report), the exit code of run in main.go and the hook's       *)
(* decision.  The pipelines that judge the mutants are the subject of      *)
(* Pipelines and MutantVerdict: here a verdict follows from what the tests *)
(* cover and assert at the moment.                                         *)
(*                                                                         *)
(* The agent, the developer, the agent's runtime (which calls the hooks)   *)
(* and git are external.                                                   *)
(***************************************************************************)
EXTENDS AgentSettings, FiniteSets

CONSTANTS
  Files, FileOrder, MaxLine, NoFile, FuncRank, Own, \* see Diff and Report
  PkgOf,      \* PkgOf[f]: the package directory a file lies in
  Source,     \* the files that are non-test Go files
  Hidden,     \* the packages ./... skips: testdata, names starting "." or "_"
  Editable,   \* the lines <<f, l>> the agent may change
  Cuttable,   \* the places <<f, l>> where it may only remove lines
  New,        \* files the agent may create; git does not track them
  Doomed,     \* tracked files the agent may delete
  FuncOf,     \* FuncOf[<<f, l>>]: the function of a mutant; its domain are the mutants
  Looping,    \* the mutants that hang a test that runs them
  Looks,      \* added lines that start with "++ ", and what then reads as a path
  Drift,      \* lines the diff base changed after the branch left it
  TestPkg,    \* TestPkg[t]: the package of a test; its domain are the tests
  Reach,      \* Reach[t]: the mutants a test can be written to run
  Limit,      \* hookLLMLimit
  MaxSteps    \* bound on the steps of the agent's work

VARIABLES
  changed,    \* lines that differ from the merge base
  cuts,       \* places where lines were removed
  created, gone, \* New files that exist, Doomed files that do not
  accepted,   \* mutants listed in .kanlyignore
  covers, kills, \* per test: the mutants it runs, and those it fails on
  broken,     \* packages that do not load or build
  shallow,    \* git finds no merge base
  steps,      \* steps of work taken
  phase,      \* "rest", "work", "stopping", "diffed"
  active,     \* stop_hook_active
  diff,       \* the parsed diff
  decision,   \* of the last hook: "none", "allow", "block", "error"
  out         \* the last report written, as a record

codeVars  == <<changed, cuts, created, gone, accepted, covers, kills, broken, shallow, steps>>
hookVars  == <<phase, active, diff, decision, out>>
vars == <<setupVars, codeVars, hookVars>>

Tests == DOMAIN TestPkg
Pkgs == {PkgOf[f] : f \in Files}
Exists(f) == (f \in New => f \in created) /\ f \notin gone
Sites == {s \in DOMAIN FuncOf : Exists(s[1])}

D == INSTANCE Diff
R == INSTANCE Report

\* The functions with mutants, by package
MutantFuncs == {<<PkgOf[s[1]], FuncOf[s]>> : s \in DOMAIN FuncOf}

\* Lines have numbers from 1; git lists the tracked files, and only those can
\* be deleted; mutants are made in non-test Go files; functions are told
\* apart by their place in the order.
ASSUME LinesAssumption ==
  /\ MaxLine \in Nat \ {0} /\ NoFile \notin Files
  /\ Editable \cup Drift \subseteq Files \X (1..MaxLine)
  /\ \A s \in DOMAIN Looks : Looks[s] \in Files
ASSUME TreeAssumption ==
  /\ New \subseteq Files /\ Doomed \subseteq Files \ New /\ Source \subseteq Files
  /\ FileOrder \in Seq(Files \ New)
  /\ Files \ New \subseteq {FileOrder[i] : i \in DOMAIN FileOrder}
ASSUME MutantsAssumption ==
  /\ IsFiniteSet(DOMAIN FuncOf) /\ DOMAIN FuncOf \subseteq Source \X (1..MaxLine)
  /\ \A g, h \in MutantFuncs : FuncRank[g] \in Int /\ (FuncRank[g] = FuncRank[h] => g = h)
ASSUME LimitAssumption == Limit \in Nat \ {0}

NoDiff == [f \in Files |-> {}]
NoReport == [kind |-> "none"]

-----------------------------------------------------------------------------
(* The agent at work *)

Work == phase = "work" /\ steps < MaxSteps /\ steps' = steps + 1

\* A line is changed: no test fails on its new mutant yet, and an accepted
\* mutant of the line is no longer matched.
EditLine == \E s \in Editable \ changed :
  /\ Work /\ Exists(s[1])
  /\ changed' = changed \cup {s}
  /\ accepted' = accepted \ {s}
  /\ kills' = [t \in Tests |-> kills[t] \ {s}]
  /\ UNCHANGED <<setupVars, cuts, created, gone, covers, broken, shallow, hookVars>>

\* Lines are removed, a file is created or deleted, a package breaks or is
\* mended.
EditTree ==
  /\ Work
  /\ \/ \E s \in Cuttable \ cuts : Exists(s[1]) /\ cuts' = cuts \cup {s} /\ UNCHANGED <<created, gone, broken>>
     \/ \E f \in New \ created : created' = created \cup {f} /\ UNCHANGED <<cuts, gone, broken>>
     \/ \E f \in Doomed \ gone : gone' = gone \cup {f} /\ UNCHANGED <<cuts, created, broken>>
     \/ \E p \in {TestPkg[t] : t \in Tests} :
          /\ broken' = IF p \in broken THEN broken \ {p} ELSE broken \cup {p}
          /\ UNCHANGED <<cuts, created, gone>>
  /\ UNCHANGED <<setupVars, changed, accepted, covers, kills, shallow, hookVars>>

\* A test is made to run a mutant, and to notice it if the assertion is any
\* good.
WriteTest == \E t \in Tests : \E s \in Reach[t] \cap Sites :
  /\ Work /\ s \notin kills[t]
  /\ covers' = [covers EXCEPT ![t] = @ \cup {s}]
  /\ kills' \in {kills, [kills EXCEPT ![t] = @ \cup {s}]}
  /\ UNCHANGED <<setupVars, changed, cuts, created, gone, accepted, broken, shallow, hookVars>>

\* A mutant of the brief is accepted in .kanlyignore.
Accept ==
  /\ Work /\ out.kind = "llm"
  /\ \E s \in out.refs \ accepted : accepted' = accepted \cup {s}
  /\ UNCHANGED <<setupVars, changed, cuts, created, gone, covers, kills, broken, shallow, hookVars>>

-----------------------------------------------------------------------------
(* kanly's run *)

\* The tests that judge a mutant, by the name they have in its result.
Judges(s, cross) == {t \in Tests : TestPkg[t] = PkgOf[s[1]] \/ cross}
NameIn(s, t) == <<IF TestPkg[t] = PkgOf[s[1]] THEN Own ELSE TestPkg[t], t>>

\* The result of a mutant.  With fail-fast one killer is recorded; which one
\* does not matter to what the hook reads.
Result(s, cross) ==
  LET cov == {t \in Judges(s, cross) : s \in covers[t]}
      kill == {t \in cov : s \in kills[t]}
  IN [pkg |-> PkgOf[s[1]], fn |-> FuncOf[s], site |-> s,
      status |-> IF cov = {} THEN "not_covered" ELSE IF s \in Looping THEN "timeout"
                 ELSE IF kill # {} THEN "killed" ELSE "survived",
      killers |-> IF s \in Looping THEN {} ELSE {NameIn(s, t) : t \in kill},
      covering |-> {NameIn(s, t) : t \in cov}]

\* run skips a package without test files.
Tested(p) == \E t \in Tests : TestPkg[t] = p

\* The results of a run on these packages and these lines; a package that
\* fails has none.
Results(pkgs, lines, cross) ==
  {Result(s, cross) : s \in {x \in Sites \cap lines : /\ PkgOf[x[1]] \in pkgs \ broken
                                                      /\ Tested(PkgOf[x[1]])
                                                      /\ x \notin accepted}}

\* Mutant: a run that could not test a package is gated by its score.
ExitScored(rs, errors, min) ==
  IF rs # {} /\ R!Below(R!Summary(rs), R!Denominator(R!Summary(rs)), min) THEN 3
  ELSE IF errors # {} THEN 1 ELSE 0

\* The exit code at the end of run.
ExitCode(rs, errors, min) ==
  IF errors # {} THEN 1
  ELSE IF rs # {} /\ R!Below(R!Summary(rs), R!Denominator(R!Summary(rs)), min) THEN 3 ELSE 0

\* Diff.Patterns
Patterns(d) == {PkgOf[f] : f \in {x \in D!TouchedFiles(d) \cap Source : PkgOf[x] \notin Hidden}}

-----------------------------------------------------------------------------
(* A turn of the agent, and kanly hook stop *)

\* Settings and skill are worked on between turns.
Setup == phase = "rest" /\ SetupNext /\ UNCHANGED <<codeVars, hookVars>>

\* A prompt starts a turn.  Turns without any stop hook are left out.
Prompt ==
  /\ phase = "rest" /\ steps < MaxSteps /\ Commands(settings.groups) # {}
  /\ phase' = "work" /\ active' = FALSE /\ decision' = "none" /\ out' = NoReport
  /\ UNCHANGED <<setupVars, codeVars, diff>>

\* The agent wants to stop.
Stop ==
  /\ phase = "work"
  /\ phase' = "stopping"
  /\ UNCHANGED <<setupVars, codeVars, active, diff, decision, out>>

Allow(why) == phase' = "rest" /\ decision' = why
Block == phase' = "work" /\ active' = TRUE

\* Another tool's hook may block a stop, once.
OtherHook ==
  /\ phase = "stopping" /\ Commands(settings.groups) # Registered(settings.groups)
  /\ \/ ~active /\ Block /\ decision' = "none" /\ UNCHANGED <<diff, out>>
     \/ Registered(settings.groups) = {} /\ Allow("none") /\ UNCHANGED <<active, diff, out>>
  /\ UNCHANGED <<setupVars, codeVars>>

\* Mutant: the hook does not look at stop_hook_active.
NeverMind == FALSE

\* runHook returns at once when the agent continues because of a stop hook.
AlreadyBlocked == active

\* runHook up to the diff: it lets the agent stop, or computes the diff
\* against the merge base (the base itself when git finds none), or git
\* fails, which does not block.
HookDiff ==
  /\ phase = "stopping" /\ Registered(settings.groups) # {}
  /\ IF AlreadyBlocked THEN Allow("allow") /\ UNCHANGED <<diff, active, out>> ELSE
       \/ Allow("error") /\ UNCHANGED <<diff, active, out>>
       \/ /\ phase' = "diffed"
          /\ diff' = D!Compute(D!GitDiff(changed \cup (IF shallow THEN Drift ELSE {}), cuts, Looks, gone),
                               created)
          /\ UNCHANGED <<active, decision, out>>
  /\ UNCHANGED <<setupVars, codeVars>>

\* The rest of runHook: run with --diff and the hook's --min-score, then exit
\* 0 allows, 3 blocks with the brief, anything else does not block.
HookRun ==
  /\ phase = "diffed"
  /\ \E c \in Registered(settings.groups), pkgs \in {Patterns(diff)} :
     \E rs \in {Results(pkgs, {s \in Sites : D!Includes(diff, s[1], s[2])}, FALSE)} :
       LET code == ExitCode(rs, pkgs \cap broken, c[2])
       IN IF code = 3
          THEN Block /\ decision' = "block" /\ R!WriteLLM(out', rs, Limit)
          ELSE Allow(IF code = 0 THEN "allow" ELSE "error") /\ UNCHANGED <<active, out>>
  /\ diff' = NoDiff
  /\ UNCHANGED <<setupVars, codeVars>>

\* The runtime kills a hook that takes longer than its timeout.
HookKilled ==
  /\ phase \in {"stopping", "diffed"} /\ Registered(settings.groups) # {}
  /\ Allow("error") /\ diff' = NoDiff
  /\ UNCHANGED <<setupVars, codeVars, active, out>>

\* The developer runs kanly --kill-matrix on everything, with or without
\* --cross-package: the inventory of a package holds its own tests.
DeveloperRun ==
  /\ phase = "rest" /\ out.kind = "none"
  /\ \E cross \in BOOLEAN : \E rs \in {Results(Pkgs \ Hidden, Sites, cross)} :
     \E stats \in {R!TestStats(rs, [p \in {r.pkg : r \in rs} |-> {t \in Tests : TestPkg[t] = p}])} :
       out' = [kind |-> "matrix", results |-> rs,
               zeroKill |-> R!ZeroKillTests(stats), redundant |-> R!RedundantTestGroups(stats),
               text |-> R!WriteText(rs), sarif |-> R!WriteSARIF(rs, broken \ Hidden)]
  /\ UNCHANGED <<setupVars, codeVars, phase, active, diff, decision>>

-----------------------------------------------------------------------------

Init ==
  /\ SetupInit
  /\ changed = {} /\ cuts = {} /\ created = {} /\ gone = {} /\ accepted = {}
  /\ covers = [t \in Tests |-> Reach[t] \cap Sites] /\ kills = covers
  /\ broken = {} /\ shallow \in BOOLEAN /\ steps = 0
  /\ phase = "rest" /\ active = FALSE /\ diff = NoDiff /\ decision = "none" /\ out = NoReport

Next ==
  \/ Setup \/ DeveloperRun
  \/ Prompt \/ EditLine \/ EditTree \/ WriteTest \/ Accept
  \/ Stop \/ OtherHook \/ HookDiff \/ HookRun \/ HookKilled

\* The agent's turn ends in an attempt to stop, and a hook ends: its tests
\* run under timeouts, and the runtime kills it at hookTimeoutSeconds.
Spec ==
  /\ Init /\ [][Next]_vars
  /\ WF_vars(Stop) /\ WF_vars(OtherHook) /\ WF_vars(HookDiff) /\ WF_vars(HookRun)

-----------------------------------------------------------------------------
(* Properties *)

\* The lines that differ from the merge base, or from the base when there is
\* no merge base, and those of new files.
IsNew(f, l) == <<f, l>> \in changed \/ (shallow /\ <<f, l>> \in Drift) \/ f \in created
Misread(f) == \E l \in 1..MaxLine : IsNew(f, l) /\ <<f, l>> \in DOMAIN Looks
Stray(f) == \E s \in DOMAIN Looks : Misread(s[1]) /\ Looks[s] = f

\* The scope of a diff run (diff.Compute, main.go:1018) is exactly the lines
\* that are new, whatever else was cut, deleted or created.  An added line
\* that prints like a "+++ " header can only spoil the scope of its own file
\* and of the path it names, never that of the files diffed after it.
ScopeExact ==
  phase = "diffed" =>
    \A f \in Files : (Exists(f) /\ ~Misread(f) /\ ~Stray(f)) =>
      \A l \in 1..MaxLine : D!Includes(diff, f, l) <=> IsNew(f, l)

\* The mutants the hook has to judge, and those the tests of their own
\* package detect.
ToJudge == {s \in Sites : /\ IsNew(s[1], s[2]) /\ PkgOf[s[1]] \notin Hidden
                          /\ Tested(PkgOf[s[1]]) /\ s \notin accepted}
Detected(s) == \E t \in Tests : /\ TestPkg[t] = PkgOf[s[1]]
                                /\ s \in covers[t] /\ (s \in Looping \/ s \in kills[t])
Unkilled == {s \in ToJudge : ~Detected(s)}
Decides == phase = "diffed" /\ decision' # "error" /\ phase' # phase

\* A stop is blocked exactly when the tests detect too few of the mutants on
\* the new lines, by the --min-score of the last init; and never for a
\* package that could not be tested, which writing tests would not mend.
GateHonest ==
  [][(Decides /\ \A f \in Files : ~Misread(f)) =>
       (decision' = "block") =
         (/\ ToJudge # {}
          /\ 100 * Cardinality(ToJudge \ Unkilled) < lastInit * Cardinality(ToJudge)
          /\ \A f \in Source : (Exists(f) /\ \E l \in 1..MaxLine : IsNew(f, l)) => PkgOf[f] \notin broken \ Hidden)]_vars

\* The brief that comes with a block accounts for every mutant the tests
\* missed: it lists it with a re-run command or counts it as left out; it
\* always lists something; and it exceeds the limit only by the one function
\* that is larger than the limit.
BriefComplete ==
  [][(Decides /\ decision' = "block" /\ \A f \in Files : ~Misread(f)) =>
       LET b == out'
           kept == b.live \o b.uncovered
           left == R!Listed(b.omittedLive) \cup R!Listed(b.omittedUncovered)
       IN /\ b.refs \cup left = Unkilled /\ b.refs \cap left = {} /\ b.refs # {}
          /\ Cardinality(b.refs) <= Limit \/ Len(kept) = 1
          /\ \A i \in DOMAIN b.live, j \in DOMAIN b.omittedLive :
               Cardinality(b.live[i].muts) >= Cardinality(b.omittedLive[j].muts)]_vars

\* An agent that cannot reach the score is never trapped: every turn ends
\* (agent.go:209).
NeverTrapped == (phase # "rest") ~> (phase = "rest")

\* A test the report lists as having killed nothing killed no mutant of the
\* run (report.go:789).
ZeroKillHonest ==
  out.kind = "matrix" =>
    \A n \in out.zeroKill : \A r \in out.results :
      n \notin {R!Qualified(r.pkg, k) : k \in r.killers}
=============================================================================
