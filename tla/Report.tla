------------------------------- MODULE Report -------------------------------
(***************************************************************************)
(* internal/report: what a run says about its results.  A result is a      *)
(* record [pkg, fn, site, status, killers, covering]; site stands for the  *)
(* mutant (its ID and fingerprint), and the results of a run come as a set *)
(* because the report orders them by location itself.  A test name is a    *)
(* pair <<package, test>>; the package is Own for a test of the mutated    *)
(* package itself (suite.resultName).                                      *)
(***************************************************************************)
EXTENDS Integers, Sequences, FiniteSets

CONSTANTS
  FuncRank,  \* FuncRank[<<pkg, fn>>]: place in package-then-function order
  Own        \* the package of an unqualified test name

-----------------------------------------------------------------------------
(* Build: summaries *)

Count(rs, statuses) == Cardinality({r \in rs : r.status \in statuses})

\* scoreWithUncovered; no verdict of this version is not_viable.
Denominator(s) == s.total

\* The counting switch of Build
Summary(rs) ==
  [total |-> Cardinality(rs), killed |-> Count(rs, {"killed"}),
   survived |-> Count(rs, {"survived"}), timeout |-> Count(rs, {"timeout"}),
   notCovered |-> Count(rs, {"not_covered"})]

\* The per-package summaries of Build
Packages(rs) == [p \in {r.pkg : r \in rs} |-> Summary({r \in rs : r.pkg = p})]

\* score and scoreWithUncovered, compared with a percentage: a timeout counts
\* as detected and an empty denominator scores 0.
Below(s, denominator, min) ==
  IF denominator <= 0 THEN 0 < min ELSE 100 * (s.killed + s.timeout) < min * denominator

-----------------------------------------------------------------------------
(* Build: the test-level views *)

\* qualifyTestName
Qualified(pkg, name) == IF name[1] = Own THEN <<pkg, name[2]>> ELSE name

\* The keys of stats: the inventory and every killing test, per package of
\* the mutants.
StatKeys(rs, inventory) ==
  (UNION {{<<p, <<Own, t>>>> : t \in inventory[p]} : p \in DOMAIN inventory})
  \cup (UNION {{<<r.pkg, n>> : n \in r.killers} : r \in rs})

\* stats: the mutants each of these tests killed
TestStats(rs, inventory) ==
  [k \in StatKeys(rs, inventory) |->
     {r.site : r \in {x \in rs : x.pkg = k[1] /\ k[2] \in x.killers}}]

\* buildTestAggregations: the tests without a kill, and the groups of two or
\* more tests of one package with the same kills.
ZeroKillTests(stats) ==
  {Qualified(k[1], k[2]) : k \in {x \in DOMAIN stats : stats[x] = {}}}

RedundantTestGroups(stats) ==
  LET same(k) == {x \in DOMAIN stats : x[1] = k[1] /\ stats[x] = stats[k]}
      groups == {same(k) : k \in {x \in DOMAIN stats : stats[x] # {}}}
  IN {{Qualified(k[1], k[2]) : k \in g} : g \in {h \in groups : Cardinality(h) >= 2}}

-----------------------------------------------------------------------------
(* WriteLLM: the brief *)

\* groupByFunction: the functions with results of this status, those with
\* the most mutants first, then by package and function.
Mutants(rs, want, g) == {r.site : r \in {x \in rs : x.status = want /\ <<x.pkg, x.fn>> = g}}

\* The comparison of groupByFunction's sort
Ahead(rs, want, g, h) ==
  LET size(x) == Cardinality(Mutants(rs, want, x)) IN
  size(g) > size(h) \/ (size(g) = size(h) /\ FuncRank[g] < FuncRank[h])

\* The i-th function is the one that i - 1 others are ahead of.
Ordered(rs, want, gs) ==
  [i \in 1..Cardinality(gs) |->
     LET g == CHOOSE x \in gs : Cardinality({h \in gs : Ahead(rs, want, h, x)}) = i - 1
     IN [fn |-> g, muts |-> Mutants(rs, want, g)]]

groupByFunction(rs, want) ==
  Ordered(rs, want, {<<r.pkg, r.fn>> : r \in {x \in rs : x.status = want}})

\* Mutant: the first group of the brief has to fit as well.
FitsStrict(bud, n) == n <= bud.left

\* llmBudget.take on one group: it is kept when it fits, and the first group
\* of the brief always is.
Fits(bud, n) == n <= bud.left \/ bud.listed = 0

\* The mutants of the first i groups, by i
Spent(groups) ==
  LET spent[i \in 0..Len(groups)] ==
        IF i = 0 THEN 0 ELSE spent[i - 1] + Cardinality(groups[i].muts)
  IN spent

\* The budget after the first i groups, and whether take stops there.
Budget(bud, groups, i) == [left |-> bud.left - Spent(groups)[i], listed |-> bud.listed + Spent(groups)[i]]
Stops(bud, groups, limit, i) ==
  i = Len(groups) \/ (limit > 0 /\ ~Fits(Budget(bud, groups, i), Cardinality(groups[i + 1].muts)))

\* llmBudget.take: whole groups are kept, in order, until one does not fit;
\* without a limit all are.
Take(bud, groups, limit) ==
  LET k == CHOOSE i \in 0..Len(groups) : /\ Stops(bud, groups, limit, i)
                                         /\ \A j \in 0..(i - 1) : ~Stops(bud, groups, limit, j)
  IN [bud |-> Budget(bud, groups, k),
      kept |-> SubSeq(groups, 1, k), omitted |-> SubSeq(groups, k + 1, Len(groups))]

Listed(groups) == UNION {groups[i].muts : i \in DOMAIN groups}

\* WriteLLM writes the brief to w: live mutants first, then uncovered ones,
\* under one budget; each section names what it leaves out, and the re-run
\* commands of writeLLMNextIteration name the mutants that are listed.
WriteLLM(w, rs, limit) ==
  \E survivors \in {groupByFunction(rs, "survived")}, uncovered \in {groupByFunction(rs, "not_covered")} :
  \E live \in {Take([left |-> limit, listed |-> 0], survivors, limit)} :
  \E rest \in {Take(live.bud, uncovered, limit)} :
    w = [kind |-> "llm", live |-> live.kept, omittedLive |-> live.omitted,
         uncovered |-> rest.kept, omittedUncovered |-> rest.omitted,
         refs |-> Listed(live.kept) \cup Listed(rest.kept)]

\* WriteText and WriteSARIF list the unkilled mutants without a budget; a
\* SARIF run is unsuccessful when a package failed.
WriteText(rs) == [unkilled |-> {r.site : r \in {x \in rs : x.status \in {"survived", "not_covered"}}},
                  packages |-> Packages(rs)]
WriteSARIF(rs, errors) == [results |-> WriteText(rs).unkilled, successful |-> errors = {}]
=============================================================================
