-------------------------- MODULE SuiteSetupProofs --------------------------
(***************************************************************************)
(* The invariants of SuiteSetup for every number of runs, tests, lines,    *)
(* mutants and edits.  They are not inductive: what holds of a suite that  *)
(* is ready must hold of every stored set-up (StoredOK) and build up       *)
(* through the stages of a run (StageOK).                                  *)
(***************************************************************************)
EXTENDS SuiteSetup, FiniteSetTheorems, TLAPS

\* What is stored under a key was made for it, without a failing test.
StoredOK(e) ==
  /\ e.setup.of.bins = e.key.bins
  /\ e.setup.of.fixtures >= e.key.stamp
  /\ e.setup.of.failed = {}
  /\ e.setup.tests = e.key.tests

\* What a set-up was made from, and which tests it left out.
MadeHere(r) ==
  /\ setup[r].of.bins = bins[r]
  /\ setup[r].of.fixtures >= cfg[r].stamp
  /\ setup[r].of.failed \subseteq excluded[r]
  /\ setup[r].tests \cup excluded[r] = cfg[r].tests

StageOK(r) ==
  /\ cfg[r].stamp <= fixtures
  /\ pc[r] \in {"idle", "compile", "compileCov", "look up"} =>
       skip[r] = {} /\ excluded[r] = {} /\ round[r] = 0
  /\ pc[r] = "baseline" => skip[r] = excluded[r] /\ excluded[r] \subseteq cfg[r].tests
  /\ pc[r] = "coverage" =>
       /\ MadeHere(r)
       /\ setup[r].tests \cap setup[r].of.failed = {}
       /\ excluded[r] = setup[r].of.failed
  /\ pc[r] = "ready" =>
       MadeHere(r) /\ \A l \in Lines : setup[r].covMap[l] \cap setup[r].of.failed = {}

\* Enough tests have failed to give the suite up.
Enough(r, failed) == failed = cfg[r].tests \/ Cardinality(failed) > MaxBaselineRounds

\* Every round excluded a test.
RoundsOK(r) ==
  /\ pc[r] = "baseline" => Cardinality(skip[r]) >= round[r]
  /\ pc[r] = "failing tests" => Enough(r, setup[r].of.failed)

SetupInv ==
  /\ TypeOK
  /\ \A e \in cache : StoredOK(e)
  /\ \A r \in Runs : StageOK(r) /\ RoundsOK(r)

\* The variables of a run that an action of another run leaves alone.
Same(q) ==
  /\ pc'[q] = pc[q] /\ cfg'[q] = cfg[q] /\ bins'[q] = bins[q] /\ skip'[q] = skip[q]
  /\ round'[q] = round[q] /\ setup'[q] = setup[q] /\ excluded'[q] = excluded[q]

-----------------------------------------------------------------------------
LEMMA Numbers ==
  /\ Versions \subseteq Int /\ \A v \in Versions : v >= 0
  /\ NoStamp \in Int /\ NoStamp < 0
  /\ 0 \in Versions /\ 0 \in 0 .. MaxBaselineRounds
  BY SuiteSetupAssumption DEF Versions, NoStamp

LEMMA StampInt == ASSUME NEW c \in Configs PROVE c.stamp \in Int
  BY Numbers DEF Configs

LEMMA SameOK ==
  ASSUME SetupInv, NEW q \in Runs, Same(q), fixtures' \in Versions, fixtures' >= fixtures
  PROVE  StageOK(q)' /\ RoundsOK(q)'
<1>1. cfg[q].stamp \in Int /\ fixtures \in Int /\ fixtures' \in Int
  BY Numbers, StampInt DEF SetupInv, TypeOK
<1>2. cfg'[q].stamp <= fixtures'
  <2>1. cfg[q].stamp <= fixtures /\ cfg'[q] = cfg[q]
    BY DEF SetupInv, StageOK, Same
  <2> QED BY <1>1, <2>1
<1>3. MadeHere(q)' <=> MadeHere(q)
  BY DEF MadeHere, Same
<1>4. StageOK(q)'
  BY <1>2, <1>3 DEF SetupInv, StageOK, Same
<1>5. RoundsOK(q)'
  BY DEF SetupInv, RoundsOK, Same, Enough
<1> QED BY <1>4, <1>5

\* An action of run r preserves the invariant if it does so for r.
LEMMA ByRun ==
  ASSUME SetupInv, NEW r \in Runs, TypeOK', \A e \in cache' : StoredOK(e),
         \A q \in Runs \ {r} : Same(q), UNCHANGED fixtures,
         StageOK(r)', RoundsOK(r)'
  PROVE  SetupInv'
<1>1. fixtures' \in Versions /\ fixtures' >= fixtures
  <2>1. fixtures \in Versions /\ fixtures \in Int
    BY Numbers DEF SetupInv, TypeOK
  <2> QED BY <2>1
<1>2. \A q \in Runs : StageOK(q)' /\ RoundsOK(q)'
  BY <1>1, SameOK
<1>3. (\A e \in cache : StoredOK(e))'
  BY DEF StoredOK
<1> QED BY <1>2, <1>3 DEF SetupInv

LEMMA EmptyValues == NoBins \in Bins /\ NoConfig \in Configs /\ NoSetup \in Setups
  BY SuiteSetupAssumption DEF NoBins, Bins, NoConfig, Configs, NoSetup, Setups, Origins, Versions, NoStamp

LEMMA InitInv == Init => SetupInv
<1> SUFFICES ASSUME Init PROVE SetupInv
  OBVIOUS
<1>1. TypeOK
  BY EmptyValues, Numbers DEF Init, TypeOK
<1>2. ASSUME NEW r \in Runs PROVE StageOK(r) /\ RoundsOK(r)
  BY Numbers DEF Init, StageOK, RoundsOK, NoConfig
<1> QED BY <1>1, <1>2 DEF SetupInv, Init

LEMMA EditInv == ASSUME SetupInv, Edit PROVE SetupInv'
<1>1. fixtures' \in Versions /\ fixtures' >= fixtures /\ sources' \in Versions
  <2>1. fixtures \in 0 .. MaxEdits /\ sources \in 0 .. MaxEdits /\ MaxEdits \in Nat
    BY SuiteSetupAssumption DEF SetupInv, TypeOK, Versions
  <2>2. CASE sources' = sources + 1 /\ fixtures' = fixtures
    BY <2>1, <2>2 DEF Edit, Versions
  <2>3. CASE fixtures' = fixtures + 1 /\ sources' = sources
    BY <2>1, <2>3 DEF Edit, Versions
  <2> QED BY <2>2, <2>3 DEF Edit
<1>2. TypeOK'
  BY <1>1 DEF SetupInv, TypeOK, Edit, runVars
<1>3. \A q \in Runs : StageOK(q)' /\ RoundsOK(q)'
  BY <1>1, SameOK DEF Edit, runVars, Same
<1>4. (\A e \in cache : StoredOK(e))'
  BY DEF SetupInv, StoredOK, Edit
<1> QED BY <1>2, <1>3, <1>4 DEF SetupInv

LEMMA QuitInv ==
  ASSUME SetupInv, NEW r \in Runs, Quit(r), UNCHANGED <<sources, fixtures, cache>>
  PROVE  SetupInv'
<1>1. TypeOK'
  BY EmptyValues, Numbers DEF SetupInv, TypeOK, Quit, GoTo
<1>2. /\ pc'[r] = "idle" /\ cfg'[r] = NoConfig /\ skip'[r] = {}
      /\ round'[r] = 0 /\ excluded'[r] = {}
  BY DEF SetupInv, TypeOK, Quit, GoTo
<1>3. StageOK(r)' /\ RoundsOK(r)'
  <2>1. fixtures \in Int /\ fixtures >= 0
    BY Numbers DEF SetupInv, TypeOK
  <2>2. cfg'[r].stamp = NoStamp
    BY <1>2 DEF NoConfig
  <2>3. cfg'[r].stamp <= fixtures'
    BY <2>1, <2>2, Numbers
  <2> QED BY <1>2, <2>3 DEF StageOK, RoundsOK
<1>4. \A q \in Runs \ {r} : Same(q)
  BY DEF SetupInv, TypeOK, Quit, GoTo, Same
<1> QED BY <1>1, <1>3, <1>4, ByRun DEF SetupInv

LEMMA GiveUpInv ==
  ASSUME SetupInv, NEW r \in Runs, NEW failed \in SUBSET Tests, GiveUp(r, failed),
         Enough(r, failed), UNCHANGED <<sources, fixtures, cache>>
  PROVE  SetupInv'
<1>1. TypeOK'
  <2>1. setup' \in [Runs -> Setups]
    <3>1. setup[r] \in Setups /\ setup' = [setup EXCEPT ![r].of.failed = failed]
      BY DEF SetupInv, TypeOK, GiveUp
    <3>2. [setup[r] EXCEPT !.of.failed = failed] \in Setups
      BY <3>1 DEF Setups, Origins
    <3> QED BY <3>1, <3>2 DEF SetupInv, TypeOK
  <2> QED BY <2>1, Numbers DEF SetupInv, TypeOK, GiveUp, GoTo
<1>2. pc'[r] = "failing tests" /\ setup'[r].of.failed = failed
  BY DEF SetupInv, TypeOK, GiveUp, GoTo, Setups, Origins
<1>3. StageOK(r)' /\ RoundsOK(r)'
  BY <1>2 DEF SetupInv, StageOK, RoundsOK, Enough, GiveUp
<1>4. \A q \in Runs \ {r} : Same(q)
  BY DEF SetupInv, TypeOK, GiveUp, GoTo, Same
<1> QED BY <1>1, <1>3, <1>4, ByRun DEF SetupInv

LEMMA StartInv == ASSUME SetupInv, NEW r \in Runs, Start(r) PROVE SetupInv'
<1>1. PICK own \in BOOLEAN, T \in Selections[r], stamp \in ModuleStamps :
        cfg' = [cfg EXCEPT ![r] = [own |-> own, tests |-> T, stamp |-> stamp]]
  BY DEF Start
<1>2. TypeOK'
  <2>1. T \in SUBSET Tests
    BY SuiteSetupAssumption
  <2> QED BY <1>1, <2>1 DEF SetupInv, TypeOK, Start, GoTo, Configs, ModuleStamps
<1>3. cfg'[r].stamp <= fixtures'
  <2>1. fixtures \in Int /\ fixtures >= 0 /\ cfg'[r].stamp = stamp /\ fixtures' = fixtures
    BY <1>1, Numbers DEF SetupInv, TypeOK, Start
  <2>2. stamp = fixtures \/ stamp = NoStamp
    BY DEF ModuleStamps
  <2> QED BY <2>1, <2>2, Numbers
<1>4. pc'[r] = "compile" /\ skip'[r] = {} /\ excluded'[r] = {} /\ round'[r] = 0
  BY DEF SetupInv, TypeOK, Start, GoTo, StageOK
<1>5. StageOK(r)' /\ RoundsOK(r)'
  BY <1>3, <1>4 DEF StageOK, RoundsOK
<1>6. \A q \in Runs \ {r} : Same(q)
  BY DEF SetupInv, TypeOK, Start, GoTo, Same
<1> QED BY <1>2, <1>5, <1>6, ByRun DEF SetupInv, Start

LEMMA CompileInv ==
  ASSUME SetupInv, NEW r \in Runs, Compile(r) \/ CompileCov(r)
  PROVE  SetupInv'
<1>1. TypeOK'
  <2>1. bins' \in [Runs -> Bins]
    <3>1. CASE Compile(r)
      BY <3>1 DEF SetupInv, TypeOK, Compile, Bins
    <3>2. CASE CompileCov(r)
      BY <3>2 DEF SetupInv, TypeOK, CompileCov, Bins
    <3> QED BY <3>1, <3>2
  <2> QED BY <2>1 DEF SetupInv, TypeOK, Compile, CompileCov, GoTo
<1>2. /\ pc'[r] \in {"compileCov", "look up", "baseline"}
      /\ skip'[r] = {} /\ excluded'[r] = {} /\ round'[r] = 0 /\ cfg'[r] = cfg[r]
      /\ UNCHANGED <<fixtures, cache>>
  BY DEF SetupInv, TypeOK, Compile, CompileCov, GoTo, StageOK
<1>3. StageOK(r)' /\ RoundsOK(r)'
  <2>1. Cardinality(skip'[r]) >= round'[r]
    <3>1. skip'[r] = {} /\ round'[r] = 0
      BY <1>2
    <3> QED BY <3>1, FS_EmptySet
  <2> QED BY <1>2, <2>1 DEF SetupInv, StageOK, RoundsOK
<1>4. \A q \in Runs \ {r} : Same(q)
  BY DEF SetupInv, TypeOK, Compile, CompileCov, GoTo, Same
<1> QED BY <1>1, <1>2, <1>3, <1>4, ByRun DEF SetupInv

LEMMA LookUpInv == ASSUME SetupInv, NEW r \in Runs, LookUp(r) PROVE SetupInv'
<1>1. /\ skip[r] = {} /\ excluded[r] = {} /\ round[r] = 0
      /\ UNCHANGED <<sources, fixtures, cache, cfg, bins, skip, round, excluded>>
  BY DEF SetupInv, StageOK, LookUp
<1>2. CASE UNCHANGED setup /\ GoTo(r, "baseline")
  <2>1. TypeOK'
    BY <1>1, <1>2 DEF SetupInv, TypeOK, GoTo
  <2>2. StageOK(r)' /\ RoundsOK(r)'
    <3>1. Cardinality(skip'[r]) >= round'[r]
      BY <1>1, FS_EmptySet
    <3>2. pc'[r] = "baseline"
      BY <1>2 DEF SetupInv, TypeOK, GoTo
    <3> QED BY <1>1, <3>1, <3>2 DEF SetupInv, StageOK, RoundsOK
  <2>3. \A q \in Runs \ {r} : Same(q)
    BY <1>1, <1>2 DEF SetupInv, TypeOK, GoTo, Same
  <2> QED BY <1>1, <2>1, <2>2, <2>3, ByRun DEF SetupInv
<1>3. ASSUME NEW e \in cache, e.key = Key(r), setup' = [setup EXCEPT ![r] = e.setup], GoTo(r, "ready")
      PROVE  SetupInv'
  <2>1. e.key \in Keys /\ e.setup \in Setups /\ StoredOK(e)
    BY DEF SetupInv, TypeOK
  <2>2. TypeOK'
    BY <1>1, <1>3, <2>1 DEF SetupInv, TypeOK, GoTo
  <2>3. pc'[r] = "ready" /\ setup'[r] = e.setup
    BY <1>3 DEF SetupInv, TypeOK, GoTo
  <2>4. MadeHere(r)'
    BY <1>1, <1>3, <2>1, <2>3 DEF MadeHere, StoredOK, Key
  <2>5. \A l \in Lines : setup'[r].covMap[l] \cap setup'[r].of.failed = {}
    BY <2>1, <2>3 DEF StoredOK
  <2>6. StageOK(r)' /\ RoundsOK(r)'
    BY <1>1, <2>3, <2>4, <2>5 DEF SetupInv, StageOK, RoundsOK
  <2>7. \A q \in Runs \ {r} : Same(q)
    BY <1>1, <1>3 DEF SetupInv, TypeOK, GoTo, Same
  <2> QED BY <1>1, <2>2, <2>6, <2>7, ByRun DEF SetupInv
<1> QED BY <1>2, <1>3 DEF LookUp

LEMMA BaselinePassesInv == ASSUME SetupInv, NEW r \in Runs, BaselinePasses(r) PROVE SetupInv'
<1> DEFINE ran == cfg[r].tests \ skip[r]
           of == [bins |-> bins[r], tests |-> cfg[r].tests, fixtures |-> fixtures, failed |-> skip[r]]
           new == [tests |-> ran, covMap |-> NoSetup.covMap, of |-> of]
<1>1. CASE ran = {} /\ GiveUp(r, skip[r])
  <2>1. skip[r] = cfg[r].tests
    BY <1>1 DEF SetupInv, StageOK, BaselinePasses
  <2>2. skip[r] \in SUBSET Tests /\ UNCHANGED <<sources, fixtures, cache>>
    BY DEF SetupInv, TypeOK, BaselinePasses
  <2> QED BY <1>1, <2>1, <2>2, GiveUpInv DEF Enough
<1>2. CASE /\ setup' = [setup EXCEPT ![r] = new]
           /\ GoTo(r, "coverage")
           /\ skip' = [skip EXCEPT ![r] = {}]
           /\ round' = [round EXCEPT ![r] = 0]
           /\ UNCHANGED <<cfg, bins, excluded>>
  <2>1. UNCHANGED <<sources, fixtures, cache>> /\ skip[r] = excluded[r] /\ excluded[r] \subseteq cfg[r].tests
    BY DEF SetupInv, StageOK, BaselinePasses
  <2>2. cfg[r].tests \subseteq Tests
    BY SuiteSetupAssumption DEF SetupInv, TypeOK, Configs
  <2>3. of \in Origins
    BY <2>2 DEF SetupInv, TypeOK, Origins
  <2>4. new \in Setups
    BY <2>2, <2>3, EmptyValues DEF Setups
  <2> HIDE DEF new, of
  <2>5. TypeOK'
    BY <1>2, <2>1, <2>4, Numbers DEF SetupInv, TypeOK, GoTo
  <2>6. pc'[r] = "coverage" /\ setup'[r] = new
    BY <1>2 DEF SetupInv, TypeOK, GoTo
  <2>7. MadeHere(r)'
    <3>1. new.of.bins = bins[r] /\ new.of.fixtures = fixtures /\ new.of.failed = skip[r] /\ new.tests = ran
      BY DEF new, of
    <3>2. fixtures >= cfg[r].stamp
      BY StampInt, Numbers DEF SetupInv, TypeOK, StageOK
    <3> QED BY <1>2, <2>1, <2>6, <3>1, <3>2 DEF MadeHere
  <2>8. StageOK(r)' /\ RoundsOK(r)'
    <3>1. new.tests \cap new.of.failed = {} /\ new.of.failed = skip[r]
      BY DEF new, of
    <3> QED BY <1>2, <2>1, <2>6, <2>7, <3>1 DEF SetupInv, StageOK, RoundsOK
  <2>9. \A q \in Runs \ {r} : Same(q)
    BY <1>2 DEF SetupInv, TypeOK, GoTo, Same
  <2> QED BY <2>1, <2>5, <2>8, <2>9, ByRun DEF SetupInv
<1> QED BY <1>1, <1>2 DEF BaselinePasses

\* Excluding tests that were not excluded before makes the set larger.
LEMMA Grows ==
  ASSUME NEW S \in SUBSET Tests, NEW F \in SUBSET (Tests \ S), F # {}
  PROVE  Cardinality(S \cup F) >= Cardinality(S) + 1
<1>1. PICK x \in F : TRUE
  OBVIOUS
<1>2. IsFiniteSet(S) /\ IsFiniteSet(S \cup F)
  BY SuiteSetupAssumption, FS_Subset
<1>3. Cardinality(S \cup {x}) = Cardinality(S) + 1
  BY <1>2, FS_AddElement
<1>4. Cardinality(S \cup {x}) <= Cardinality(S \cup F)
  BY <1>2, FS_Subset
<1>5. Cardinality(S) \in Nat /\ Cardinality(S \cup F) \in Nat
  BY <1>2, FS_CardinalityType
<1> QED BY <1>3, <1>4, <1>5

LEMMA BaselineFailsInv == ASSUME SetupInv, NEW r \in Runs, BaselineFails(r) PROVE SetupInv'
<1>1. PICK F \in (SUBSET (cfg[r].tests \ skip[r])) \ {{}} :
        IF round[r] = MaxBaselineRounds
          THEN GiveUp(r, skip[r] \cup F)
          ELSE /\ skip' = [skip EXCEPT ![r] = @ \cup F]
               /\ excluded' = [excluded EXCEPT ![r] = @ \cup F]
               /\ round' = [round EXCEPT ![r] = @ + 1]
               /\ UNCHANGED <<pc, cfg, bins, setup>>
  BY DEF BaselineFails
<1>2. F # {} /\ F \subseteq cfg[r].tests \ skip[r]
  OBVIOUS
<1>3. /\ pc[r] = "baseline" /\ skip[r] = excluded[r] /\ excluded[r] \subseteq cfg[r].tests
      /\ UNCHANGED <<sources, fixtures, cache>>
  BY DEF SetupInv, StageOK, BaselineFails
<1>4. /\ cfg[r].tests \subseteq Tests /\ skip[r] \subseteq Tests
      /\ Cardinality(skip[r]) \in Nat /\ Cardinality(skip[r] \cup F) \in Nat
      /\ Cardinality(skip[r]) >= round[r]
      /\ Cardinality(skip[r] \cup F) >= Cardinality(skip[r]) + 1
  <2>1. cfg[r].tests \subseteq Tests /\ skip[r] \subseteq Tests
    BY SuiteSetupAssumption DEF SetupInv, TypeOK, Configs
  <2>2. F \in SUBSET (Tests \ skip[r]) /\ skip[r] \in SUBSET Tests /\ skip[r] \cup F \subseteq Tests
    BY <1>2, <2>1
  <2>3. Cardinality(skip[r]) \in Nat /\ Cardinality(skip[r] \cup F) \in Nat
    BY <2>2, SuiteSetupAssumption, FS_Subset, FS_CardinalityType
  <2>4. Cardinality(skip[r] \cup F) >= Cardinality(skip[r]) + 1
    BY <1>2, <2>2, Grows
  <2>5. Cardinality(skip[r]) >= round[r]
    BY <1>3 DEF SetupInv, RoundsOK
  <2> QED BY <2>1, <2>3, <2>4, <2>5
<1>6. CASE round[r] = MaxBaselineRounds
  <2>1. GiveUp(r, skip[r] \cup F) /\ skip[r] \cup F \in SUBSET Tests
    BY <1>1, <1>2, <1>4, <1>6
  <2>2. Enough(r, skip[r] \cup F)
    BY <1>4, <1>6, SuiteSetupAssumption DEF Enough
  <2> QED BY <1>3, <2>1, <2>2, GiveUpInv
<1>5. CASE round[r] # MaxBaselineRounds
  <2>1. /\ skip' = [skip EXCEPT ![r] = @ \cup F]
        /\ excluded' = [excluded EXCEPT ![r] = @ \cup F]
        /\ round' = [round EXCEPT ![r] = @ + 1]
        /\ UNCHANGED <<pc, cfg, bins, setup>>
    BY <1>1, <1>5
  <2>3. /\ skip'[r] = skip[r] \cup F /\ excluded'[r] = excluded[r] \cup F /\ round'[r] = round[r] + 1
        /\ skip[r] \cup F \subseteq Tests /\ excluded[r] \cup F \subseteq Tests
    BY <1>2, <1>3, <1>4, <2>1 DEF SetupInv, TypeOK
  <2>4. round[r] \in 0 .. MaxBaselineRounds /\ round[r] + 1 \in 0 .. MaxBaselineRounds
    <3>1. round[r] \in 0 .. MaxBaselineRounds
      BY DEF SetupInv, TypeOK
    <3> QED BY <1>5, <3>1, SuiteSetupAssumption
  <2>5. TypeOK'
    <3>1. skip' \in [Runs -> SUBSET Tests] /\ excluded' \in [Runs -> SUBSET Tests]
      BY <2>1, <2>3 DEF SetupInv, TypeOK
    <3>2. round' \in [Runs -> 0 .. MaxBaselineRounds]
      BY <2>1, <2>4 DEF SetupInv, TypeOK
    <3> QED BY <1>3, <2>1, <3>1, <3>2 DEF SetupInv, TypeOK
  <2>6. StageOK(r)'
    BY <1>3, <2>1, <2>3 DEF SetupInv, StageOK
  <2>7. Cardinality(skip'[r]) >= round'[r]
    BY <1>4, <2>3, <2>4
  <2>8. RoundsOK(r)'
    BY <1>3, <2>1, <2>7 DEF RoundsOK
  <2>9. \A q \in Runs \ {r} : Same(q)
    BY <1>3, <2>1 DEF SetupInv, TypeOK, Same
  <2> QED BY <1>3, <2>5, <2>6, <2>8, <2>9, ByRun DEF SetupInv
<1> QED BY <1>5, <1>6

LEMMA CollectCoverageInv == ASSUME SetupInv, NEW r \in Runs, CollectCoverage(r) PROVE SetupInv'
<1>1. PICK failed, touched :
        /\ failed \in SUBSET setup[r].tests
        /\ touched \in [Counted(setup[r].tests, failed) -> SUBSET Lines]
        /\ LET s == [setup[r] EXCEPT !.covMap = CovMap(touched), !.of.failed = @ \cup failed]
           IN  IF cfg[r].own /\ failed # {} /\ failed = setup[r].tests
                 THEN GiveUp(r, setup[r].of.failed \cup failed) /\ UNCHANGED cache
                 ELSE /\ setup' = [setup EXCEPT ![r] = s]
                      /\ excluded' = [excluded EXCEPT ![r] = @ \cup failed]
                      /\ GoTo(r, "ready")
                      /\ IF ~cfg[r].own /\ excluded[r] \cup failed = {}
                           THEN Store(r, s) ELSE UNCHANGED cache
                      /\ UNCHANGED <<cfg, bins, skip, round>>
  BY DEF CollectCoverage
<1> DEFINE s == [setup[r] EXCEPT !.covMap = CovMap(touched), !.of.failed = @ \cup failed]
<1>2. CASE failed = setup[r].tests /\ GiveUp(r, setup[r].of.failed \cup failed) /\ UNCHANGED cache
  <2>1. setup[r].of.failed \cup failed = cfg[r].tests
    BY <1>2 DEF SetupInv, StageOK, MadeHere, CollectCoverage
  <2>2. cfg[r].tests \in SUBSET Tests /\ UNCHANGED <<sources, fixtures, cache>>
    BY <1>2, SuiteSetupAssumption DEF SetupInv, TypeOK, Configs, CollectCoverage
  <2> QED BY <1>2, <2>1, <2>2, GiveUpInv DEF Enough
<1>3. CASE /\ setup' = [setup EXCEPT ![r] = s]
           /\ excluded' = [excluded EXCEPT ![r] = @ \cup failed]
           /\ GoTo(r, "ready")
           /\ IF ~cfg[r].own /\ excluded[r] \cup failed = {}
                THEN Store(r, s) ELSE UNCHANGED cache
           /\ UNCHANGED <<cfg, bins, skip, round>>
  <2>1. pc[r] = "coverage" /\ UNCHANGED <<sources, fixtures>> /\ MadeHere(r)
    BY DEF SetupInv, StageOK, CollectCoverage
  <2>2. setup[r] \in Setups /\ excluded[r] \subseteq Tests /\ failed \subseteq setup[r].tests
    BY <1>1 DEF SetupInv, TypeOK
  <2>3. /\ s.tests = setup[r].tests
        /\ s.covMap = CovMap(touched)
        /\ s.of.bins = setup[r].of.bins /\ s.of.fixtures = setup[r].of.fixtures
        /\ s.of.failed = setup[r].of.failed \cup failed
        /\ s \in Setups
    <3>1. DOMAIN touched = setup[r].tests \ failed
      BY <1>1 DEF Counted
    <3> QED BY <2>2, <3>1 DEF Setups, Origins, CovMap
  <2> HIDE DEF s
  <2>4. \A l \in Lines : s.covMap[l] \cap s.of.failed = {}
    <3>1. setup[r].tests \cap setup[r].of.failed = {}
      BY <2>1 DEF SetupInv, StageOK
    <3>2. DOMAIN touched = setup[r].tests \ failed
      BY <1>1 DEF Counted
    <3> QED BY <2>3, <3>1, <3>2 DEF CovMap
  <2>5. pc'[r] = "ready" /\ setup'[r] = s /\ excluded'[r] = excluded[r] \cup failed
    BY <1>3 DEF SetupInv, TypeOK, GoTo
  <2>6. cache' \subseteq [key : Keys, setup : Setups] /\ \A e \in cache' : StoredOK(e)
    <3>1. CASE UNCHANGED cache
      BY <3>1 DEF SetupInv, TypeOK
    <3>2. CASE Store(r, s) /\ excluded[r] \cup failed = {}
      <4> DEFINE e == [key |-> Key(r), setup |-> s]
      <4>1. CASE cfg[r].stamp # NoStamp /\ cache' = {c \in cache : c.key # Key(r)} \cup {e}
        <5>1. Key(r) \in Keys
          BY <4>1, SuiteSetupAssumption DEF SetupInv, TypeOK, Key, Keys, Configs
        <5>2. StoredOK(e)
          BY <2>1, <2>3, <3>2 DEF StoredOK, MadeHere, Key
        <5>3. e \in [key : Keys, setup : Setups]
          BY <2>3, <5>1
        <5> HIDE DEF e
        <5> QED BY <4>1, <5>2, <5>3 DEF SetupInv, TypeOK
      <4>2. CASE UNCHANGED cache
        BY <3>1, <4>2
      <4> QED BY <3>2, <4>1, <4>2 DEF Store
    <3> QED BY <1>3, <3>1, <3>2
  <2>7. TypeOK'
    <3>1. setup' \in [Runs -> Setups]
      BY <1>3, <2>3 DEF SetupInv, TypeOK
    <3>2. excluded' \in [Runs -> SUBSET Tests]
      <4>1. excluded[r] \cup failed \subseteq Tests
        BY <2>2 DEF Setups
      <4> QED BY <1>3, <4>1 DEF SetupInv, TypeOK
    <3> QED BY <1>3, <2>1, <2>6, <3>1, <3>2 DEF SetupInv, TypeOK, GoTo
  <2>8. MadeHere(r)'
    BY <1>3, <2>1, <2>2, <2>3, <2>5 DEF MadeHere
  <2>9. StageOK(r)' /\ RoundsOK(r)'
    BY <1>3, <2>1, <2>4, <2>5, <2>8 DEF SetupInv, StageOK, RoundsOK
  <2>10. \A q \in Runs \ {r} : Same(q)
    BY <1>3 DEF SetupInv, TypeOK, GoTo, Same
  <2> QED BY <2>1, <2>6, <2>7, <2>9, <2>10, ByRun
<1> QED BY <1>1, <1>2, <1>3

LEMMA SetupStepInv == ASSUME SetupInv, [Next]_vars PROVE SetupInv'
<1>1. CASE Edit
  BY <1>1, EditInv
<1>2. ASSUME NEW r \in Runs, RunStep(r) PROVE SetupInv'
  <2>1. CASE Start(r)
    BY <2>1, StartInv
  <2>2. CASE Compile(r) \/ CompileCov(r)
    BY <2>2, CompileInv
  <2>3. CASE LookUp(r)
    BY <2>3, LookUpInv
  <2>4. CASE BaselinePasses(r)
    BY <2>4, BaselinePassesInv
  <2>5. CASE BaselineFails(r)
    BY <2>5, BaselineFailsInv
  <2>6. CASE CollectCoverage(r)
    BY <2>6, CollectCoverageInv
  <2>7. CASE Break(r) \/ End(r)
    BY <2>7, QuitInv DEF Break, End
  <2> QED BY <1>2, <2>1, <2>2, <2>3, <2>4, <2>5, <2>6, <2>7 DEF RunStep
<1>3. CASE UNCHANGED vars
  <2>1. TypeOK'
    BY <1>3 DEF SetupInv, TypeOK, vars, runVars
  <2>2. fixtures' \in Versions /\ fixtures' >= fixtures
    <3>1. fixtures \in Versions /\ fixtures \in Int /\ fixtures' = fixtures
      BY <1>3, Numbers DEF SetupInv, TypeOK, vars
    <3> QED BY <3>1
  <2>3. \A q \in Runs : StageOK(q)' /\ RoundsOK(q)'
    BY <1>3, <2>2, SameOK DEF vars, runVars, Same
  <2>4. (\A e \in cache : StoredOK(e))'
    BY <1>3 DEF SetupInv, StoredOK, vars
  <2> QED BY <2>1, <2>3, <2>4 DEF SetupInv
<1> QED BY <1>1, <1>2, <1>3 DEF Next

LEMMA SetupInvAlways == Spec => []SetupInv
<1>1. Init => SetupInv
  BY InitInv
<1>2. SetupInv /\ [Next]_vars => SetupInv'
  BY SetupStepInv
<1> QED BY <1>1, <1>2, PTL DEF Spec

-----------------------------------------------------------------------------
\* A test that judges a mutant has failed in no run of the set-up it comes from,
\* whichever process made that set-up.
THEOREM JudgesTrustedAlways == Spec => []JudgesTrusted
<1>1. SetupInv => JudgesTrusted
  <2> SUFFICES ASSUME SetupInv, NEW r \in Runs, pc[r] = "ready", NEW m \in Mutants
               PROVE  Covering(r, m) \cap setup[r].of.failed = {}
    BY DEF JudgesTrusted
  <2>1. MadeHere(r) /\ \A l \in Lines : setup[r].covMap[l] \cap setup[r].of.failed = {}
    BY DEF SetupInv, StageOK
  <2>2. m.line \in Lines /\ (m.coverLine # 0 => m.coverLine \in Lines)
    BY SuiteSetupAssumption
  <2>3. Inventory(r) \cap setup[r].of.failed = {}
    BY <2>1 DEF Inventory, MadeHere
  <2> QED BY <2>1, <2>2, <2>3 DEF Covering
<1> QED BY <1>1, SetupInvAlways, PTL

\* When a suite is ready, every selected test is in the inventory or reported as
\* excluded, with the set-up of another process too.
THEOREM NoTestDroppedAlways == Spec => []NoTestDropped
<1>1. SetupInv => NoTestDropped
  BY DEF SetupInv, StageOK, MadeHere, NoTestDropped, Inventory
<1> QED BY <1>1, SetupInvAlways, PTL

\* The set-up cache never hands out a set-up of other binaries, or of fixtures
\* older than the run's stamp, however runs and edits interleave.
THEOREM SetupCurrentAlways == Spec => []SetupCurrent
<1>1. SetupInv => SetupCurrent
  BY DEF SetupInv, StageOK, MadeHere, SetupCurrent
<1> QED BY <1>1, SetupInvAlways, PTL

\* A suite is given up for its failing tests only when every selected test failed,
\* or more of them than there are rounds to exclude one in.
THEOREM FailuresPersistedAlways == Spec => []FailuresPersisted
<1>1. SetupInv => FailuresPersisted
  BY DEF SetupInv, RoundsOK, Enough, FailuresPersisted
<1> QED BY <1>1, SetupInvAlways, PTL
=============================================================================
