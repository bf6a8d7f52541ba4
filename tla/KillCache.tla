----------------------------- MODULE KillCache ------------------------------
(***************************************************************************)
(* The kill cache of one package (cmd/kanly/killcache.go) and the runs     *)
(* that share it: kanly processes, each a runPackage, and a developer who  *)
(* edits the sources meanwhile.                                            *)
(*                                                                         *)
(* A source hash is the version of what it hashes: of the declaration that *)
(* holds a mutant, and of a test function.  A source that does not parse   *)
(* has no hash.  The parts of a mutant's key that do not change between    *)
(* the runs of a check (kanly's binary, the module stamp, the flags) are   *)
(* left out.  Verdicts are free: tests may be flaky, and may reach code    *)
(* that no hash covers.                                                    *)
(***************************************************************************)
EXTENDS Integers

CONSTANTS
  Runs,         \* kanly processes on the package, each started over and over
  Fps,          \* fingerprints of the package's mutants
  Decls,        \* its declarations
  DeclOf,       \* DeclOf[fp]: the declaration that holds the mutant
  Tests,        \* its top-level tests
  Versions,     \* versions of a declaration or of a test
  TestVersions, \* those the tests take
  NoHash,       \* the hash of a source that does not parse: ""
  EditAnytime   \* the developer also edits while a run sets up

ASSUME KillCacheAssumption ==
  /\ NoHash \notin Versions
  /\ TestVersions \subseteq Versions
  /\ DeclOf \in [Fps -> Decls]
  /\ EditAnytime \in BOOLEAN

VARIABLES
  code,      \* each declaration, on disk
  test,      \* each test, on disk
  file,      \* the package's cache file: each mutant's entry
  pc,        \* where each run is
  scope,     \* the mutants it judges
  binary,    \* the versions in its test binary
  keys,      \* the mutants' keys
  hashes,    \* the tests' source hashes
  results,   \* each mutant's status, with its covering tests until it is
             \* judged and its killing tests from then on
  merged,    \* the entries update read, before it writes them back
  observed,  \* history: the kills that test processes showed
  unkilled   \* history: mutants whose latest stored verdict is not a kill, by key

diskVars == <<code, test>>
planVars == <<keys, hashes>>
vars == <<diskVars, file, pc, scope, binary, planVars, results, merged, observed, unkilled>>

Hashes == Versions \cup {NoHash}
Sources == [code : [Decls -> Hashes], test : [Tests -> Hashes]]

\* killEntry: an entry without killers is no entry.
Entries == [key : Hashes, killers : SUBSET (Tests \X Versions)]
NoEntry == [key |-> NoHash, killers |-> {}]
Files == [Fps -> Entries]
Empty == [fp \in Fps |-> NoEntry]

Fresh == {"killed", "survived", "timeout"}
Statuses == Fresh \cup {"out", "pending", "not_covered", "cached"}
NoResult == [status |-> "out", tests |-> {}]

TypeOK ==
  /\ code \in [Decls -> Hashes]
  /\ test \in [Tests -> Hashes]
  /\ file \in Files
  /\ pc \in [Runs -> {"idle", "loaded", "compiled", "judge", "update", "write"}]
  /\ scope \in [Runs -> SUBSET Fps]
  /\ binary \in [Runs -> Sources]
  /\ keys \in [Runs -> [Fps -> Hashes]]
  /\ hashes \in [Runs -> [Tests -> Hashes]]
  /\ results \in [Runs -> [Fps -> [status : Statuses, tests : SUBSET Tests]]]
  /\ merged \in [Runs -> Files]
  /\ observed \subseteq Fps \X Hashes \X Tests \X Hashes
  /\ unkilled \subseteq Fps \X Hashes

NoKeys == [fp \in Fps |-> NoHash]
NoSources == [code |-> [d \in Decls |-> NoHash], test |-> [t \in Tests |-> NoHash]]
NoResults == [fp \in Fps |-> NoResult]

Init ==
  /\ code \in [Decls -> Versions]
  /\ test \in [Tests -> TestVersions]
  /\ file = Empty
  /\ pc = [r \in Runs |-> "idle"]
  /\ scope = [r \in Runs |-> {}]
  /\ binary = [r \in Runs |-> NoSources]
  /\ keys = [r \in Runs |-> NoKeys]
  /\ hashes = [r \in Runs |-> NoSources.test]
  /\ results = [r \in Runs |-> NoResults]
  /\ merged = [r \in Runs |-> Empty]
  /\ observed = {}
  /\ unkilled = {}

\* A run ends, and what it knew with it.
Quit(r) ==
  /\ pc' = [pc EXCEPT ![r] = "idle"]
  /\ scope' = [scope EXCEPT ![r] = {}]
  /\ binary' = [binary EXCEPT ![r] = NoSources]
  /\ keys' = [keys EXCEPT ![r] = NoKeys]
  /\ hashes' = [hashes EXCEPT ![r] = NoSources.test]
  /\ results' = [results EXCEPT ![r] = NoResults]
  /\ merged' = [merged EXCEPT ![r] = Empty]

-----------------------------------------------------------------------------
\* The developer saves another version, or one that does not parse.
Edit ==
  /\ EditAnytime \/ \A r \in Runs : pc[r] \notin {"loaded", "compiled"}
  /\ \/ \E d \in Decls, h \in Hashes : code' = [code EXCEPT ![d] = h] /\ UNCHANGED test
     \/ \E t \in Tests, h \in TestVersions \cup {NoHash} : test' = [test EXCEPT ![t] = h] /\ UNCHANGED code
  /\ UNCHANGED <<file, pc, scope, binary, planVars, results, merged, observed, unkilled>>

\* The package is loaded and rewritten: the mutants hold this code.  A run may
\* be scoped to some of them.
Load(r) ==
  /\ pc[r] = "idle"
  /\ \A d \in Decls : code[d] # NoHash
  /\ \E S \in SUBSET Fps : scope' = [scope EXCEPT ![r] = S]
  /\ binary' = [binary EXCEPT ![r].code = code]
  /\ pc' = [pc EXCEPT ![r] = "loaded"]
  /\ UNCHANGED <<diskVars, file, planVars, results, merged, observed, unkilled>>

\* The tests are compiled.
Compile(r) ==
  /\ pc[r] = "loaded"
  /\ \A d \in Decls : code[d] # NoHash
  /\ \A t \in Tests : test[t] # NoHash
  /\ binary' = [binary EXCEPT ![r].test = test]
  /\ pc' = [pc EXCEPT ![r] = "compiled"]
  /\ UNCHANGED <<diskVars, file, scope, planVars, results, merged, observed, unkilled>>

\* A stageError in the set-up ends the run without an update of the cache.  The
\* mutant loop itself never fails: RunMutant returns no error.
Fail(r) ==
  /\ pc[r] \in {"loaded", "compiled"}
  /\ Quit(r)
  /\ UNCHANGED <<diskVars, file, observed, unkilled>>

\* Mutant: a kill is reused although the declaration has changed.
ReusedKillersAnyKey(e, key, testHash, covering) ==
  {t \in covering : key # NoHash /\ testHash[t] # NoHash /\ <<t, testHash[t]>> \in e.killers}

\* reusedKiller: the tests that now cover a mutant and whose kill is stored
\* under the mutant's key with their present source.
ReusedKillers(e, key, testHash, covering) ==
  {t \in covering : key # NoHash /\ e.key = key /\ testHash[t] # NoHash
                      /\ <<t, testHash[t]>> \in e.killers}

\* mutantKeys and testHashes: the sources as they are on disk when it is called.
MutantKeys == [fp \in Fps |-> code[DeclOf[fp]]]
TestHashes == test

\* The sources are read again, now.  Stored kills are reused unless
\* --verify-kills or --kill-matrix asks for a fresh verdict.
Plan(r) ==
  /\ pc[r] = "compiled"
  /\ keys' = [keys EXCEPT ![r] = MutantKeys]
  /\ hashes' = [hashes EXCEPT ![r] = TestHashes]
  /\ \E reuse \in BOOLEAN : \E covering \in [Fps -> SUBSET Tests] :
       LET stored == IF reuse THEN file ELSE Empty
           Reused(fp) == ReusedKillers(stored[fp], MutantKeys[fp], TestHashes, covering[fp])
       IN  \E first \in [Fps -> SUBSET Tests] :
             /\ \A fp \in Fps : IF Reused(fp) = {} THEN first[fp] = {}
                                ELSE \E t \in Reused(fp) : first[fp] = {t}
             /\ results' = [results EXCEPT ![r] = [fp \in Fps |->
                  IF fp \notin scope[r] THEN NoResult
                  ELSE IF covering[fp] = {} THEN [status |-> "not_covered", tests |-> {}]
                  ELSE IF first[fp] # {} THEN [status |-> "cached", tests |-> first[fp]]
                  ELSE [status |-> "pending", tests |-> covering[fp]]]]
  /\ pc' = [pc EXCEPT ![r] = "judge"]
  /\ UNCHANGED <<diskVars, file, scope, binary, merged, observed, unkilled>>

\* The mutants run, are confirmed and have their verdicts.  A kill need not
\* name a test: the binary may crash outside any.
Judge(r) ==
  /\ pc[r] = "judge"
  /\ \E new \in [Fps -> [status : Statuses, tests : SUBSET Tests]] :
       LET Killed == {fp \in scope[r] : new[fp].status = "killed"}
       IN  /\ \A fp \in Fps :
                IF results[r][fp].status = "pending"
                  THEN /\ new[fp].status \in Fresh
                       /\ new[fp].tests \subseteq IF new[fp].status = "killed"
                                                    THEN results[r][fp].tests ELSE {}
                  ELSE new[fp] = results[r][fp]
           /\ results' = [results EXCEPT ![r] = new]
           /\ observed' = observed \cup
                UNION {{<<fp, binary[r].code[DeclOf[fp]], t, binary[r].test[t]>> : t \in new[fp].tests} :
                         fp \in Killed}
  /\ pc' = [pc EXCEPT ![r] = "update"]
  /\ UNCHANGED <<diskVars, file, scope, binary, planVars, merged, unkilled>>

\* Mutant: survivors keep the entry of an older kill.
UpdatedKills(r) ==
  {fp \in scope[r] : keys[r][fp] # NoHash /\ results[r][fp].status = "killed"}

\* killUpdates: the mutants whose entries a run replaces, and their new entries.
Updated(r) ==
  {fp \in scope[r] : keys[r][fp] # NoHash /\ results[r][fp].status # "cached"}

NewEntry(r, fp) ==
  LET killers == {<<t, hashes[r][t]>> : t \in {u \in Tests :
                     /\ results[r][fp].status = "killed"
                     /\ u \in results[r][fp].tests
                     /\ hashes[r][u] # NoHash}}
  IN  IF killers = {} THEN NoEntry ELSE [key |-> keys[r][fp], killers |-> killers]

\* update reads the file ...
LoadUpdate(r) ==
  /\ pc[r] = "update"
  /\ IF Updated(r) = {}
       THEN Quit(r)
       ELSE /\ merged' = [merged EXCEPT ![r] = file]
            /\ pc' = [pc EXCEPT ![r] = "write"]
            /\ UNCHANGED <<scope, binary, planVars, results>>
  /\ UNCHANGED <<diskVars, file, observed, unkilled>>

\* For the history: the mutants the run gave one of these verdicts, by key.
Judged(r, S) == {<<fp, keys[r][fp]>> : fp \in {f \in scope[r] : results[r][f].status \in S}}

\* ... and renames a new one over it, or gives up.
Write(r) ==
  /\ pc[r] = "write"
  /\ \/ /\ file' = [fp \in Fps |-> IF fp \in Updated(r) THEN NewEntry(r, fp) ELSE merged[r][fp]]
        /\ unkilled' = (unkilled \ Judged(r, {"killed"})) \cup Judged(r, {"survived", "timeout"})
     \/ UNCHANGED <<file, unkilled>>
  /\ Quit(r)
  /\ UNCHANGED <<diskVars, observed>>

Next ==
  \/ Edit
  \/ \E r \in Runs :
       Load(r) \/ Compile(r) \/ Fail(r) \/ Plan(r) \/ Judge(r) \/ LoadUpdate(r) \/ Write(r)

Spec == Init /\ [][Next]_vars

-----------------------------------------------------------------------------
\* "A kill is reused when the mutant's key and its killing test's source are
\* unchanged": a kill is reused only if some run saw that very test kill that
\* very mutant, as both are in the binaries of the run that reuses it.
CachedKillsObserved ==
  \A r \in Runs : \A fp \in Fps : results[r][fp].status = "cached" =>
    \A t \in results[r][fp].tests :
      <<fp, binary[r].code[DeclOf[fp]], t, binary[r].test[t]>> \in observed

\* "Survivors and timeouts are never reused, so a new test is always tried
\* against them": once a verdict that is not a kill has been stored, no run
\* reuses an older kill of that mutant on the same code.
SurvivorsRetested ==
  \A r \in Runs : \A fp \in Fps :
    results[r][fp].status = "cached" => <<fp, keys[r][fp]>> \notin unkilled
=============================================================================
