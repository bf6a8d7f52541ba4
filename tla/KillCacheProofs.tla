-------------------------- MODULE KillCacheProofs ---------------------------
(***************************************************************************)
(* Proofs about KillCache, for every number of concurrent runs, mutants,   *)
(* tests and versions, and with stores that may fail: as long as nobody    *)
(* edits the sources while a run sets up, a reused kill is a kill that was *)
(* seen on the very sources it is reused for.  And as long as runs do not  *)
(* overlap, a verdict that is not a kill ends the reuse of older kills.    *)
(***************************************************************************)
EXTENDS KillCache, TLAPS

\* Every kill in a cache file was seen.
Genuine(f) ==
  \A fp \in Fps : \A k \in f[fp].killers : <<fp, f[fp].key, k[1], k[2]>> \in observed

\* A run's hashes are those of the sources in its binary.
InStep(r) ==
  /\ pc[r] = "loaded" => binary[r].code = code
  /\ pc[r] = "compiled" => binary[r].code = code /\ binary[r].test = test
  /\ pc[r] \in {"judge", "update", "write"} =>
       /\ \A fp \in Fps : keys[r][fp] = binary[r].code[DeclOf[fp]]
       /\ hashes[r] = binary[r].test

\* A run has results, for the mutants in its scope, from its plan on; its kills,
\* fresh or reused, were seen on the sources in its binary.
KillsSeen(r) ==
  /\ \A fp \in Fps : results[r][fp].status # "out" => fp \in scope[r]
  /\ pc[r] \in {"idle", "loaded", "compiled"} =>
       \A fp \in Fps : results[r][fp].status = "out"
  /\ \A fp \in Fps : results[r][fp].status \in {"killed", "cached"} =>
       \A t \in results[r][fp].tests :
         <<fp, binary[r].code[DeclOf[fp]], t, binary[r].test[t]>> \in observed

\* The inductive invariant.
CacheInv ==
  /\ TypeOK
  /\ Genuine(file)
  /\ \A r \in Runs : InStep(r) /\ KillsSeen(r) /\ Genuine(merged[r])

LEMMA Typed ==
  /\ Empty \in Files
  /\ NoKeys \in [Fps -> Hashes]
  /\ NoSources \in Sources
  /\ NoResults \in [Fps -> [status : Statuses, tests : SUBSET Tests]]
BY DEF Empty, NoKeys, Files, NoEntry, Entries, NoSources, Sources, NoResults, NoResult, Statuses, Hashes

\* The entry that update stores for a mutant is one.
LEMMA NewEntryTyped ==
  ASSUME TypeOK, NEW r \in Runs, NEW fp \in Fps PROVE NewEntry(r, fp) \in Entries
<1> DEFINE killers == {<<t, hashes[r][t]>> : t \in {u \in Tests :
                          /\ results[r][fp].status = "killed"
                          /\ u \in results[r][fp].tests
                          /\ hashes[r][u] # NoHash}}
<1>1. NewEntry(r, fp) = IF killers = {} THEN NoEntry ELSE [key |-> keys[r][fp], killers |-> killers]
  BY DEF NewEntry
<1>2. killers \subseteq Tests \X Versions /\ keys[r][fp] \in Hashes
  BY DEF TypeOK, Hashes
<1> HIDE DEF killers
<1> QED BY <1>1, <1>2 DEF NoEntry, Entries, Hashes

\* Every step keeps the runs, the cache file and the sources well typed.
LEMMA CacheTypeStep == ASSUME TypeOK, [Next]_vars PROVE TypeOK'
<1> USE DEF planVars, diskVars
<1>q. ASSUME NEW r \in Runs, Quit(r), UNCHANGED <<diskVars, observed>>,
             file' \in Files, unkilled' \subseteq Fps \X Hashes
      PROVE  TypeOK'
  BY <1>q, Typed DEF TypeOK, Quit, NoSources, Sources
<1>1. CASE Edit
  BY <1>1, KillCacheAssumption DEF TypeOK, Edit, Hashes
<1>2. ASSUME NEW r \in Runs, Load(r) PROVE TypeOK'
  <2>1. binary' \in [Runs -> Sources]
    <3>1. binary \in [Runs -> Sources] /\ code \in [Decls -> Hashes]
      BY DEF TypeOK
    <3>2. [binary[r] EXCEPT !.code = code] \in Sources
      BY <3>1 DEF Sources
    <3>3. binary' = [binary EXCEPT ![r] = [binary[r] EXCEPT !.code = code]]
      BY <1>2 DEF Load
    <3> QED BY <3>1, <3>2, <3>3
  <2>2. scope' \in [Runs -> SUBSET Fps]
    BY <1>2 DEF TypeOK, Load
  <2>3. pc' \in [Runs -> {"idle", "loaded", "compiled", "judge", "update", "write"}]
    BY <1>2 DEF TypeOK, Load
  <2> QED BY <1>2, <2>1, <2>2, <2>3 DEF TypeOK, Load
<1>3. ASSUME NEW r \in Runs, Compile(r) PROVE TypeOK'
  <2>1. binary' \in [Runs -> Sources]
    <3>1. binary \in [Runs -> Sources] /\ test \in [Tests -> Hashes]
      BY DEF TypeOK
    <3>2. [binary[r] EXCEPT !.test = test] \in Sources
      BY <3>1 DEF Sources
    <3>3. binary' = [binary EXCEPT ![r] = [binary[r] EXCEPT !.test = test]]
      BY <1>3 DEF Compile
    <3> QED BY <3>1, <3>2, <3>3
  <2>2. pc' \in [Runs -> {"idle", "loaded", "compiled", "judge", "update", "write"}]
    BY <1>3 DEF TypeOK, Compile
  <2> QED BY <1>3, <2>1, <2>2 DEF TypeOK, Compile
<1>4. ASSUME NEW r \in Runs, Fail(r) PROVE TypeOK'
  BY <1>4, <1>q DEF Fail, TypeOK
<1>5. ASSUME NEW r \in Runs, Plan(r) PROVE TypeOK'
  <2>1. PICK covering \in [Fps -> SUBSET Tests], first \in [Fps -> SUBSET Tests] :
          results' = [results EXCEPT ![r] = [fp \in Fps |->
            IF fp \notin scope[r] THEN NoResult
            ELSE IF covering[fp] = {} THEN [status |-> "not_covered", tests |-> {}]
            ELSE IF first[fp] # {} THEN [status |-> "cached", tests |-> first[fp]]
            ELSE [status |-> "pending", tests |-> covering[fp]]]]
    BY <1>5 DEF Plan
  <2> DEFINE new == [fp \in Fps |->
               IF fp \notin scope[r] THEN NoResult
               ELSE IF covering[fp] = {} THEN [status |-> "not_covered", tests |-> {}]
               ELSE IF first[fp] # {} THEN [status |-> "cached", tests |-> first[fp]]
               ELSE [status |-> "pending", tests |-> covering[fp]]]
  <2>2. results' = [results EXCEPT ![r] = new]
    BY <2>1
  <2>3. new \in [Fps -> [status : Statuses, tests : SUBSET Tests]]
    BY DEF NoResult, Statuses
  <2> HIDE DEF new
  <2> QED BY <1>5, <2>2, <2>3, KillCacheAssumption DEF TypeOK, Plan, MutantKeys, TestHashes
<1>6. ASSUME NEW r \in Runs, Judge(r) PROVE TypeOK'
  <2>1. PICK new \in [Fps -> [status : Statuses, tests : SUBSET Tests]] :
          /\ results' = [results EXCEPT ![r] = new]
          /\ observed' = observed \cup
               UNION {{<<fp, binary[r].code[DeclOf[fp]], t, binary[r].test[t]>> : t \in new[fp].tests} :
                        fp \in {f \in scope[r] : new[f].status = "killed"}}
    BY <1>6 DEF Judge
  <2>2. ASSUME NEW fp \in scope[r], NEW t \in new[fp].tests
        PROVE  <<fp, binary[r].code[DeclOf[fp]], t, binary[r].test[t]>> \in Fps \X Hashes \X Tests \X Hashes
    BY KillCacheAssumption DEF TypeOK, Sources
  <2>3. observed' \subseteq Fps \X Hashes \X Tests \X Hashes
    BY <2>1, <2>2 DEF TypeOK
  <2> QED BY <1>6, <2>1, <2>3 DEF TypeOK, Judge
<1>7. ASSUME NEW r \in Runs, LoadUpdate(r) PROVE TypeOK'
  <2>1. CASE Quit(r)
    BY <1>7, <2>1, <1>q DEF LoadUpdate, TypeOK
  <2>2. CASE ~Quit(r)
    BY <1>7, <2>2 DEF LoadUpdate, TypeOK
  <2> QED BY <2>1, <2>2
<1>8. ASSUME NEW r \in Runs, Write(r) PROVE TypeOK'
  <2>1. file' \in Files
    <3>1. merged[r] \in Files /\ file \in Files /\ \A fp \in Fps : NewEntry(r, fp) \in Entries
      BY NewEntryTyped DEF TypeOK
    <3>2. CASE file' = [fp \in Fps |-> IF fp \in Updated(r) THEN NewEntry(r, fp) ELSE merged[r][fp]]
      BY <3>1, <3>2 DEF Files
    <3> QED BY <1>8, <3>1, <3>2 DEF Write
  <2>2. unkilled' \subseteq Fps \X Hashes
    <3>1. Judged(r, {"survived", "timeout"}) \subseteq Fps \X Hashes
      BY DEF TypeOK, Judged
    <3> QED BY <1>8, <3>1 DEF Write, TypeOK
  <2> QED BY <1>8, <1>q, <2>1, <2>2 DEF Write
<1>9. CASE UNCHANGED vars
  BY <1>9 DEF TypeOK, vars
<1> QED BY <1>1, <1>2, <1>3, <1>4, <1>5, <1>6, <1>7, <1>8, <1>9 DEF Next

\* A run that ends keeps the invariant, whatever else the step does to the file.
LEMMA QuitInv ==
  ASSUME CacheInv, NEW r \in Runs, Quit(r), UNCHANGED <<diskVars, observed>>,
         file' \in Files, unkilled' \subseteq Fps \X Hashes, Genuine(file)'
  PROVE  CacheInv'
<1>1. TypeOK'
  BY Typed DEF CacheInv, TypeOK, Quit, diskVars, NoSources, Sources
<1>2. Genuine(Empty)'
  BY DEF Genuine, Empty, NoEntry
<1>3. ASSUME NEW q \in Runs PROVE (InStep(q) /\ KillsSeen(q) /\ Genuine(merged[q]))'
  <2>1. CASE q = r
    <3>1. InStep(q)'
      BY <2>1 DEF CacheInv, TypeOK, Quit, InStep
    <3>2. KillsSeen(q)'
      BY <2>1 DEF CacheInv, TypeOK, Quit, KillsSeen, NoResults, NoResult
    <3>3. Genuine(merged[q])'
      BY <1>2, <2>1 DEF CacheInv, TypeOK, Quit
    <3> QED BY <3>1, <3>2, <3>3
  <2>2. CASE q # r
    <3>1. InStep(q)'
      BY <2>2 DEF CacheInv, TypeOK, Quit, InStep, diskVars
    <3>2. KillsSeen(q)'
      BY <2>2 DEF CacheInv, TypeOK, Quit, KillsSeen
    <3>3. Genuine(merged[q])'
      BY <2>2 DEF CacheInv, TypeOK, Quit, Genuine
    <3> QED BY <3>1, <3>2, <3>3
  <2> QED BY <2>1, <2>2
<1> QED BY <1>1, <1>3 DEF CacheInv

LEMMA CacheInitInv == Init => CacheInv
<1> SUFFICES ASSUME Init PROVE CacheInv
  OBVIOUS
<1>1. TypeOK
  BY Typed, KillCacheAssumption DEF Init, TypeOK, Hashes, Sources
<1>2. Genuine(Empty)
  BY DEF Genuine, Empty, NoEntry
<1>3. ASSUME NEW r \in Runs PROVE InStep(r) /\ KillsSeen(r) /\ Genuine(merged[r])
  BY <1>2 DEF Init, InStep, KillsSeen, NoResults, NoResult
<1> QED BY <1>1, <1>2, <1>3 DEF Init, CacheInv

LEMMA EditInv == ASSUME ~EditAnytime, CacheInv, Edit PROVE CacheInv'
<1>1. TypeOK'
  BY CacheTypeStep DEF CacheInv, Next
<1>2. Genuine(file)' /\ \A r \in Runs : Genuine(merged[r])'
  BY DEF CacheInv, Genuine, Edit
<1>3. ASSUME NEW r \in Runs PROVE InStep(r)' /\ KillsSeen(r)'
  <2>1. pc[r] \notin {"loaded", "compiled"} /\ UNCHANGED <<pc, scope, binary, keys, hashes, results, observed>>
    BY DEF Edit, planVars
  <2>2. InStep(r)'
    BY <2>1 DEF CacheInv, InStep
  <2>3. KillsSeen(r)'
    BY <2>1 DEF CacheInv, KillsSeen
  <2> QED BY <2>2, <2>3
<1> QED BY <1>1, <1>2, <1>3 DEF CacheInv

LEMMA LoadInv == ASSUME CacheInv, NEW r \in Runs, Load(r) PROVE CacheInv'
<1>1. TypeOK'
  BY CacheTypeStep DEF CacheInv, Next
<1>2. Genuine(file)' /\ \A q \in Runs : Genuine(merged[q])'
  BY DEF CacheInv, Genuine, Load
<1>3. ASSUME NEW q \in Runs PROVE InStep(q)' /\ KillsSeen(q)'
  <2>1. CASE q = r
    BY <2>1 DEF CacheInv, TypeOK, Sources, InStep, KillsSeen, Load, planVars, diskVars
  <2>2. CASE q # r
    BY <2>2 DEF CacheInv, TypeOK, InStep, KillsSeen, Load, planVars, diskVars
  <2> QED BY <2>1, <2>2
<1> QED BY <1>1, <1>2, <1>3 DEF CacheInv

LEMMA CompileInv == ASSUME CacheInv, NEW r \in Runs, Compile(r) PROVE CacheInv'
<1>1. TypeOK'
  BY CacheTypeStep DEF CacheInv, Next
<1>2. Genuine(file)' /\ \A q \in Runs : Genuine(merged[q])'
  BY DEF CacheInv, Genuine, Compile
<1>3. ASSUME NEW q \in Runs PROVE InStep(q)' /\ KillsSeen(q)'
  <2>1. CASE q = r
    BY <2>1 DEF CacheInv, TypeOK, Sources, InStep, KillsSeen, Compile, planVars, diskVars
  <2>2. CASE q # r
    BY <2>2 DEF CacheInv, TypeOK, InStep, KillsSeen, Compile, planVars, diskVars
  <2> QED BY <2>1, <2>2
<1> QED BY <1>1, <1>2, <1>3 DEF CacheInv

LEMMA FailInv == ASSUME CacheInv, NEW r \in Runs, Fail(r) PROVE CacheInv'
<1>1. file' \in Files /\ unkilled' \subseteq Fps \X Hashes /\ Genuine(file)'
  BY DEF Fail, CacheInv, TypeOK, Genuine
<1> QED BY <1>1, QuitInv DEF Fail

\* What Plan reuses was seen on the sources it reads.
LEMMA ReusedSeen ==
  ASSUME NEW f, Genuine(f), NEW fp \in Fps, NEW covering, NEW testHash,
         NEW key, NEW t \in ReusedKillers(f[fp], key, testHash, covering)
  PROVE  <<fp, key, t, testHash[t]>> \in observed
<1>1. f[fp].key = key /\ <<t, testHash[t]>> \in f[fp].killers
  BY DEF ReusedKillers
<1> QED BY <1>1 DEF Genuine

LEMMA PlanInv == ASSUME CacheInv, NEW r \in Runs, Plan(r) PROVE CacheInv'
<1>1. PICK reuse \in BOOLEAN, covering \in [Fps -> SUBSET Tests], first \in [Fps -> SUBSET Tests] :
        LET stored == IF reuse THEN file ELSE Empty
            Reused(fp) == ReusedKillers(stored[fp], MutantKeys[fp], TestHashes, covering[fp])
        IN  /\ \A fp \in Fps : IF Reused(fp) = {} THEN first[fp] = {}
                               ELSE \E t \in Reused(fp) : first[fp] = {t}
            /\ results' = [results EXCEPT ![r] = [fp \in Fps |->
                 IF fp \notin scope[r] THEN NoResult
                 ELSE IF covering[fp] = {} THEN [status |-> "not_covered", tests |-> {}]
                 ELSE IF first[fp] # {} THEN [status |-> "cached", tests |-> first[fp]]
                 ELSE [status |-> "pending", tests |-> covering[fp]]]]
  BY DEF Plan
<1> DEFINE stored == IF reuse THEN file ELSE Empty
<1>2. Genuine(stored)
  BY DEF CacheInv, Genuine, Empty, NoEntry
<1>3. ASSUME NEW fp \in Fps, NEW t \in first[fp] PROVE <<fp, code[DeclOf[fp]], t, test[t]>> \in observed
  <2>1. t \in ReusedKillers(stored[fp], MutantKeys[fp], TestHashes, covering[fp])
    BY <1>1, <1>3
  <2>2. MutantKeys[fp] = code[DeclOf[fp]] /\ TestHashes = test
    BY DEF MutantKeys, TestHashes
  <2> QED BY <1>2, <2>1, <2>2, ReusedSeen
<1> HIDE DEF stored
<1> DEFINE new == [fp \in Fps |->
                 IF fp \notin scope[r] THEN NoResult
                 ELSE IF covering[fp] = {} THEN [status |-> "not_covered", tests |-> {}]
                 ELSE IF first[fp] # {} THEN [status |-> "cached", tests |-> first[fp]]
                 ELSE [status |-> "pending", tests |-> covering[fp]]]
<1>4. results' = [results EXCEPT ![r] = new]
  BY <1>1
<1>6. ASSUME NEW fp \in Fps
      PROVE  /\ new[fp].status \in {"killed", "cached"} => new[fp].tests = first[fp]
             /\ new[fp].status # "out" => fp \in scope[r]
  BY DEF NoResult
<1> HIDE DEF new
<1>7. TypeOK'
  BY CacheTypeStep DEF CacheInv, Next
<1>8. Genuine(file)' /\ \A q \in Runs : Genuine(merged[q])'
  BY DEF CacheInv, Genuine, Plan, MutantKeys, TestHashes
<1>9. ASSUME NEW q \in Runs PROVE InStep(q)' /\ KillsSeen(q)'
  <2>1. CASE q = r
    <3>1. binary[r].code = code /\ binary[r].test = test /\ UNCHANGED <<binary, scope, observed>>
      BY DEF CacheInv, InStep, Plan, MutantKeys, TestHashes
    <3>2. pc'[r] = "judge" /\ keys'[r] = [fp \in Fps |-> code[DeclOf[fp]]] /\ hashes'[r] = test /\ results'[r] = new
      BY <1>4 DEF CacheInv, TypeOK, Plan, MutantKeys, TestHashes
    <3>3. InStep(r)'
      BY <3>1, <3>2 DEF InStep
    <3>4. KillsSeen(r)'
      BY <1>3, <1>6, <3>1, <3>2 DEF KillsSeen
    <3> QED BY <2>1, <3>3, <3>4
  <2>2. CASE q # r
    <3>1. /\ pc'[q] = pc[q] /\ keys'[q] = keys[q] /\ hashes'[q] = hashes[q]
          /\ results'[q] = results[q]
          /\ UNCHANGED <<code, test, scope, binary, observed>>
      BY <1>4, <2>2 DEF CacheInv, TypeOK, Plan, MutantKeys, TestHashes, diskVars
    <3>2. InStep(q)'
      BY <3>1 DEF CacheInv, InStep
    <3>3. KillsSeen(q)'
      BY <3>1 DEF CacheInv, KillsSeen
    <3> QED BY <3>2, <3>3
  <2> QED BY <2>1, <2>2
<1> QED BY <1>7, <1>8, <1>9 DEF CacheInv

LEMMA JudgeInv == ASSUME CacheInv, NEW r \in Runs, Judge(r) PROVE CacheInv'
<1>1. PICK new \in [Fps -> [status : Statuses, tests : SUBSET Tests]] :
        LET Killed == {fp \in scope[r] : new[fp].status = "killed"}
        IN  /\ \A fp \in Fps :
                 IF results[r][fp].status = "pending"
                   THEN /\ new[fp].status \in Fresh
                        /\ new[fp].tests \subseteq IF new[fp].status = "killed"
                                                     THEN results[r][fp].tests ELSE {}
                   ELSE new[fp] = results[r][fp]
            /\ results' = [results EXCEPT ![r] = new]
            /\ observed' = observed \cup
                 UNION {{<<fp, binary[r].code[DeclOf[fp]], t, binary[r].test[t]>> : t \in new[fp].tests} :
                          fp \in Killed}
  BY DEF Judge
<1> DEFINE Killed == {fp \in scope[r] : new[fp].status = "killed"}
<1>2. observed \subseteq observed'
  BY <1>1
<1>5. TypeOK'
  BY CacheTypeStep DEF CacheInv, Next
<1>6. Genuine(file)' /\ \A q \in Runs : Genuine(merged[q])'
  BY <1>2 DEF CacheInv, Genuine, Judge
<1>7. ASSUME NEW q \in Runs PROVE InStep(q)'
  BY DEF CacheInv, TypeOK, InStep, Judge, diskVars, planVars
<1>8. ASSUME NEW q \in Runs PROVE KillsSeen(q)'
  <2>1. CASE q # r
    BY <1>1, <1>2, <2>1 DEF CacheInv, TypeOK, KillsSeen, Judge
  <2>2. CASE q = r
    <3>1. results'[r] = new /\ pc'[r] = "update" /\ UNCHANGED <<binary, scope>>
      BY <1>1 DEF CacheInv, TypeOK, Judge
    <3>2. ASSUME NEW fp \in Fps, new[fp].status \in {"killed", "cached"}, NEW t \in new[fp].tests
          PROVE  <<fp, binary[r].code[DeclOf[fp]], t, binary[r].test[t]>> \in observed'
      <4>1. CASE new[fp] = results[r][fp]
        BY <1>2, <3>2, <4>1 DEF CacheInv, KillsSeen
      <4>2. CASE fp \in Killed
        BY <1>1, <3>2, <4>2
      <4>3. CASE results[r][fp].status = "pending"
        <5>1. fp \in scope[r]
          BY <4>3 DEF CacheInv, KillsSeen
        <5>2. new[fp].status = "killed"
          BY <1>1, <3>2, <4>3 DEF Fresh
        <5> QED BY <4>2, <5>1, <5>2
      <4> QED BY <1>1, <4>1, <4>3
    <3>3. ASSUME NEW fp \in Fps, new[fp].status # "out" PROVE fp \in scope[r]
      <4>1. results[r][fp].status # "out"
        BY <1>1, <3>3
      <4> QED BY <4>1 DEF CacheInv, KillsSeen
    <3> QED BY <2>2, <3>1, <3>2, <3>3 DEF KillsSeen
  <2> QED BY <2>1, <2>2
<1> QED BY <1>5, <1>6, <1>7, <1>8 DEF CacheInv

\* The entry that update stores for a mutant: its kills, as hashed.
LEMMA NewEntrySeen ==
  ASSUME CacheInv, NEW r \in Runs, pc[r] = "write", NEW fp \in Fps
  PROVE  \A k \in NewEntry(r, fp).killers :
           <<fp, NewEntry(r, fp).key, k[1], k[2]>> \in observed
<1> DEFINE named == {u \in Tests : /\ results[r][fp].status = "killed"
                                   /\ u \in results[r][fp].tests
                                   /\ hashes[r][u] # NoHash}
<1> DEFINE killers == {<<t, hashes[r][t]>> : t \in named}
<1>1. NewEntry(r, fp) = IF killers = {} THEN NoEntry ELSE [key |-> keys[r][fp], killers |-> killers]
  BY DEF NewEntry
<1>4. ASSUME NEW k \in killers PROVE <<fp, keys[r][fp], k[1], k[2]>> \in observed
  <2>1. PICK t \in named : k = <<t, hashes[r][t]>>
    OBVIOUS
  <2>2. <<fp, binary[r].code[DeclOf[fp]], t, binary[r].test[t]>> \in observed
    BY DEF CacheInv, KillsSeen
  <2>3. keys[r][fp] = binary[r].code[DeclOf[fp]] /\ hashes[r] = binary[r].test
    BY DEF CacheInv, InStep
  <2> QED BY <2>1, <2>2, <2>3
<1> HIDE DEF killers
<1>5. CASE killers = {}
  BY <1>1, <1>5 DEF NoEntry
<1>6. CASE killers # {}
  <2>1. NewEntry(r, fp) = [key |-> keys[r][fp], killers |-> killers]
    BY <1>1, <1>6
  <2> QED BY <1>4, <2>1
<1> QED BY <1>5, <1>6

LEMMA LoadUpdateInv == ASSUME CacheInv, NEW r \in Runs, LoadUpdate(r) PROVE CacheInv'
<1>1. CASE Quit(r)
  <2>1. file' \in Files /\ unkilled' \subseteq Fps \X Hashes /\ Genuine(file)'
    BY DEF LoadUpdate, CacheInv, TypeOK, Genuine
  <2> QED BY <1>1, <2>1, QuitInv DEF LoadUpdate
<1>2. CASE /\ merged' = [merged EXCEPT ![r] = file]
           /\ pc' = [pc EXCEPT ![r] = "write"]
           /\ UNCHANGED <<scope, binary, planVars, results>>
  <2>1. TypeOK'
    BY <1>2 DEF CacheInv, TypeOK, LoadUpdate, planVars, diskVars
  <2>2. Genuine(file)'
    BY DEF CacheInv, Genuine, LoadUpdate
  <2>3. ASSUME NEW q \in Runs PROVE Genuine(merged[q])'
    <3>1. merged'[q] = merged[q] \/ merged'[q] = file
      BY <1>2 DEF CacheInv, TypeOK
    <3> QED BY <3>1 DEF CacheInv, Genuine, LoadUpdate
  <2>4. ASSUME NEW q \in Runs PROVE InStep(q)' /\ KillsSeen(q)'
    BY <1>2 DEF CacheInv, TypeOK, InStep, KillsSeen, LoadUpdate, planVars, diskVars
  <2> QED BY <2>1, <2>2, <2>3, <2>4 DEF CacheInv
<1> QED BY <1>1, <1>2 DEF LoadUpdate

LEMMA WriteInv == ASSUME CacheInv, NEW r \in Runs, Write(r) PROVE CacheInv'
<1>1. CASE UNCHANGED <<file, unkilled>>
  <2>1. file' \in Files /\ unkilled' \subseteq Fps \X Hashes /\ Genuine(file)'
    BY <1>1 DEF Write, CacheInv, TypeOK, Genuine
  <2> QED BY <2>1, QuitInv DEF Write
<1>2. CASE /\ file' = [fp \in Fps |-> IF fp \in Updated(r) THEN NewEntry(r, fp) ELSE merged[r][fp]]
           /\ unkilled' = (unkilled \ Judged(r, {"killed"})) \cup Judged(r, {"survived", "timeout"})
  <2>1. ASSUME NEW fp \in Fps
        PROVE  \A k \in file'[fp].killers : <<fp, file'[fp].key, k[1], k[2]>> \in observed
    <3>1. CASE fp \in Updated(r)
      <4>1. file'[fp] = NewEntry(r, fp)
        BY <1>2, <3>1
      <4> QED BY <4>1, NewEntrySeen DEF Write
    <3>2. CASE fp \notin Updated(r)
      <4>1. file'[fp] = merged[r][fp]
        BY <1>2, <3>2
      <4> QED BY <4>1 DEF CacheInv, TypeOK, Files, Genuine
    <3> QED BY <3>1, <3>2
  <2>2. file' \in Files /\ unkilled' \subseteq Fps \X Hashes
    BY CacheTypeStep DEF CacheInv, TypeOK, Next
  <2>3. Genuine(file)'
    BY <2>1 DEF Genuine, Write
  <2> QED BY <2>2, <2>3, QuitInv DEF Write
<1> QED BY <1>1, <1>2 DEF Write

LEMMA CacheStepInv == ASSUME ~EditAnytime, CacheInv, [Next]_vars PROVE CacheInv'
<1>1. CASE Edit
  BY <1>1, EditInv
<1>2. ASSUME NEW r \in Runs, Load(r) PROVE CacheInv'
  BY <1>2, LoadInv
<1>3. ASSUME NEW r \in Runs, Compile(r) PROVE CacheInv'
  BY <1>3, CompileInv
<1>4. ASSUME NEW r \in Runs, Plan(r) PROVE CacheInv'
  BY <1>4, PlanInv
<1>5. ASSUME NEW r \in Runs, Judge(r) PROVE CacheInv'
  BY <1>5, JudgeInv
<1>6. ASSUME NEW r \in Runs, LoadUpdate(r) PROVE CacheInv'
  BY <1>6, LoadUpdateInv
<1>7. ASSUME NEW r \in Runs, Write(r) PROVE CacheInv'
  BY <1>7, WriteInv
<1>8. ASSUME NEW r \in Runs, Fail(r) PROVE CacheInv'
  BY <1>8, FailInv
<1>9. CASE UNCHANGED vars
  BY <1>9 DEF CacheInv, TypeOK, Genuine, InStep, KillsSeen, vars, diskVars, planVars
<1> QED BY <1>1, <1>2, <1>3, <1>4, <1>5, <1>6, <1>7, <1>8, <1>9 DEF Next

\* Between edits that spare the set-up, a reused kill is a kill that some run
\* saw, of that mutant by that test, with the sources in the binaries of the
\* run that reuses it: whatever runs share the cache file, unlocked, and
\* whatever stores fail.
THEOREM CachedKillsObservedAlways ==
  ASSUME ~EditAnytime PROVE Spec => []CachedKillsObserved
<1>1. CacheInv => CachedKillsObserved
  BY DEF CacheInv, KillsSeen, CachedKillsObserved
<1>2. Init => CacheInv
  BY CacheInitInv
<1>3. CacheInv /\ [Next]_vars => CacheInv'
  BY CacheStepInv
<1> QED BY <1>1, <1>2, <1>3, PTL DEF Spec

-----------------------------------------------------------------------------
(* With one run at a time, survivors are retested.                         *)

\* No entry of the file holds a kill of a mutant that was since seen to survive
\* on the same code.
NoStaleKill ==
  \A fp \in Fps : file[fp].killers # {} =>
    file[fp].key # NoHash /\ <<fp, file[fp].key>> \notin unkilled

\* The inductive invariant: what update merges into is what the file still holds.
SerialInv ==
  /\ TypeOK
  /\ NoStaleKill
  /\ \A r \in Runs : pc[r] = "write" => merged[r] = file
  /\ SurvivorsRetested

\* kanly processes on the package do not overlap.
OneAtATime == \A q, r \in Runs : q = r

\* A run that ends leaves no verdict behind that could be stale.
LEMMA QuitSerial ==
  ASSUME TypeOK, OneAtATime, NEW r \in Runs, Quit(r)
  PROVE  /\ \A q \in Runs : pc'[q] = "idle"
         /\ SurvivorsRetested'
<1>1. pc'[r] = "idle" /\ results'[r] = NoResults
  BY DEF TypeOK, Quit
<1>2. \A fp \in Fps : results'[r][fp].status # "cached"
  BY <1>1 DEF NoResults, NoResult
<1> QED BY <1>1, <1>2 DEF OneAtATime, SurvivorsRetested

\* Plan reuses only kills the file holds, under the key it reads.
LEMMA PlanSerial ==
  ASSUME SerialInv, OneAtATime, NEW r \in Runs, Plan(r)
  PROVE  SurvivorsRetested'
<1>1. PICK reuse \in BOOLEAN, covering \in [Fps -> SUBSET Tests], first \in [Fps -> SUBSET Tests] :
        LET stored == IF reuse THEN file ELSE Empty
            Reused(fp) == ReusedKillers(stored[fp], MutantKeys[fp], TestHashes, covering[fp])
        IN  /\ \A fp \in Fps : IF Reused(fp) = {} THEN first[fp] = {}
                               ELSE \E t \in Reused(fp) : first[fp] = {t}
            /\ results' = [results EXCEPT ![r] = [fp \in Fps |->
                 IF fp \notin scope[r] THEN NoResult
                 ELSE IF covering[fp] = {} THEN [status |-> "not_covered", tests |-> {}]
                 ELSE IF first[fp] # {} THEN [status |-> "cached", tests |-> first[fp]]
                 ELSE [status |-> "pending", tests |-> covering[fp]]]]
  BY DEF Plan
<1>2. keys'[r] = MutantKeys /\ unkilled' = unkilled
  BY DEF Plan, SerialInv, TypeOK
<1>3. ASSUME NEW fp \in Fps, first[fp] # {} PROVE <<fp, MutantKeys[fp]>> \notin unkilled
  <2>1. PICK t : t \in ReusedKillers((IF reuse THEN file ELSE Empty)[fp], MutantKeys[fp], TestHashes, covering[fp])
    BY <1>1, <1>3
  <2>2. reuse
    BY <2>1 DEF ReusedKillers, Empty, NoEntry
  <2>3. file[fp].key = MutantKeys[fp] /\ file[fp].killers # {}
    BY <2>1, <2>2 DEF ReusedKillers
  <2> QED BY <2>3 DEF SerialInv, NoStaleKill
<1>4. ASSUME NEW fp \in Fps, results'[r][fp].status = "cached" PROVE first[fp] # {}
  BY <1>1, <1>4 DEF SerialInv, TypeOK, NoResult
<1> QED BY <1>2, <1>3, <1>4 DEF OneAtATime, SurvivorsRetested

\* update replaces the entry of every mutant the run judged, so that no kill
\* outlives a newer verdict.
LEMMA WriteSerial ==
  ASSUME SerialInv, OneAtATime, NEW r \in Runs, Write(r)
  PROVE  NoStaleKill'
<1>1. CASE UNCHANGED <<file, unkilled>>
  BY <1>1 DEF SerialInv, NoStaleKill
<1>2. CASE /\ file' = [fp \in Fps |-> IF fp \in Updated(r) THEN NewEntry(r, fp) ELSE merged[r][fp]]
           /\ unkilled' = (unkilled \ Judged(r, {"killed"})) \cup Judged(r, {"survived", "timeout"})
  <2> SUFFICES ASSUME NEW fp \in Fps, file'[fp].killers # {}
               PROVE  file'[fp].key # NoHash /\ <<fp, file'[fp].key>> \notin unkilled'
    BY DEF NoStaleKill
  <2>1. \A key, S : <<fp, key>> \in Judged(r, S) <=>
                      fp \in scope[r] /\ results[r][fp].status \in S /\ key = keys[r][fp]
    BY DEF Judged
  <2>2. CASE fp \in Updated(r)
    <3>1. file'[fp] = NewEntry(r, fp) /\ fp \in scope[r] /\ keys[r][fp] # NoHash
      BY <1>2, <2>2 DEF Updated
    <3>2. file'[fp].key = keys[r][fp] /\ results[r][fp].status = "killed"
      BY <3>1 DEF NewEntry, NoEntry
    <3> QED BY <1>2, <2>1, <3>1, <3>2
  <2>3. CASE fp \notin Updated(r)
    <3>1. file'[fp] = file[fp]
      BY <1>2, <2>3 DEF SerialInv, Write
    <3>2. file[fp].key # NoHash /\ <<fp, file[fp].key>> \notin unkilled
      BY <3>1 DEF SerialInv, NoStaleKill
    <3>3. <<fp, file[fp].key>> \notin Judged(r, {"survived", "timeout"})
      BY <2>1, <2>3, <3>2 DEF Updated
    <3> QED BY <1>2, <3>1, <3>2, <3>3
  <2> QED BY <2>2, <2>3
<1> QED BY <1>1, <1>2 DEF Write

\* Every step of runs that do not overlap keeps the invariant.
LEMMA SerialStepInv == ASSUME OneAtATime, SerialInv, [Next]_vars PROVE SerialInv'
<1>0. TypeOK'
  BY CacheTypeStep DEF SerialInv
<1>1. ASSUME UNCHANGED <<file, unkilled>> PROVE NoStaleKill'
  BY <1>1 DEF SerialInv, NoStaleKill
<1>2. CASE Edit \/ UNCHANGED vars
  BY <1>0, <1>1, <1>2 DEF Edit, vars, planVars, SerialInv, SurvivorsRetested
<1>3. ASSUME NEW r \in Runs, Load(r) \/ Compile(r) PROVE SerialInv'
  <2>1. UNCHANGED <<file, keys, results, merged, unkilled>> /\ pc'[r] # "write"
    BY <1>3 DEF Load, Compile, planVars, SerialInv, TypeOK
  <2>2. SurvivorsRetested'
    BY <2>1 DEF SerialInv, SurvivorsRetested
  <2> QED BY <1>0, <1>1, <2>1, <2>2 DEF OneAtATime, SerialInv
<1>4. ASSUME NEW r \in Runs, Fail(r) PROVE SerialInv'
  BY <1>0, <1>1, <1>4, QuitSerial DEF Fail, SerialInv
<1>5. ASSUME NEW r \in Runs, Plan(r) PROVE SerialInv'
  <2>1. UNCHANGED <<file, merged, unkilled>> /\ pc'[r] # "write"
    BY <1>5 DEF Plan, SerialInv, TypeOK
  <2> QED BY <1>0, <1>1, <1>5, <2>1, PlanSerial DEF OneAtATime, SerialInv
<1>6. ASSUME NEW r \in Runs, Judge(r) PROVE SerialInv'
  <2>1. UNCHANGED <<file, keys, merged, unkilled>> /\ pc'[r] # "write"
    BY <1>6 DEF Judge, planVars, SerialInv, TypeOK
  <2>2. ASSUME NEW fp \in Fps, results'[r][fp].status = "cached" PROVE results[r][fp].status = "cached"
    BY <1>6, <2>2 DEF Judge, SerialInv, TypeOK, Fresh
  <2>3. SurvivorsRetested'
    BY <2>1, <2>2 DEF OneAtATime, SerialInv, SurvivorsRetested
  <2> QED BY <1>0, <1>1, <2>1, <2>3 DEF OneAtATime, SerialInv
<1>7. ASSUME NEW r \in Runs, LoadUpdate(r) PROVE SerialInv'
  <2>1. UNCHANGED <<file, unkilled>>
    BY <1>7 DEF LoadUpdate
  <2>2. CASE Quit(r)
    BY <1>0, <1>1, <2>1, <2>2, QuitSerial DEF SerialInv
  <2>3. CASE ~Quit(r)
    <3>1. merged'[r] = file /\ UNCHANGED <<keys, results>>
      BY <1>7, <2>3 DEF LoadUpdate, planVars, SerialInv, TypeOK
    <3>2. SurvivorsRetested'
      BY <2>1, <3>1 DEF SerialInv, SurvivorsRetested
    <3> QED BY <1>0, <1>1, <2>1, <3>1, <3>2 DEF OneAtATime, SerialInv
  <2> QED BY <2>2, <2>3
<1>8. ASSUME NEW r \in Runs, Write(r) PROVE SerialInv'
  <2>1. Quit(r)
    BY <1>8 DEF Write
  <2> QED BY <1>0, <1>8, <2>1, WriteSerial, QuitSerial DEF SerialInv
<1> QED BY <1>2, <1>3, <1>4, <1>5, <1>6, <1>7, <1>8 DEF Next

\* Survivors and timeouts are never reused: with one kanly process on a package
\* at a time, once update has stored a verdict that is not a kill, no older
\* kill of that mutant on the same code is reused, whatever the developer edits
\* meanwhile.
THEOREM SurvivorsRetestedAlways ==
  ASSUME OneAtATime PROVE Spec => []SurvivorsRetested
<1>1. Init => SerialInv
  <2> SUFFICES ASSUME Init PROVE SerialInv
    OBVIOUS
  <2>1. TypeOK
    BY CacheInitInv DEF CacheInv
  <2>2. NoStaleKill
    BY DEF Init, NoStaleKill, Empty, NoEntry
  <2>3. SurvivorsRetested
    BY DEF Init, SurvivorsRetested
  <2> QED BY <2>1, <2>2, <2>3 DEF Init, SerialInv
<1>2. SerialInv /\ [Next]_vars => SerialInv'
  BY SerialStepInv
<1>3. SerialInv => SurvivorsRetested
  BY DEF SerialInv
<1> QED BY <1>1, <1>2, <1>3, PTL DEF Spec

\* The runs, the cache file and the sources stay well typed, also when the
\* developer edits while a run sets up.
THEOREM CacheTypeAlways == Spec => []TypeOK
<1>1. Init => TypeOK
  BY CacheInitInv DEF CacheInv
<1>2. TypeOK /\ [Next]_vars => TypeOK'
  BY CacheTypeStep
<1> QED BY <1>1, <1>2, PTL DEF Spec
=============================================================================
