---------------------------- MODULE MCPipelines -----------------------------
EXTENDS Pipelines

\* Package 1 has package 2's tests as a dependent; package 3 has a directory
\* of its own, and competes with them for the slots.
Dependent == <<<<1, 2>>, <<2>>, <<3>>>>

MCJobs == DOMAIN SuiteDir
MCDirs == 1 .. 3
MCDirsOf == [j \in MCJobs |-> {SuiteDir[j][s] : s \in DOMAIN SuiteDir[j]}]

\* Package 3 is the one with several tests and mutants.
Counts == [j \in MCJobs |-> IF j = 3 THEN 0 .. 2 ELSE 0 .. 1]

\* No package lies under another's testdata.
Flat == [d \in MCDirs |-> {d}]

\* Package 3 lies under the testdata of package 1.
Nested == [d \in MCDirs |-> IF d = 1 THEN {1, 3} ELSE {d}]
=============================================================================
