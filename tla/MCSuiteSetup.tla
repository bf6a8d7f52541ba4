---------------------------- MODULE MCSuiteSetup ----------------------------
EXTENDS SuiteSetup, TLC

CONSTANTS r1, r2, t1, t2, t3, t4

TwoRuns == {r1, r2}

\* Enough tests for both rounds to exclude one, one to fail after them, and one
\* more.
FourTests == {t1, t2, t3, t4}

\* r1 is given --tests for one of the tests; r2 the same, or no --tests.
MCSelections == [r \in TwoRuns |-> IF r = r1 THEN {{t1}} ELSE {{t1}, FourTests}]

OneLine == {1}

\* A mutation of a statement, of a case on the line of its switch, and of a
\* package-level initializer.
MCMutants == {[line |-> 1, coverLine |-> 0, packageInit |-> FALSE],
              [line |-> 1, coverLine |-> 1, packageInit |-> FALSE],
              [line |-> 1, coverLine |-> 0, packageInit |-> TRUE]}

\* The tests that no --tests names.
Unnamed == Permutations(FourTests \ {t1})
=============================================================================
