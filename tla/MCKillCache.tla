---------------------------- MODULE MCKillCache -----------------------------
EXTENDS KillCache, TLC

CONSTANTS r1, f1, f2, t1, v1, v2

OneRun == {r1}
OneTest == {t1}
OneVersion == {v1}
TwoVersions == {v1, v2}
TwoFps == {f1, f2}

\* The mutants lie in one declaration.
OneDecl == {"decl"}
SameDecl == [fp \in Fps |-> "decl"]

Alike == Permutations(Fps)
=============================================================================
