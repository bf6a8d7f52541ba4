---------------------------- MODULE MCDirGuard ------------------------------
EXTENDS DirGuard, Integers

\* 1 is testdata, 2 a directory or file in it, 3 one below that; 4 lies in the
\* package directory.
MCPaths == 1 .. 4
MCAbove == <<{}, {1}, {1, 2}, {}>>
TwoStamps == {1, 2}
=============================================================================
