----------------------------- MODULE MCDirLocks -----------------------------
(***************************************************************************)
(* Four pipelines: three whose directory pairs overlap in a ring, so every *)
(* pair conflicts and an unordered lock would close a waiting cycle, and   *)
(* one that shares a single directory with two of them.                    *)
(***************************************************************************)
EXTENDS DirLocks

MCJobs == 1 .. 4
MCDirs == 1 .. 3
MCDirsOf == <<{1, 2}, {2, 3}, {1, 3}, {3}>>
=============================================================================
