---------------------------- MODULE DirExclusion ----------------------------
(***************************************************************************)
(* What the directory locks of a run promise (cmd/kanly/main.go, dirLocks  *)
(* and the pipeline goroutine of run): pipelines whose directory sets      *)
(* intersect never use them at the same time.  `using` is the set of       *)
(* pipelines between the return of locks.lock and the start of unlock.     *)
(***************************************************************************)
CONSTANTS Jobs,      \* the package pipelines of the run
          DirsOf     \* the directories each pipeline runs tests in

VARIABLE using

Conflict(j, k) == j # k /\ DirsOf[j] \cap DirsOf[k] # {}

Init == using = {}

\* A pipeline gets all its directories at once, when nobody uses one of them.
Enter(j) ==
  /\ j \notin using
  /\ \A k \in using : ~Conflict(j, k)
  /\ using' = using \cup {j}

Leave(j) ==
  /\ j \in using
  /\ using' = using \ {j}

Next == \E j \in Jobs : Enter(j) \/ Leave(j)

Spec == Init /\ [][Next]_using
=============================================================================
