-------------------------------- MODULE Diff --------------------------------
(***************************************************************************)
(* internal/diff: what `git diff --unified=0` prints for the changes of a  *)
(* working tree, and how ParseDiff reads it back into ranges of lines per  *)
(* file.  The text is a sequence of tokens, one per line ParseDiff looks   *)
(* at; of an added line only one thing matters, whether it starts with     *)
(* "++ " and so prints as a "+++ " header.                                 *)
(***************************************************************************)
EXTENDS Integers, Sequences, FiniteSets

CONSTANTS
  Files,     \* paths
  FileOrder, \* the order in which git lists them
  MaxLine,   \* bound on the lines of a file
  NoFile     \* currentFile = ""

Unbounded == MaxLine + 1  \* math.MaxInt

-----------------------------------------------------------------------------
(* git *)

\* The length of the run of changed lines that starts at line l.
RunLength(changed, f, l) ==
  Cardinality({n \in l..MaxLine : \A m \in l..n : <<f, m>> \in changed})

\* What git prints at line l of a file: one hunk header per run of new lines,
\* with its count left out when it is 1, then the lines it adds; and a header
\* of count 0 where lines were only removed.
AtLine(changed, cuts, looks, f, l) ==
  CASE <<f, l>> \in changed ->
         (IF <<f, l - 1>> \in changed THEN << >>
          ELSE LET n == RunLength(changed, f, l) IN
               <<[k |-> "@@", start |-> l, count |-> n, short |-> n = 1]>>)
         \o <<[k |-> "+", text |-> IF <<f, l>> \in DOMAIN looks THEN looks[<<f, l>>] ELSE NoFile]>>
    [] <<f, l>> \in cuts \ changed ->
         <<[k |-> "@@", start |-> l, count |-> 0, short |-> FALSE]>>
    [] OTHER -> << >>

HunksUpTo(changed, cuts, looks, f) ==
  LET upTo[l \in 0..MaxLine] ==
        IF l = 0 THEN << >> ELSE upTo[l - 1] \o AtLine(changed, cuts, looks, f, l)
  IN upTo
Hunks(changed, cuts, looks, f) == HunksUpTo(changed, cuts, looks, f)[MaxLine]

\* One file of the output: a deleted file is diffed against /dev/null.
FileDiff(changed, cuts, looks, gone, f) ==
  IF f \in gone
  THEN <<[k |-> "git"], [k |-> "+++", path |-> NoFile],
         [k |-> "@@", start |-> 0, count |-> 0, short |-> FALSE]>>
  ELSE LET h == Hunks(changed, cuts, looks, f) IN
       IF h = << >> THEN << >> ELSE <<[k |-> "git"], [k |-> "+++", path |-> f]>> \o h

DiffUpTo(changed, cuts, looks, gone) ==
  LET upTo[i \in 0..Len(FileOrder)] ==
        IF i = 0 THEN << >> ELSE upTo[i - 1] \o FileDiff(changed, cuts, looks, gone, FileOrder[i])
  IN upTo
GitDiff(changed, cuts, looks, gone) == DiffUpTo(changed, cuts, looks, gone)[Len(FileOrder)]

-----------------------------------------------------------------------------
(* ParseDiff *)

\* Mutant: a hunk header without a count is taken for a count of 0.
CountZero(t) == IF t.short THEN 0 ELSE t.count

\* The count of a hunk header: 1 when it is left out.
HunkCount(t) == IF t.short THEN 1 ELSE t.count

\* One line of the output.  An added line that starts with "++ " is taken for
\* a file header.
ParseLine(st, t) ==
  CASE t.k = "git" -> [st EXCEPT !.file = NoFile]
    [] t.k = "+++" -> [st EXCEPT !.file = t.path]
    [] t.k = "+"   -> IF t.text = NoFile THEN st ELSE [st EXCEPT !.file = t.text]
    [] t.k = "@@"  ->
         IF st.file = NoFile \/ HunkCount(t) = 0 THEN st
         ELSE [st EXCEPT !.byFile[st.file] = @ \cup {<<t.start, t.start + HunkCount(t) - 1>>}]

\* The state of the parser after each line of the output
ParseFrom(st, out) ==
  LET after[i \in 0..Len(out)] == IF i = 0 THEN st ELSE ParseLine(after[i - 1], out[i])
  IN after

ParseDiff(out) ==
  ParseFrom([file |-> NoFile, byFile |-> [f \in Files |-> {}]], out)[Len(out)].byFile

\* Compute: untracked files count as changed throughout.
Compute(out, untracked) ==
  [f \in Files |-> ParseDiff(out)[f] \cup (IF f \in untracked THEN {<<1, Unbounded>>} ELSE {})]

\* Diff.Includes and Diff.Files
Includes(d, f, l) == \E r \in d[f] : l >= r[1] /\ l <= r[2]
TouchedFiles(d) == {f \in Files : d[f] # {}}
=============================================================================
