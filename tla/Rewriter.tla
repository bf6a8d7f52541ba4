------------------------------ MODULE Rewriter ------------------------------
(***************************************************************************)
(* schema.RewriteWith (internal/schema/rewriter.go): one pass over a       *)
(* package that numbers every candidate mutation, fingerprints it and      *)
(* keeps the ones that are in scope and not suppressed, together with what *)
(* happens around the pass: the developer edits the package between runs,  *)
(* accepts reported mutants by listing their fingerprint in .kanlyignore   *)
(* and writes //kanly:ignore directives.                                   *)
(*                                                                         *)
(* A file is a sequence of lines.  A line knows the top-level function it  *)
(* lies in, its text, its indentation and its directive; what each         *)
(* operator finds on a text is the constant Finds.  SHA-256 cut to 48 bits *)
(* is taken to be injective: a fingerprint is the tuple that is hashed.    *)
(***************************************************************************)
EXTENDS Integers, Sequences, FiniteSets

CONSTANTS
  Files,        \* the files of the package, numbered in path order
  Generated,    \* the files ast.IsGenerated recognises
  Ops,          \* the registered operators, numbered in registry order
  Wrappers,     \* the operators that implement mutation.Wrapper
  DispatcherOf, \* DispatcherOf[op]: op.DispatcherKey()
  FileScope,    \* stands for "in no top-level function"
  Texts,        \* the texts a line of code can have, leading blanks cut off
  Cols, Vals,   \* columns, and the mutants an operator offers at one column
  Finds,        \* Finds[t][op]: the <<column, mutant>> pairs op finds on t
  Packages,     \* the packages a behaviour may start from
  NewLines,     \* the lines an edit may insert
  Scopes,       \* the Options a run may be given: [diff, exclude, funcs, ops]
  MaxEdits,     \* bound on the edits of a behaviour
  MaxAccepts    \* bound on the mutants accepted in .kanlyignore

Everywhere == {<<0, 0>>}   \* no --diff: every line is in scope
UnknownOp  == 0            \* a name that is no operator, in a directive
Comment    == "comment"    \* a line that holds only a comment
Doc        == "doc"        \* a line of a function's doc comment
Malformed  == <<>>         \* a .kanlyignore line that is not "fp reason"
FirstUid   == 100          \* lines inserted by edits are named from here on

\* A line, which a name (uid) follows through edits, and the function it is in.
Decls == [recv : STRING, type : STRING, name : STRING] \cup {FileScope}
Lines == [uid : Nat, decl : Decls, text : Texts \cup {Comment, Doc}, indent : {0, 1},
          dir : SUBSET SUBSET (Ops \cup {UnknownOp})]

ASSUME RewriterAssumption ==
  /\ IsFiniteSet(Files) /\ Files = 1 .. Cardinality(Files) /\ Generated \subseteq Files
  /\ \A S \in {Ops, Cols, Vals} : IsFiniteSet(S) /\ S \subseteq Nat
  /\ Packages \subseteq [Files -> Seq(Lines)] /\ NewLines \subseteq Lines

\* Every line of a package has a name of its own.
ASSUME UidsAssumption ==
  \A p \in Packages : \A f, g \in Files : \A i \in DOMAIN p[f], k \in DOMAIN p[g] :
    p[f][i].uid < FirstUid /\ (p[f][i].uid = p[g][k].uid => f = g /\ i = k)

VARIABLES
  pkg,         \* the package on disk: [Files -> Seq(Line)]
  ignoreFile,  \* .kanlyignore: a sequence of fingerprints
  judged,      \* history: what the developer saw when accepting a mutant
  edits,       \* number of edits made
  phase,       \* "idle", "files", "visit"
  opts,        \* Options of the run
  loaded,      \* the package the run works on
  accepted,    \* Options.Accepted
  file,        \* filePath of the outer loop
  todo,        \* candidates of the file that are still to be visited
  mutID,       \* mutID
  occurrences, \* occurrences: counts the bare fingerprints seen
  matched,     \* matched
  muts,        \* mutations
  ignored,     \* ignored
  outcome,     \* what RewriteWith returned: "none", "ok" or "error"
  stale        \* StaleAccepted

diskVars == <<pkg, ignoreFile, judged, edits>>
passVars == <<mutID, occurrences, matched, muts, ignored>>
vars == <<diskVars, phase, opts, loaded, accepted, file, todo, passVars, outcome, stale>>

-----------------------------------------------------------------------------
(* Names and selection *)

\* funcDeclName: a receiver T, T[K] or T[K, V] gives "(T).M", *T gives
\* "(*T).M"; a pointer to an instantiated type matches no case.
FuncDeclName(d) ==
  CASE d.recv \in {"ident", "index", "indexlist"} -> <<"val", d.type, d.name>>
    [] d.recv = "star" -> <<"ptr", d.type, d.name>>
    [] OTHER -> <<"func", "", d.name>>

\* enclosingFunc
FuncName(ln) == IF ln.decl = FileScope THEN <<"none", "", "">> ELSE FuncDeclName(ln.decl)

\* selector.MatchFunc: exact forms, "*T.M" and "T.M".
MatchFunc(entry, name) ==
  \/ entry = name
  \/ entry[1] = "star" /\ name = <<"ptr", entry[2], entry[3]>>
  \/ entry[1] = "dot" /\ name \in {<<"val", entry[2], entry[3]>>, <<"ptr", entry[2], entry[3]>>}

\* validateFuncSelectors against schema.FuncNames
FuncsKnown(p, funcs) ==
  \A e \in funcs : \E f \in Files : \E i \in DOMAIN p[f] :
    p[f][i].decl # FileScope /\ MatchFunc(e, FuncDeclName(p[f][i].decl))

\* composeFilter: diff, --exclude and function selectors
Filter(o, f, l, name) ==
  /\ o.diff = Everywhere \/ <<f, l>> \in o.diff
  /\ f \notin o.exclude
  /\ o.funcs = {} \/ \E e \in o.funcs : MatchFunc(e, name)

-----------------------------------------------------------------------------
(* //kanly:ignore *)

\* parseIgnoreDirective: no name means every operator.
DirectiveOps(names) == IF names = {} THEN Ops ELSE names

\* collectIgnores: a directive in a doc comment is for the function, one that
\* stands alone for the next line, one that trails code for its own line.
Reaches(p, f, i, l) ==
  CASE p[f][i].text = Doc     -> p[f][l].decl = p[f][i].decl
    [] p[f][i].text = Comment -> l = i + 1
    [] OTHER                  -> l = i

\* ignores.covers; several directives of one line add up.
Covers(p, f, op, l) ==
  \E i \in DOMAIN p[f] : \E names \in p[f][i].dir :
    Reaches(p, f, i, l) /\ op \in DirectiveOps(names)

\* collectIgnores fails on a name that is no operator.
DirectivesKnown(p, f) ==
  \A i \in DOMAIN p[f] : \A names \in p[f][i].dir : UnknownOp \notin names

-----------------------------------------------------------------------------
(* Candidates *)

\* Operator.Find on one file, and the order in which the loops visit what
\* the operators find: files by path, operators by registration, then by
\* position.
CandsOf(p, f) ==
  { c \in {f} \X Ops \X (1..Len(p[f])) \X Cols \X Vals :
      <<c[4], c[5]>> \in Finds[p[f][c[3]].text][c[2]] }

AllCands(p) == UNION { CandsOf(p, f) : f \in Files \ Generated }

Before(a, b) == \E i \in 1..5 : a[i] < b[i] /\ \A j \in 1..(i - 1) : a[j] = b[j]

\* Mutant: the column is taken as it is, indentation included.
BareUntrimmed(p, c) ==
  LET ln   == p[c[1]][c[3]]
      name == FuncName(ln)
  IN  << IF name[1] = "none" THEN <<"file", c[1]>> ELSE name,
         c[2], c[5], ln.text, ln.indent + c[4] >>

\* The fingerprint without its number.  The column of the candidate counts
\* the indentation, which fingerprint subtracts again.
Bare(p, c) ==
  LET ln   == p[c[1]][c[3]]
      name == FuncName(ln)
      raw  == ln.indent + c[4]
  IN  << IF name[1] = "none" THEN <<"file", c[1]>> ELSE name,
         c[2], c[5], ln.text, raw - ln.indent >>

Count(key) == IF key \in DOMAIN occurrences THEN occurrences[key] ELSE 0

-----------------------------------------------------------------------------
(* The run *)

Init ==
  /\ pkg \in Packages
  /\ ignoreFile = <<>> /\ judged = {} /\ edits = 0
  /\ phase = "idle" /\ opts \in Scopes /\ loaded = pkg /\ accepted = {}
  /\ file = 1 /\ todo = {}
  /\ mutID = 0 /\ occurrences = <<>> /\ matched = {} /\ muts = {} /\ ignored = 0
  /\ outcome = "none" /\ stale = {}

\* Every return of an error: the package gets no result.
Fail ==
  /\ phase' = "idle" /\ outcome' = "error"
  /\ muts' = {} /\ ignored' = 0 /\ stale' = {} /\ todo' = {}

\* ReadIgnoreFile: a line that is no fingerprint with a reason, or a
\* fingerprint listed twice, is an error.
IgnoreFileValid ==
  /\ \A i \in DOMAIN ignoreFile : ignoreFile[i] # Malformed
  /\ \A i, j \in DOMAIN ignoreFile : ignoreFile[i] = ignoreFile[j] => i = j

Listed == { ignoreFile[i] : i \in DOMAIN ignoreFile }

\* The head of runPackage: the selectors are checked, .kanlyignore is read
\* and RewriteWith begins.
Start(o) ==
  /\ phase = "idle"
  /\ opts' = o /\ loaded' = pkg /\ accepted' = Listed
  /\ file' = 1
  /\ mutID' = 0 /\ occurrences' = <<>> /\ matched' = {}
  /\ UNCHANGED diskVars
  /\ \/ /\ IgnoreFileValid /\ FuncsKnown(pkg, o.funcs)
        /\ phase' = "files" /\ outcome' = "none"
        /\ muts' = {} /\ ignored' = 0 /\ stale' = {} /\ todo' = {}
     \/ /\ ~(IgnoreFileValid /\ FuncsKnown(pkg, o.funcs))
        /\ Fail

\* One turn of the file loop up to the operators: generated files are
\* passed over, the directives are collected and the source is read.
OpenFile ==
  /\ phase = "files" /\ file \in Files
  /\ UNCHANGED <<diskVars, opts, loaded, accepted>>
  /\ \/ /\ file \in Generated
        /\ file' = file + 1
        /\ UNCHANGED <<phase, todo, passVars, outcome, stale>>
     \/ /\ file \notin Generated /\ DirectivesKnown(loaded, file)
        /\ phase' = "visit" /\ todo' = CandsOf(loaded, file)
        /\ UNCHANGED <<file, passVars, outcome, stale>>
     \/ /\ file \notin Generated      \* an unknown name, or ReadFile failed
        /\ Fail
        /\ UNCHANGED <<file, mutID, occurrences, matched>>

\* Mutant: only what passes the filter is numbered.
NumberInScope(inScope) == IF inScope THEN mutID + 1 ELSE mutID

\* mutID++, before any filter
Number(inScope) == mutID + 1

\* Mutant: fingerprints are compared for what passes the filter only.
MatchInScope(fp, inScope) == IF inScope THEN {fp} \cap accepted ELSE {}

\* The entry of Options.Accepted a candidate uses up, in scope or not
Match(fp, inScope) == {fp} \cap accepted

\* One candidate: numbered and fingerprinted first, then filtered, then
\* suppressed, then kept.
Visit(c) ==
  LET f == c[1]  op == c[2]  l == c[3]
      ln       == loaded[f][l]
      bare     == Bare(loaded, c)
      n        == Count(bare) + 1
      fp       == <<bare, n>>
      inScope  == /\ Filter(opts, f, l, FuncName(ln))
                  /\ op \in opts.ops
      suppress == fp \in accepted \/ Covers(loaded, f, op, l)
  IN  /\ phase = "visit" /\ c \in todo
      /\ \A d \in todo : ~Before(d, c)
      /\ todo' = todo \ {c}
      /\ mutID' = Number(inScope)
      /\ occurrences' = [k \in DOMAIN occurrences \cup {bare} |-> IF k = bare THEN n ELSE occurrences[k]]
      /\ matched' = matched \cup Match(fp, inScope)
      /\ ignored' = IF inScope /\ suppress THEN ignored + 1 ELSE ignored
      /\ muts' = IF inScope /\ ~suppress
                 THEN muts \cup {[id |-> mutID', cand |-> c, fn |-> FuncName(ln), fp |-> fp]}
                 ELSE muts
      /\ UNCHANGED <<diskVars, phase, opts, loaded, accepted, file, outcome, stale>>

\* Two dispatchers on one node compose only if all but one wrap it.
Clash(cands, f) ==
  \E c, d \in cands :
    /\ c[1] = f /\ d[1] = f /\ c[3] = d[3] /\ c[4] = d[4]
    /\ {c[2], d[2]} \cap Wrappers = {}
    /\ DispatcherOf[c[2]] # DispatcherOf[d[2]]

\* The rest of the turn: grouping by node and dispatcher, which fails on a
\* clash, the post-order rewrite, and formatting, which may fail.
CloseFile ==
  /\ phase = "visit" /\ todo = {}
  /\ UNCHANGED <<diskVars, opts, loaded, accepted>>
  /\ \/ /\ ~Clash({m.cand : m \in muts}, file)
        /\ phase' = "files" /\ file' = file + 1
        /\ UNCHANGED <<todo, passVars, outcome, stale>>
     \/ /\ Fail
        /\ UNCHANGED <<file, mutID, occurrences, matched>>

\* RenderDispatcher, which may fail, the stale entries and the result.
Finish ==
  /\ phase = "files" /\ file \notin Files
  /\ UNCHANGED <<diskVars, opts, loaded, accepted>>
  /\ \/ /\ phase' = "idle" /\ outcome' = "ok"
        /\ stale' = accepted \ matched
        /\ UNCHANGED <<file, todo, passVars>>
     \/ /\ Fail
        /\ UNCHANGED <<file, mutID, occurrences, matched>>

-----------------------------------------------------------------------------
(* Between runs *)

Idle == phase = "idle" /\ UNCHANGED <<phase, opts, loaded, accepted, file, todo, passVars, outcome, stale>>

Edited(p) == edits < MaxEdits /\ edits' = edits + 1 /\ pkg' = p /\ UNCHANGED <<ignoreFile, judged>>

\* An editor inserts, removes, rewrites or reindents a line.  uid names a
\* line through all edits that keep it.
Insert(f, i, ln) ==
  /\ Idle
  /\ Edited([pkg EXCEPT ![f] = SubSeq(pkg[f], 1, i) \o <<[ln EXCEPT !.uid = FirstUid + edits]>>
                               \o SubSeq(pkg[f], i + 1, Len(pkg[f]))])

Retype(f, i, t) ==
  /\ Idle /\ pkg[f][i].text \in Texts \ {t}
  /\ Edited([pkg EXCEPT ![f][i].text = t])

Reindent(f, i) == Idle /\ Edited([pkg EXCEPT ![f][i].indent = 1 - @])

\* A mutant that was reported is judged and listed with a reason.
Accept(m) ==
  /\ Idle /\ outcome = "ok" /\ m \in muts
  /\ Cardinality(judged) < MaxAccepts
  /\ ignoreFile' = Append(ignoreFile, m.fp)
  /\ judged' = judged \cup
       {[fp |-> m.fp, uid |-> loaded[m.cand[1]][m.cand[3]].uid,
         text |-> loaded[m.cand[1]][m.cand[3]].text, at |-> <<m.cand[2], m.cand[4], m.cand[5]>>]}
  /\ UNCHANGED <<pkg, edits>>

\* .kanlyignore is a file people edit and merge: a line goes wrong, is
\* repeated or is deleted.
Spoil(line) ==
  /\ Idle /\ IgnoreFileValid
  /\ ignoreFile' = Append(ignoreFile, line)
  /\ UNCHANGED <<pkg, judged, edits>>

Prune(i) ==
  /\ Idle
  /\ ignoreFile' = SubSeq(ignoreFile, 1, i - 1) \o SubSeq(ignoreFile, i + 1, Len(ignoreFile))
  /\ UNCHANGED <<pkg, judged, edits>>

Next ==
  \/ \E o \in Scopes : Start(o)
  \/ OpenFile
  \/ \E c \in todo : Visit(c)
  \/ CloseFile
  \/ Finish
  \/ \E f \in Files : \E i \in 0..Len(pkg[f]), ln \in NewLines : Insert(f, i, ln)
  \/ \E f \in Files : \E i \in DOMAIN pkg[f], t \in Texts : Retype(f, i, t)
  \/ \E f \in Files : \E i \in DOMAIN pkg[f] : Reindent(f, i)
  \/ \E m \in muts : Accept(m)
  \/ \E line \in Listed \cup {Malformed} : Spoil(line)
  \/ \E i \in DOMAIN ignoreFile : Prune(i)

Spec == Init /\ [][Next]_vars

-----------------------------------------------------------------------------
(* The numbering as a function of the package, and `kanly show` *)

\* The number and the fingerprint of a candidate as functions of the package
\* alone.
Rank(p, c) == Cardinality({d \in AllCands(p) : Before(d, c)}) + 1

Twins(p, c) == {d \in AllCands(p) : Bare(p, d) = Bare(p, c)}

FingerprintOf(p, c) ==
  <<Bare(p, c), Cardinality({d \in Twins(p, c) : Before(d, c)}) + 1>>

\* loadMutants: the package is rewritten as it is now, with every operator and
\* without .kanlyignore.  That fails on an unknown name in any directive and on
\* a clash, whether or not the operators of an earlier run met it.
Fresh(p) == {c \in AllCands(p) : ~Covers(p, c[1], c[2], c[3])}

Rewrites(p) ==
  \A f \in Files \ Generated : DirectivesKnown(p, f) /\ ~Clash(Fresh(p), f)

\* Mutant: a fingerprint is looked up without its number.
FindMutantsBare(p, fp) == IF Rewrites(p) THEN {c \in Fresh(p) : Bare(p, c) = fp[1]} ELSE {}

\* findMutants in `kanly show` and `kanly test`: the mutant that has a reported
\* fingerprint now; none when the rewrite failed or the fingerprint is gone, both
\* of which are errors.
FindMutants(p, fp) == IF Rewrites(p) THEN {c \in Fresh(p) : FingerprintOf(p, c) = fp} ELSE {}

-----------------------------------------------------------------------------
(* What a run promises *)

InScope(o, c) ==
  Filter(o, c[1], c[3], FuncName(loaded[c[1]][c[3]])) /\ c[2] \in o.ops

Suppressed(c) ==
  FingerprintOf(loaded, c) \in accepted \/ Covers(loaded, c[1], c[2], c[3])

\* A mutant keeps its ID and fingerprint across scopes: whatever --diff,
\* --exclude, --operators, selectors, directives and .kanlyignore leave out,
\* both are the ones of a run without any of them, so `--mutant=<ids>`,
\* `kanly show` and `kanly test`, which rewrite the whole package afresh,
\* name exactly the mutant that was reported.
IdentityFixed ==
  \A m \in muts :
    /\ m.id = Rank(loaded, m.cand)
    /\ m.fp = FingerprintOf(loaded, m.cand)

\* A run that ends well has settled every candidate once: what is in scope
\* and not suppressed is a mutant, what is in scope and suppressed is counted
\* in Ignored, and the stale entries are those of .kanlyignore that match no
\* candidate of the package, in scope or not.
EverythingSettled ==
  outcome = "ok" =>
    LET scope == {c \in AllCands(loaded) : InScope(opts, c)} IN
    /\ {m.cand : m \in muts} = {c \in scope : ~Suppressed(c)}
    /\ ignored = Cardinality({c \in scope : Suppressed(c)})
    /\ stale = accepted \ {FingerprintOf(loaded, c) : c \in AllCands(loaded)}

\* The judgement of a mutant outlives edits elsewhere and is void after an
\* edit of its own line.  While its line reads as judged and nothing in a
\* function of that name reads the same, an accepted mutant is not reported
\* again; and what an accepted fingerprint does suppress is a change that was
\* judged on a line that read just so.
JudgementsFollow ==
  outcome = "ok" =>
    /\ \A j \in judged, m \in muts :
         LET ln == loaded[m.cand[1]][m.cand[3]] IN
         /\ j.fp \in accepted /\ j.fp[2] = 1
         /\ ln.uid = j.uid /\ ln.text = j.text /\ j.at = <<m.cand[2], m.cand[4], m.cand[5]>>
         => Twins(loaded, m.cand) # {m.cand}
    /\ \A c \in AllCands(loaded) :
         FingerprintOf(loaded, c) \in accepted =>
           \E j \in judged : /\ j.text = loaded[c[1]][c[3]].text
                            /\ j.at = <<c[2], c[4], c[5]>>

\* Candidate c of the package as it is now is what mutant m was when it was
\* reported: the same change on the same line, which reads as it did.
Still(m, c) ==
  LET was == loaded[m.cand[1]][m.cand[3]]
      ln  == pkg[c[1]][c[3]]
  IN  /\ ln.uid = was.uid /\ ln.text = was.text
      /\ <<c[2], c[4], c[5]>> = <<m.cand[2], m.cand[4], m.cand[5]>>

\* "a mutant is found by fingerprint after edits that renumber it": whatever
\* was edited since the report, a fingerprint names at most one mutant, and
\* while the mutant's line stands as reported and reads like no other of its
\* scope, it names that mutant; none if a directive now covers it, or if the
\* fresh rewrite fails, on a directive with an unknown name anywhere in the
\* package or on a clash, for which show and test report an error.
FoundAgain ==
  outcome = "ok" =>
    \A m \in muts :
      LET found == FindMutants(pkg, m.fp)
      IN  /\ Cardinality(found) <= 1
          /\ \A c \in AllCands(pkg) :
               Still(m, c) /\ Twins(pkg, c) = {c} /\ m.fp[2] = 1 =>
                 found = IF Rewrites(pkg) /\ ~Covers(pkg, c[1], c[2], c[3]) THEN {c} ELSE {}
=============================================================================
