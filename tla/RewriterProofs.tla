--------------------------- MODULE RewriterProofs ---------------------------
(***************************************************************************)
(* Proofs about the rewriter's pass, for every package, every operator     *)
(* set, every scope and any edits between runs: the number and the         *)
(* fingerprint of a mutant are functions of the package alone, a pass      *)
(* settles every candidate, and a judgement or a reported fingerprint      *)
(* stays with its line.                                                    *)
(*                                                                         *)
(* The pass counts.  What its counters mean is said of the candidates      *)
(* visited so far (Visited), which are exactly those that come before the  *)
(* one to be visited next (VisitedIsBefore).  What edits leave alone is    *)
(* said of the names of lines (SameScope).                                 *)
(***************************************************************************)
EXTENDS Rewriter, FiniteSetTheorems, FunctionTheorems, SequenceTheorems, TLAPS

Pkgs == [Files -> Seq(Lines)]

\* The candidates the pass has visited.
Visited ==
  { c \in AllCands(loaded) :
      c[1] < file \/ (c[1] = file /\ phase = "visit" /\ c \notin todo) }

\* What the entries of .kanlyignore can be: fingerprints that were judged, and
\* lines gone wrong.
Entries == { j.fp : j \in judged } \cup {Malformed}

RewriterType ==
  /\ pkg \in Pkgs /\ loaded \in Pkgs /\ edits \in Nat
  /\ ignoreFile \in Seq(Entries) /\ accepted \subseteq Entries
  /\ phase \in {"idle", "files", "visit"}
  /\ phase # "idle" => outcome = "none" /\ file \in 1 .. Cardinality(Files) + 1

\* The candidates of a file are visited in order.
InOrder ==
  phase = "visit" =>
    /\ file \in Files \ Generated
    /\ todo \subseteq CandsOf(loaded, file)
    /\ \A c \in todo : \A d \in CandsOf(loaded, file) \ todo : Before(d, c)

\* The two counters count what was visited.
Counted ==
  phase # "idle" =>
    /\ IsFiniteSet(Visited)
    /\ mutID = Cardinality(Visited)
    /\ \A c \in AllCands(loaded) :
         Count(Bare(loaded, c))
           = Cardinality({d \in Visited : Bare(loaded, d) = Bare(loaded, c)})

\* What was visited is settled: kept, counted as ignored or left out.
Kept(C) == { c \in C : InScope(opts, c) /\ ~Suppressed(c) }
Ignored(C) == { c \in C : InScope(opts, c) /\ Suppressed(c) }
Prints(C) == { FingerprintOf(loaded, c) : c \in C }

SettledSoFar ==
  phase # "idle" =>
    /\ { m.cand : m \in muts } = Kept(Visited)
    /\ ignored = Cardinality(Ignored(Visited))
    /\ matched = accepted \cap Prints(Visited)

MutsReal == \A m \in muts : m.cand \in AllCands(loaded)

PassInv ==
  /\ RewriterType
  /\ InOrder
  /\ Counted
  /\ SettledSoFar
  /\ MutsReal
  /\ IdentityFixed
  /\ EverythingSettled

-----------------------------------------------------------------------------
(* Candidates and their order *)

Ints5 == Int \X Int \X Int \X Int \X Int

LEMMA BeforeCases ==
  ASSUME NEW a \in Ints5, NEW b \in Ints5
  PROVE  Before(a, b) <=>
           \/ a[1] < b[1]
           \/ a[1] = b[1] /\ a[2] < b[2]
           \/ a[1] = b[1] /\ a[2] = b[2] /\ a[3] < b[3]
           \/ a[1] = b[1] /\ a[2] = b[2] /\ a[3] = b[3] /\ a[4] < b[4]
           \/ a[1] = b[1] /\ a[2] = b[2] /\ a[3] = b[3] /\ a[4] = b[4] /\ a[5] < b[5]
<1> DEFINE At(i) == a[i] < b[i] /\ \A j \in 1 .. (i - 1) : a[j] = b[j]
<1>1. Before(a, b) <=> At(1) \/ At(2) \/ At(3) \/ At(4) \/ At(5)
  <2>1. 1 .. 5 = {1, 2, 3, 4, 5}
    OBVIOUS
  <2> QED
    BY <2>1 DEF Before
<1>2. At(1) <=> a[1] < b[1]
  OBVIOUS
<1>3. At(2) <=> a[1] = b[1] /\ a[2] < b[2]
  <2>1. 1 .. (2 - 1) = {1}
    OBVIOUS
  <2> QED
    BY <2>1
<1>4. At(3) <=> a[1] = b[1] /\ a[2] = b[2] /\ a[3] < b[3]
  <2>1. 1 .. (3 - 1) = {1, 2}
    OBVIOUS
  <2> QED
    BY <2>1
<1>5. At(4) <=> a[1] = b[1] /\ a[2] = b[2] /\ a[3] = b[3] /\ a[4] < b[4]
  <2>1. 1 .. (4 - 1) = {1, 2, 3}
    OBVIOUS
  <2> QED
    BY <2>1
<1>6. At(5) <=> a[1] = b[1] /\ a[2] = b[2] /\ a[3] = b[3] /\ a[4] = b[4] /\ a[5] < b[5]
  <2>1. 1 .. (5 - 1) = {1, 2, 3, 4}
    OBVIOUS
  <2> QED
    BY <2>1
<1> QED
  <2> HIDE DEF At
  <2> QED
    BY <1>1, <1>2, <1>3, <1>4, <1>5, <1>6

\* Before is a strict total order.
LEMMA BeforeOrder ==
  ASSUME NEW a \in Ints5, NEW b \in Ints5, NEW c \in Ints5
  PROVE  /\ ~Before(a, a)
         /\ a = b \/ Before(a, b) \/ Before(b, a)
         /\ Before(a, b) /\ Before(b, c) => Before(a, c)
         /\ Before(a, b) => ~Before(b, a)
<1> DEFINE Ltx(x, y) ==
           \/ x[1] < y[1]
           \/ x[1] = y[1] /\ x[2] < y[2]
           \/ x[1] = y[1] /\ x[2] = y[2] /\ x[3] < y[3]
           \/ x[1] = y[1] /\ x[2] = y[2] /\ x[3] = y[3] /\ x[4] < y[4]
           \/ x[1] = y[1] /\ x[2] = y[2] /\ x[3] = y[3] /\ x[4] = y[4] /\ x[5] < y[5]
<1>1. \A x, y \in Ints5 : Before(x, y) <=> Ltx(x, y)
  BY BeforeCases
<1>2. \A x \in Ints5 : x[1] \in Int /\ x[2] \in Int /\ x[3] \in Int /\ x[4] \in Int /\ x[5] \in Int
  BY DEF Ints5
<1>3. a[1] = b[1] /\ a[2] = b[2] /\ a[3] = b[3] /\ a[4] = b[4] /\ a[5] = b[5] => a = b
  BY DEF Ints5
<1>4. ~Ltx(a, a)
  BY <1>2
<1>5. a = b \/ Ltx(a, b) \/ Ltx(b, a)
  BY <1>2, <1>3
<1>6. Ltx(a, b) /\ Ltx(b, c) => Ltx(a, c)
  BY <1>2
<1>7. Ltx(a, b) => ~Ltx(b, a)
  BY <1>2
<1> QED
  <2> HIDE DEF Ltx
  <2> QED
    BY <1>1, <1>4, <1>5, <1>6, <1>7

LEMMA ConstantsTyped ==
  /\ Cardinality(Files) \in Nat /\ Files = 1 .. Cardinality(Files)
  /\ Files \subseteq Nat
  /\ Ops \subseteq Int /\ Cols \subseteq Int /\ Vals \subseteq Int
<1>1. Cardinality(Files) \in Nat /\ Files = 1 .. Cardinality(Files)
  BY RewriterAssumption, FS_CardinalityType
<1>2. Files \subseteq Nat
  BY <1>1
<1>3. Ops \in {Ops, Cols, Vals} /\ Cols \in {Ops, Cols, Vals} /\ Vals \in {Ops, Cols, Vals}
  OBVIOUS
<1>4. Ops \subseteq Nat /\ Cols \subseteq Nat /\ Vals \subseteq Nat
  BY <1>3, RewriterAssumption
<1> QED
  BY <1>1, <1>2, <1>4

LEMMA CandTyped ==
  ASSUME NEW p \in Pkgs, NEW f \in Files, NEW c \in CandsOf(p, f)
  PROVE  /\ c \in Ints5 /\ c[1] = f
         /\ c[2] \in Ops /\ c[3] \in DOMAIN p[f] /\ c[4] \in Cols /\ c[5] \in Vals
<1>1. p[f] \in Seq(Lines)
  BY DEF Pkgs
<1>2. c \in {f} \X Ops \X (1 .. Len(p[f])) \X Cols \X Vals
  BY DEF CandsOf
<1>3. Ops \subseteq Int /\ Cols \subseteq Int /\ Vals \subseteq Int /\ f \in Int
  BY ConstantsTyped
<1>4. DOMAIN p[f] = 1 .. Len(p[f]) /\ 1 .. Len(p[f]) \subseteq Int
  BY <1>1
<1> QED
  BY <1>2, <1>3, <1>4 DEF Ints5

LEMMA AllCandsTyped ==
  ASSUME NEW p \in Pkgs, NEW c \in AllCands(p)
  PROVE  /\ c \in Ints5 /\ c[1] \in Files \ Generated /\ c \in CandsOf(p, c[1])
         /\ c[2] \in Ops /\ c[3] \in DOMAIN p[c[1]] /\ c[4] \in Cols /\ c[5] \in Vals
<1>1. PICK f \in Files \ Generated : c \in CandsOf(p, f)
  BY DEF AllCands
<1> QED
  BY <1>1, CandTyped

LEMMA CandsAll ==
  ASSUME NEW p \in Pkgs, NEW f \in Files \ Generated
  PROVE  CandsOf(p, f) = {c \in AllCands(p) : c[1] = f}
<1>1. CandsOf(p, f) \subseteq {c \in AllCands(p) : c[1] = f}
  BY CandTyped DEF AllCands
<1>2. {c \in AllCands(p) : c[1] = f} \subseteq CandsOf(p, f)
  BY AllCandsTyped
<1> QED
  BY <1>1, <1>2

\* Where a candidate is, as far as its fingerprint tells.
ScopeOf(f, ln) == IF FuncName(ln)[1] = "none" THEN <<"file", f>> ELSE FuncName(ln)

\* What the fingerprint of a candidate is made of: where it is, what it does and
\* how its line reads, but neither the line's number nor its indentation.
LEMMA BareValue ==
  ASSUME NEW p \in Pkgs, NEW c \in AllCands(p)
  PROVE  Bare(p, c) = << ScopeOf(c[1], p[c[1]][c[3]]), c[2], c[5], p[c[1]][c[3]].text, c[4] >>
<1> DEFINE ln == p[c[1]][c[3]]
<1>1. ln \in Lines
  BY AllCandsTyped DEF Pkgs
<1>2. ln.indent \in {0, 1}
  <2> HIDE DEF ln
  <2> QED
    BY <1>1 DEF Lines
<1>3. c[4] \in Int
  BY AllCandsTyped, ConstantsTyped
<1>4. (ln.indent + c[4]) - ln.indent = c[4]
  <2> HIDE DEF ln
  <2> QED
    BY <1>2, <1>3
<1>5. Bare(p, c) = << ScopeOf(c[1], ln), c[2], c[5], ln.text, (ln.indent + c[4]) - ln.indent >>
  BY DEF Bare, ScopeOf
<1> QED
  BY <1>4, <1>5

\* A package has finitely many candidates.
LEMMA CandsFinite ==
  ASSUME NEW p \in Pkgs, NEW f \in Files
  PROVE  IsFiniteSet(CandsOf(p, f))
<1> DEFINE T == (((({f} \X Ops) \X (1 .. Len(p[f]))) \X Cols) \X Vals)
           nest == [c \in CandsOf(p, f) |-> << << << <<c[1], c[2]>>, c[3]>>, c[4]>>, c[5]>>]
<1>1. Len(p[f]) \in Nat /\ DOMAIN p[f] = 1 .. Len(p[f])
  BY DEF Pkgs
<1>2. IsFiniteSet(1 .. Len(p[f])) /\ IsFiniteSet({f})
  <2>1. \A n \in Nat : IsFiniteSet(1 .. n)
    BY FS_Interval
  <2> QED
    BY <1>1, <2>1, FS_Singleton
<1>3. Ops \in {Ops, Cols, Vals} /\ Cols \in {Ops, Cols, Vals} /\ Vals \in {Ops, Cols, Vals}
  OBVIOUS
<1>4. IsFiniteSet(Ops) /\ IsFiniteSet(Cols) /\ IsFiniteSet(Vals)
  BY <1>3, RewriterAssumption
<1>5. IsFiniteSet({f} \X Ops)
  BY <1>2, <1>4, FS_Product
<1>6. IsFiniteSet(({f} \X Ops) \X (1 .. Len(p[f])))
  BY <1>2, <1>5, FS_Product
<1>7. IsFiniteSet((({f} \X Ops) \X (1 .. Len(p[f]))) \X Cols)
  BY <1>4, <1>6, FS_Product
<1>8. IsFiniteSet(T)
  BY <1>4, <1>7, FS_Product
<1>9. \A c \in CandsOf(p, f) :
        /\ c \in Ints5 /\ c[1] \in {f} /\ c[2] \in Ops /\ c[3] \in 1 .. Len(p[f])
        /\ c[4] \in Cols /\ c[5] \in Vals
  BY CandTyped, <1>1
<1>10. nest \in [CandsOf(p, f) -> T]
  BY <1>9
<1>11. \A c, d \in CandsOf(p, f) : nest[c] = nest[d] => c = d
  <2> SUFFICES ASSUME NEW c \in CandsOf(p, f), NEW d \in CandsOf(p, f), nest[c] = nest[d]
               PROVE  c = d
    OBVIOUS
  <2>1. c[1] = d[1] /\ c[2] = d[2] /\ c[3] = d[3] /\ c[4] = d[4] /\ c[5] = d[5]
    OBVIOUS
  <2>2. c \in Ints5 /\ d \in Ints5
    BY <1>9
  <2> QED
    BY <2>1, <2>2 DEF Ints5
<1> HIDE DEF T, nest
<1>12. nest \in Injection(CandsOf(p, f), T)
  BY <1>10, <1>11 DEF Injection, IsInjective
<1> QED
  BY <1>8, <1>12, FS_Injection

LEMMA AllCandsFinite ==
  ASSUME NEW p \in Pkgs
  PROVE  IsFiniteSet(AllCands(p))
<1> DEFINE F == Files \ Generated
           S == { CandsOf(p, f) : f \in F }
           per == [f \in F |-> CandsOf(p, f)]
<1>1. IsFiniteSet(F)
  BY RewriterAssumption, FS_Difference
<1>2. per \in Surjection(F, S)
  BY DEF Surjection
<1>3. IsFiniteSet(S)
  BY <1>1, <1>2, FS_Surjection
<1>4. \A T \in S : IsFiniteSet(T)
  BY CandsFinite
<1> HIDE DEF S
<1>5. IsFiniteSet(UNION S)
  BY <1>3, <1>4, FS_UNION
<1> QED
  BY <1>5 DEF AllCands, S

\* A fingerprint names one candidate of a package.
LEMMA FingerprintInjective ==
  ASSUME NEW p \in Pkgs, NEW c \in AllCands(p), NEW d \in AllCands(p),
         FingerprintOf(p, c) = FingerprintOf(p, d)
  PROVE  c = d
<1> DEFINE Lower(x) == {e \in Twins(p, x) : Before(e, x)}
<1>1. /\ Bare(p, c) = Bare(p, d)
      /\ Cardinality(Lower(c)) + 1 = Cardinality(Lower(d)) + 1
  BY DEF FingerprintOf
<1>2. Twins(p, c) = Twins(p, d) /\ c \in Twins(p, c) /\ d \in Twins(p, d)
  BY <1>1 DEF Twins
<1>3. \A x \in AllCands(p) : x \in Ints5
  BY AllCandsTyped
<1>4. Lower(c) \in SUBSET AllCands(p) /\ Lower(d) \in SUBSET AllCands(p)
  BY DEF Twins
<1>5. IsFiniteSet(Lower(c)) /\ IsFiniteSet(Lower(d))
  BY <1>4, AllCandsFinite, FS_Subset
<1>6. Cardinality(Lower(c)) = Cardinality(Lower(d))
  BY <1>1, <1>5, FS_CardinalityType
<1>7. ASSUME NEW x \in AllCands(p), NEW y \in AllCands(p), Bare(p, x) = Bare(p, y),
             IsFiniteSet(Lower(y)), Cardinality(Lower(x)) = Cardinality(Lower(y))
      PROVE  ~Before(x, y)
  <2> SUFFICES ASSUME Before(x, y) PROVE FALSE
    OBVIOUS
  <2>1. x \in Lower(y)
    BY <1>7 DEF Twins
  <2>2. x \notin Lower(x)
    BY <1>3, BeforeOrder
  <2>3. Lower(x) \in SUBSET Lower(y)
    BY <1>3, <1>7, BeforeOrder DEF Twins
  <2> QED
    BY <1>7, <2>1, <2>2, <2>3, FS_Subset
<1>8. ~Before(c, d) /\ ~Before(d, c)
  BY <1>1, <1>5, <1>6, <1>7
<1> QED
  BY <1>3, <1>8, BeforeOrder

-----------------------------------------------------------------------------
(* The pass *)

\* The candidates visited are those before the next one.
LEMMA VisitedIsBefore ==
  ASSUME RewriterType, InOrder, phase = "visit",
         NEW c \in todo, \A d \in todo : ~Before(d, c)
  PROVE  /\ c \in AllCands(loaded) /\ c[1] = file /\ c \notin Visited
         /\ { d \in AllCands(loaded) : Before(d, c) } = Visited
<1>1. loaded \in Pkgs /\ file \in Files \ Generated /\ c \in CandsOf(loaded, file)
  BY DEF RewriterType, InOrder
<1>2. CandsOf(loaded, file) = {d \in AllCands(loaded) : d[1] = file}
  BY <1>1, CandsAll
<1>3. \A d \in AllCands(loaded) : d \in Ints5 /\ d[1] \in Int
  BY <1>1, AllCandsTyped DEF Ints5
<1>4. c \in AllCands(loaded) /\ c[1] = file
  BY <1>1, <1>2
<1>5. file \in Int
  BY <1>3, <1>4
<1>6. c \notin Visited
  BY <1>4, <1>5 DEF Visited
<1>7. ASSUME NEW d \in Visited PROVE Before(d, c)
  <2>1. CASE d[1] < file
    BY <1>3, <1>4, <1>7, <2>1, BeforeCases DEF Visited
  <2>2. CASE d[1] = file /\ d \notin todo
    BY <1>2, <1>7, <2>2 DEF Visited, InOrder
  <2> QED
    BY <1>7, <2>1, <2>2 DEF Visited
<1>8. ASSUME NEW d \in AllCands(loaded), Before(d, c) PROVE d \in Visited
  <2>1. d[1] < c[1] \/ d[1] = c[1]
    BY <1>3, <1>4, <1>8, BeforeCases
  <2>2. d \notin todo
    BY <1>8
  <2> QED
    BY <1>4, <2>1, <2>2 DEF Visited
<1>9. Visited \subseteq AllCands(loaded)
  BY DEF Visited
<1> QED
  BY <1>4, <1>6, <1>7, <1>8, <1>9

\* Counting up to a candidate gives it the number and the fingerprint it has in
\* the package.
LEMMA NumberedByRank ==
  ASSUME RewriterType, InOrder, Counted, phase = "visit",
         NEW c \in todo, \A d \in todo : ~Before(d, c)
  PROVE  /\ mutID + 1 = Rank(loaded, c)
         /\ << Bare(loaded, c), Count(Bare(loaded, c)) + 1 >> = FingerprintOf(loaded, c)
<1>1. { d \in AllCands(loaded) : Before(d, c) } = Visited /\ c \in AllCands(loaded)
  BY VisitedIsBefore
<1>2. mutID = Cardinality(Visited)
  BY DEF Counted
<1>3. Count(Bare(loaded, c))
        = Cardinality({d \in Visited : Bare(loaded, d) = Bare(loaded, c)})
  BY <1>1 DEF Counted
<1>4. {d \in Visited : Bare(loaded, d) = Bare(loaded, c)}
        = {d \in Twins(loaded, c) : Before(d, c)}
  BY <1>1 DEF Twins
<1>5. mutID + 1 = Rank(loaded, c)
  BY <1>1, <1>2 DEF Rank
<1> QED
  BY <1>3, <1>4, <1>5 DEF FingerprintOf

\* One candidate more.
LEMMA VisitedGrows ==
  ASSUME RewriterType, InOrder, NEW c \in todo, Visit(c)
  PROVE  /\ c \in AllCands(loaded) /\ c \notin Visited
         /\ Visited' = Visited \cup {c}
<1>1. /\ phase = "visit" /\ \A d \in todo : ~Before(d, c)
      /\ todo' = todo \ {c} /\ phase' = phase /\ loaded' = loaded /\ file' = file
  BY DEF Visit
<1>2. c \in AllCands(loaded) /\ c[1] = file /\ c \notin Visited
  BY <1>1, VisitedIsBefore
<1> QED
  BY <1>1, <1>2 DEF Visited

\* What a visit does, in terms of the package alone.
LEMMA VisitEffect ==
  ASSUME RewriterType, InOrder, Counted, NEW c \in todo, Visit(c)
  PROVE  LET bare == Bare(loaded, c)
             fp   == FingerprintOf(loaded, c)
         IN  /\ mutID' = mutID + 1 /\ mutID' = Rank(loaded, c)
             /\ occurrences' = [k \in DOMAIN occurrences \cup {bare} |->
                                  IF k = bare THEN Count(bare) + 1 ELSE occurrences[k]]
             /\ matched' = matched \cup ({fp} \cap accepted)
             /\ ignored' = IF InScope(opts, c) /\ Suppressed(c) THEN ignored + 1 ELSE ignored
             /\ muts' = IF InScope(opts, c) /\ ~Suppressed(c)
                        THEN muts \cup {[id |-> Rank(loaded, c), cand |-> c,
                                         fn |-> FuncName(loaded[c[1]][c[3]]), fp |-> fp]}
                        ELSE muts
<1> DEFINE bare == Bare(loaded, c)
           fp   == <<bare, Count(bare) + 1>>
<1>1. phase = "visit" /\ \A d \in todo : ~Before(d, c)
  BY DEF Visit
<1>2. mutID + 1 = Rank(loaded, c) /\ fp = FingerprintOf(loaded, c)
  BY <1>1, NumberedByRank
<1>3. mutID' = mutID + 1
  BY DEF Visit, Number
<1>4. occurrences' = [k \in DOMAIN occurrences \cup {bare} |->
                        IF k = bare THEN Count(bare) + 1 ELSE occurrences[k]]
  BY DEF Visit
<1>5. matched' = matched \cup ({fp} \cap accepted)
  BY DEF Visit, Match
<1>6. ignored' = IF InScope(opts, c) /\ (fp \in accepted \/ Covers(loaded, c[1], c[2], c[3]))
                 THEN ignored + 1 ELSE ignored
  BY DEF Visit, InScope
<1>7. muts' = IF InScope(opts, c) /\ ~(fp \in accepted \/ Covers(loaded, c[1], c[2], c[3]))
              THEN muts \cup {[id |-> mutID', cand |-> c,
                               fn |-> FuncName(loaded[c[1]][c[3]]), fp |-> fp]}
              ELSE muts
  BY DEF Visit, InScope
<1> HIDE DEF fp
<1> QED
  BY <1>2, <1>3, <1>4, <1>5, <1>6, <1>7 DEF Suppressed

LEMMA VisitCounted ==
  ASSUME RewriterType, InOrder, Counted, NEW c \in todo, Visit(c)
  PROVE  Counted'
<1> DEFINE Alike(V, d) == {e \in V : Bare(loaded, e) = Bare(loaded, d)}
           bare == Bare(loaded, c)
<1>1. /\ phase = "visit" /\ loaded' = loaded
  BY DEF Visit
<1>2. /\ IsFiniteSet(Visited) /\ mutID = Cardinality(Visited)
      /\ \A d \in AllCands(loaded) : Count(Bare(loaded, d)) = Cardinality(Alike(Visited, d))
  BY <1>1 DEF Counted
<1>3. c \in AllCands(loaded) /\ c \notin Visited /\ Visited' = Visited \cup {c}
  BY VisitedGrows
<1>4. mutID' = mutID + 1
  BY VisitEffect
<1>5. IsFiniteSet(Visited') /\ mutID' = Cardinality(Visited')
  BY <1>2, <1>3, <1>4, FS_AddElement
<1>6. occurrences' = [k \in DOMAIN occurrences \cup {bare} |->
                        IF k = bare THEN Count(bare) + 1 ELSE occurrences[k]]
  BY VisitEffect
<1>7. \A k : Count(k)' = IF k = bare THEN Count(bare) + 1 ELSE Count(k)
  <2> HIDE DEF bare
  <2> TAKE k
  <2>1. DOMAIN occurrences' = DOMAIN occurrences \cup {bare}
    BY <1>6
  <2>2. CASE k = bare
    BY <1>6, <2>1, <2>2 DEF Count
  <2>3. CASE k # bare
    BY <1>6, <2>1, <2>3 DEF Count
  <2> QED
    BY <2>2, <2>3
<1>8. ASSUME NEW d \in AllCands(loaded)
      PROVE  Count(Bare(loaded, d))' = Cardinality(Alike(Visited', d))
  <2>1. IsFiniteSet(Alike(Visited, d)) /\ c \notin Alike(Visited, d)
    <3>1. Alike(Visited, d) \in SUBSET Visited
      OBVIOUS
    <3> QED
      BY <1>2, <1>3, <3>1, FS_Subset
  <2>2. Count(Bare(loaded, d)) = Cardinality(Alike(Visited, d))
    BY <1>2, <1>8
  <2>3. CASE Bare(loaded, d) = bare
    <3>1. Alike(Visited', d) = Alike(Visited, d) \cup {c}
      BY <1>3, <2>3
    <3>2. Cardinality(Alike(Visited', d)) = Cardinality(Alike(Visited, d)) + 1
      BY <2>1, <3>1, FS_AddElement
    <3>3. Count(Bare(loaded, d))' = Count(bare) + 1
      BY <1>1, <1>7, <2>3
    <3> QED
      BY <2>2, <2>3, <3>2, <3>3
  <2>4. CASE Bare(loaded, d) # bare
    <3>1. Alike(Visited', d) = Alike(Visited, d)
      BY <1>3, <2>4
    <3>2. Count(Bare(loaded, d))' = Count(Bare(loaded, d))
      BY <1>1, <1>7, <2>4
    <3> QED
      BY <2>2, <3>1, <3>2
  <2> QED
    BY <2>3, <2>4
<1> QED
  BY <1>1, <1>5, <1>8 DEF Counted

LEMMA VisitSettled ==
  ASSUME RewriterType, InOrder, Counted, SettledSoFar, NEW c \in todo, Visit(c)
  PROVE  SettledSoFar'
<1> DEFINE fp == FingerprintOf(loaded, c)
<1>1. phase = "visit" /\ loaded' = loaded /\ opts' = opts /\ accepted' = accepted
  BY DEF Visit
<1>2. /\ { m.cand : m \in muts } = Kept(Visited)
      /\ ignored = Cardinality(Ignored(Visited))
      /\ matched = accepted \cap Prints(Visited)
  BY <1>1 DEF SettledSoFar
<1>3. c \in AllCands(loaded) /\ c \notin Visited /\ Visited' = Visited \cup {c}
  BY VisitedGrows
<1>4. IsFiniteSet(Visited)
  BY <1>1 DEF Counted
<1>5. { m.cand : m \in muts }' = Kept(Visited \cup {c})
  <2>1. CASE InScope(opts, c) /\ ~Suppressed(c)
    <3>1. PICK r : r.cand = c /\ muts' = muts \cup {r}
      <4>1. muts' = muts \cup {[id |-> Rank(loaded, c), cand |-> c,
                                fn |-> FuncName(loaded[c[1]][c[3]]), fp |-> fp]}
        BY <2>1, VisitEffect
      <4> QED
        BY <4>1
    <3>2. { m.cand : m \in muts' } = { m.cand : m \in muts } \cup {c}
      BY <3>1
    <3>3. Kept(Visited \cup {c}) = Kept(Visited) \cup {c}
      BY <2>1 DEF Kept
    <3> QED
      BY <1>2, <3>2, <3>3
  <2>2. CASE ~(InScope(opts, c) /\ ~Suppressed(c))
    <3>1. muts' = muts
      BY <2>2, VisitEffect
    <3>2. Kept(Visited \cup {c}) = Kept(Visited)
      BY <2>2 DEF Kept
    <3> QED
      BY <1>2, <3>1, <3>2
  <2> QED
    BY <2>1, <2>2
<1>6. ignored' = Cardinality(Ignored(Visited \cup {c}))
  <2>1. IsFiniteSet(Ignored(Visited)) /\ c \notin Ignored(Visited)
    <3>1. Ignored(Visited) \in SUBSET Visited
      BY DEF Ignored
    <3> QED
      BY <1>3, <1>4, <3>1, FS_Subset
  <2>2. CASE InScope(opts, c) /\ Suppressed(c)
    <3>1. Ignored(Visited \cup {c}) = Ignored(Visited) \cup {c}
      BY <2>2 DEF Ignored
    <3>2. ignored' = ignored + 1
      BY <2>2, VisitEffect
    <3> QED
      BY <1>2, <2>1, <3>1, <3>2, FS_AddElement
  <2>3. CASE ~(InScope(opts, c) /\ Suppressed(c))
    <3>1. Ignored(Visited \cup {c}) = Ignored(Visited)
      BY <2>3 DEF Ignored
    <3>2. ignored' = ignored
      BY <2>3, VisitEffect
    <3> QED
      BY <1>2, <3>1, <3>2
  <2> QED
    BY <2>2, <2>3
<1>7. matched' = accepted \cap Prints(Visited \cup {c})
  <2>1. matched' = matched \cup ({fp} \cap accepted)
    BY VisitEffect
  <2>2. Prints(Visited \cup {c}) = Prints(Visited) \cup {fp}
    BY DEF Prints
  <2> QED
    BY <1>2, <2>1, <2>2
<1>8. \A C : /\ Kept(C)' = Kept(C)
             /\ Ignored(C)' = Ignored(C)
             /\ Prints(C)' = Prints(C)
  BY <1>1 DEF Kept, Ignored, Prints, InScope, Suppressed
<1> QED
  BY <1>1, <1>3, <1>5, <1>6, <1>7, <1>8 DEF SettledSoFar

LEMMA VisitPass ==
  ASSUME PassInv, NEW c \in todo, Visit(c)
  PROVE  PassInv'
<1> USE DEF PassInv
<1>1. /\ phase = "visit" /\ \A d \in todo : ~Before(d, c)
      /\ UNCHANGED <<diskVars, phase, opts, loaded, accepted, file, outcome, stale>>
      /\ todo' = todo \ {c}
  BY DEF Visit
<1>2. /\ pkg' = pkg /\ ignoreFile' = ignoreFile /\ judged' = judged /\ edits' = edits
      /\ phase' = phase /\ opts' = opts /\ loaded' = loaded /\ accepted' = accepted
      /\ file' = file /\ outcome' = outcome /\ stale' = stale
  BY <1>1 DEF diskVars
<1>3. RewriterType'
  BY <1>2 DEF RewriterType, Entries
<1>4. c \in AllCands(loaded) /\ c[1] = file
  BY <1>1, VisitedIsBefore
<1>5. InOrder'
  <2>1. file \in Files \ Generated /\ todo' \subseteq CandsOf(loaded, file)
    BY <1>1 DEF InOrder
  <2>2. \A x \in CandsOf(loaded, file) : x \in Ints5
    BY <2>1, CandTyped DEF RewriterType
  <2>3. ASSUME NEW x \in todo', NEW d \in CandsOf(loaded, file) \ todo'
        PROVE  Before(d, x)
    <3>1. CASE d = c
      <4>1. x \in todo /\ x # c /\ c \in CandsOf(loaded, file) /\ x \in CandsOf(loaded, file)
        BY <1>1, <2>3 DEF InOrder
      <4> QED
        BY <1>1, <2>2, <3>1, <4>1, BeforeOrder
    <3>2. CASE d # c
      BY <1>1, <2>3, <3>2 DEF InOrder
    <3> QED
      BY <3>1, <3>2
  <2> QED
    BY <1>2, <2>1, <2>3 DEF InOrder
<1>6. Counted'
  BY VisitCounted
<1>7. SettledSoFar'
  BY VisitSettled
<1>8. MutsReal' /\ IdentityFixed'
  <2>1. CASE muts' = muts
    BY <1>2, <2>1 DEF MutsReal, IdentityFixed
  <2>2. CASE muts' # muts
    <3>1. PICK r : /\ r.cand = c /\ r.id = Rank(loaded, c) /\ r.fp = FingerprintOf(loaded, c)
                   /\ muts' = muts \cup {r}
      <4>1. muts' = muts \cup {[id |-> Rank(loaded, c), cand |-> c,
                                fn |-> FuncName(loaded[c[1]][c[3]]),
                                fp |-> FingerprintOf(loaded, c)]}
        BY <2>2, VisitEffect
      <4> QED
        BY <4>1
    <3> QED
      BY <1>2, <1>4, <3>1 DEF MutsReal, IdentityFixed
  <2> QED
    BY <2>1, <2>2
<1>9. EverythingSettled'
  <2>1. outcome' # "ok"
    BY <1>1, <1>2 DEF RewriterType
  <2> QED
    BY <2>1 DEF EverythingSettled
<1> QED
  BY <1>3, <1>5, <1>6, <1>7, <1>8, <1>9

\* A pass that failed leaves nothing that anything is claimed of.
LEMMA FailedPass ==
  ASSUME RewriterType', phase' = "idle", outcome' = "error", muts' = {}
  PROVE  PassInv'
BY DEF PassInv, InOrder, Counted, SettledSoFar, MutsReal, IdentityFixed, EverythingSettled

\* Steps between visits leave the counts as they are.
LEMMA SamePass ==
  ASSUME PassInv, RewriterType', phase # "idle", InOrder', Visited' = Visited,
         outcome' = "none", UNCHANGED <<passVars, opts, loaded, accepted>>
  PROVE  PassInv'
<1>1. /\ mutID' = mutID /\ occurrences' = occurrences /\ matched' = matched
      /\ muts' = muts /\ ignored' = ignored
      /\ opts' = opts /\ loaded' = loaded /\ accepted' = accepted
  BY DEF passVars
<1>2. Counted'
  BY <1>1 DEF PassInv, Counted, Count
<1>3. \A C : /\ Kept(C)' = Kept(C)
             /\ Ignored(C)' = Ignored(C)
             /\ Prints(C)' = Prints(C)
  BY <1>1 DEF Kept, Ignored, Prints, InScope, Suppressed
<1>4. SettledSoFar'
  BY <1>1, <1>3 DEF PassInv, SettledSoFar
<1>5. MutsReal' /\ IdentityFixed'
  BY <1>1 DEF PassInv, MutsReal, IdentityFixed
<1> QED
  BY <1>2, <1>4, <1>5 DEF PassInv, EverythingSettled

LEMMA InitPass == Init => PassInv
<1> SUFFICES ASSUME Init PROVE PassInv
  OBVIOUS
<1>1. pkg \in Pkgs /\ loaded \in Pkgs
  BY RewriterAssumption DEF Init, Pkgs
<1>2. RewriterType
  BY <1>1 DEF Init, RewriterType, Entries
<1> QED
  BY <1>2 DEF Init, PassInv, InOrder, Counted, SettledSoFar, MutsReal, IdentityFixed,
              EverythingSettled

LEMMA StartPass ==
  ASSUME PassInv, NEW o, Start(o)
  PROVE  PassInv'
<1>1. /\ pkg' = pkg /\ ignoreFile' = ignoreFile /\ judged' = judged /\ edits' = edits
      /\ loaded' = pkg /\ accepted' = Listed /\ file' = 1
      /\ mutID' = 0 /\ occurrences' = <<>> /\ matched' = {}
  BY DEF Start, diskVars
<1>2. accepted' \subseteq Entries' /\ ignoreFile' \in Seq(Entries')
  BY <1>1 DEF PassInv, RewriterType, Entries, Listed
<1>3. pkg' \in Pkgs /\ loaded' \in Pkgs /\ edits' \in Nat
  BY <1>1 DEF PassInv, RewriterType
<1>4. file' \in 1 .. Cardinality(Files) + 1
  BY <1>1, ConstantsTyped
<1>5. CASE /\ phase' = "files" /\ outcome' = "none"
           /\ muts' = {} /\ ignored' = 0 /\ stale' = {} /\ todo' = {}
  <2>1. RewriterType'
    BY <1>2, <1>3, <1>4, <1>5 DEF RewriterType
  <2>2. Visited' = {}
    <3>1. \A c \in AllCands(loaded') : c[1] \in Files
      BY <1>3, AllCandsTyped
    <3>2. \A f \in Files : ~(f < 1)
      BY ConstantsTyped
    <3> QED
      BY <1>1, <1>5, <3>1, <3>2 DEF Visited
  <2>3. Counted'
    <3>1. \A k : Count(k)' = 0
      BY <1>1 DEF Count
    <3>2. \A c : {d \in Visited' : Bare(loaded', d) = Bare(loaded', c)} = {}
      BY <2>2
    <3> QED
      BY <1>1, <2>2, <3>1, <3>2, FS_EmptySet DEF Counted
  <2>4. SettledSoFar'
    <3>1. { m.cand : m \in muts' } = {}
      BY <1>5
    <3>2. Kept(Visited)' = {} /\ Ignored(Visited)' = {} /\ Prints(Visited)' = {}
      BY <2>2 DEF Kept, Ignored, Prints
    <3> QED
      BY <1>1, <1>5, <3>1, <3>2, FS_EmptySet DEF SettledSoFar
  <2> QED
    BY <1>5, <2>1, <2>3, <2>4
       DEF PassInv, InOrder, MutsReal, IdentityFixed, EverythingSettled
<1>6. CASE Fail
  <2>1. phase' = "idle" /\ outcome' = "error" /\ muts' = {}
    BY <1>6 DEF Fail
  <2>2. RewriterType'
    BY <1>2, <1>3, <2>1 DEF RewriterType
  <2> QED
    BY <2>1, <2>2, FailedPass
<1> QED
  BY <1>5, <1>6 DEF Start

LEMMA OpenPass ==
  ASSUME PassInv, OpenFile
  PROVE  PassInv'
<1>1. /\ pkg' = pkg /\ ignoreFile' = ignoreFile /\ judged' = judged /\ edits' = edits
      /\ loaded' = loaded /\ accepted' = accepted /\ opts' = opts
      /\ phase = "files" /\ file \in Files
  BY DEF OpenFile, diskVars
<1>2. /\ pkg \in Pkgs /\ loaded \in Pkgs /\ edits \in Nat
      /\ ignoreFile \in Seq(Entries) /\ accepted \subseteq Entries /\ Entries' = Entries
      /\ outcome = "none"
  BY <1>1 DEF PassInv, RewriterType, Entries
<1>3. /\ file \in Nat /\ file + 1 \in 1 .. Cardinality(Files) + 1
      /\ file \in 1 .. Cardinality(Files) + 1
  BY <1>1, ConstantsTyped
<1>4. \A c \in AllCands(loaded) :
        /\ c[1] \in Int /\ c[1] \in Files \ Generated
        /\ c[1] < file + 1 <=> c[1] < file \/ c[1] = file
  BY <1>2, <1>3, AllCandsTyped, ConstantsTyped
<1>5. CASE /\ file \in Generated /\ file' = file + 1
           /\ UNCHANGED <<phase, todo, passVars, outcome, stale>>
  <2>1. RewriterType'
    BY <1>1, <1>2, <1>3, <1>5 DEF RewriterType
  <2>2. Visited' = Visited
    BY <1>1, <1>4, <1>5 DEF Visited
  <2>3. InOrder'
    BY <1>1, <1>5 DEF InOrder
  <2> QED
    BY <1>1, <1>2, <1>5, <2>1, <2>2, <2>3, SamePass
<1>6. CASE /\ file \notin Generated
           /\ phase' = "visit" /\ todo' = CandsOf(loaded, file)
           /\ UNCHANGED <<file, passVars, outcome, stale>>
  <2>1. RewriterType'
    BY <1>1, <1>2, <1>3, <1>6 DEF RewriterType
  <2>2. CandsOf(loaded, file) = {c \in AllCands(loaded) : c[1] = file}
    BY <1>1, <1>2, <1>6, CandsAll
  <2>3. Visited' = Visited
    BY <1>1, <1>6, <2>2 DEF Visited
  <2>4. InOrder'
    BY <1>1, <1>6 DEF InOrder
  <2> QED
    BY <1>1, <1>2, <1>6, <2>1, <2>3, <2>4, SamePass
<1>7. CASE Fail
  <2>1. phase' = "idle" /\ outcome' = "error" /\ muts' = {}
    BY <1>7 DEF Fail
  <2>2. RewriterType'
    BY <1>1, <1>2, <2>1 DEF RewriterType
  <2> QED
    BY <2>1, <2>2, FailedPass
<1> QED
  BY <1>5, <1>6, <1>7 DEF OpenFile

LEMMA ClosePass ==
  ASSUME PassInv, CloseFile
  PROVE  PassInv'
<1>1. /\ pkg' = pkg /\ ignoreFile' = ignoreFile /\ judged' = judged /\ edits' = edits
      /\ loaded' = loaded /\ accepted' = accepted /\ opts' = opts
      /\ phase = "visit" /\ todo = {}
  BY DEF CloseFile, diskVars
<1>2. /\ pkg \in Pkgs /\ loaded \in Pkgs /\ edits \in Nat
      /\ ignoreFile \in Seq(Entries) /\ accepted \subseteq Entries /\ Entries' = Entries
      /\ outcome = "none" /\ file \in Files
  BY <1>1 DEF PassInv, RewriterType, InOrder, Entries
<1>3. file \in Nat /\ file + 1 \in 1 .. Cardinality(Files) + 1
  BY <1>2, ConstantsTyped
<1>4. \A c \in AllCands(loaded) :
        /\ c[1] \in Int
        /\ c[1] < file + 1 <=> c[1] < file \/ c[1] = file
  BY <1>2, <1>3, AllCandsTyped, ConstantsTyped
<1>5. CASE /\ phase' = "files" /\ file' = file + 1
           /\ UNCHANGED <<todo, passVars, outcome, stale>>
  <2>1. RewriterType'
    BY <1>1, <1>2, <1>3, <1>5 DEF RewriterType
  <2>2. Visited' = Visited
    BY <1>1, <1>4, <1>5 DEF Visited
  <2>3. InOrder'
    BY <1>5 DEF InOrder
  <2> QED
    BY <1>1, <1>2, <1>5, <2>1, <2>2, <2>3, SamePass
<1>6. CASE Fail
  <2>1. phase' = "idle" /\ outcome' = "error" /\ muts' = {}
    BY <1>6 DEF Fail
  <2>2. RewriterType'
    BY <1>1, <1>2, <2>1 DEF RewriterType
  <2> QED
    BY <2>1, <2>2, FailedPass
<1> QED
  BY <1>5, <1>6 DEF CloseFile

\* At the end of the pass every candidate was visited.
LEMMA FinishPass ==
  ASSUME PassInv, Finish, ~Fail
  PROVE  PassInv'
<1>1. /\ pkg' = pkg /\ ignoreFile' = ignoreFile /\ judged' = judged /\ edits' = edits
      /\ loaded' = loaded /\ accepted' = accepted /\ opts' = opts
      /\ mutID' = mutID /\ occurrences' = occurrences /\ matched' = matched
      /\ muts' = muts /\ ignored' = ignored /\ stale' = accepted \ matched
      /\ phase = "files" /\ file \notin Files /\ phase' = "idle"
  BY DEF Finish, diskVars, passVars
<1>2. RewriterType'
  BY <1>1 DEF PassInv, RewriterType, Entries
<1>3. Visited = AllCands(loaded)
  <2>1. file > Cardinality(Files) /\ file \in Nat
    <3>1. file \in 1 .. Cardinality(Files) + 1
      BY <1>1 DEF PassInv, RewriterType
    <3> QED
      BY <1>1, <3>1, ConstantsTyped
  <2>2. \A c \in AllCands(loaded) : c[1] \in Files
    BY AllCandsTyped DEF PassInv, RewriterType
  <2>3. \A f \in Files : f < file
    BY <2>1, ConstantsTyped
  <2> QED
    BY <2>2, <2>3 DEF Visited
<1>4. MutsReal' /\ IdentityFixed'
  BY <1>1 DEF PassInv, MutsReal, IdentityFixed
<1>5. /\ { m.cand : m \in muts } = Kept(AllCands(loaded))
      /\ ignored = Cardinality(Ignored(AllCands(loaded)))
      /\ accepted \ matched = accepted \ Prints(AllCands(loaded))
  BY <1>1, <1>3 DEF PassInv, SettledSoFar
<1>6. EverythingSettled'
  <2> DEFINE scope == {c \in AllCands(loaded) : InScope(opts, c)}
  <2>1. {c \in scope : ~Suppressed(c)} = Kept(AllCands(loaded))
    BY DEF Kept
  <2>2. {c \in scope : Suppressed(c)} = Ignored(AllCands(loaded))
    BY DEF Ignored
  <2>3. {FingerprintOf(loaded, c) : c \in AllCands(loaded)} = Prints(AllCands(loaded))
    BY DEF Prints
  <2>4. /\ { m.cand : m \in muts } = {c \in scope : ~Suppressed(c)}
        /\ ignored = Cardinality({c \in scope : Suppressed(c)})
        /\ accepted \ matched = accepted \ {FingerprintOf(loaded, c) : c \in AllCands(loaded)}
    BY <1>5, <2>1, <2>2, <2>3
  <2> QED
    BY <1>1, <2>4 DEF EverythingSettled, InScope, Suppressed
<1> QED
  BY <1>1, <1>2, <1>4, <1>6 DEF PassInv, InOrder, Counted, SettledSoFar

LEMMA FinishFailedPass ==
  ASSUME PassInv, Finish, Fail
  PROVE  PassInv'
<1>1. /\ pkg' = pkg /\ ignoreFile' = ignoreFile /\ judged' = judged /\ edits' = edits
      /\ loaded' = loaded /\ accepted' = accepted /\ opts' = opts
      /\ phase' = "idle" /\ outcome' = "error" /\ muts' = {}
  BY DEF Finish, Fail, diskVars
<1>2. RewriterType'
  BY <1>1 DEF PassInv, RewriterType, Entries
<1> QED
  BY <1>1, <1>2, FailedPass

-----------------------------------------------------------------------------
(* Names of lines *)

\* Lines of one name are lines of one file and one function.
SameScope(p, q) ==
  \A f, g \in Files : \A i \in DOMAIN p[f], k \in DOMAIN q[g] :
    p[f][i].uid = q[g][k].uid => f = g /\ p[f][i].decl = q[g][k].decl

\* Names of lines still to be inserted are free.
NamesBelow(p, n) == \A f \in Files : \A i \in DOMAIN p[f] : p[f][i].uid < n

\* What was judged, and that its line, wherever it is now, lies in the scope
\* that was judged.
JudgedAs(j) ==
  /\ j.fp = <<j.fp[1], j.fp[2]>>
  /\ j.at = <<j.at[1], j.at[2], j.at[3]>>
  /\ j.fp[1] = <<j.fp[1][1], j.at[1], j.at[3], j.text, j.at[2]>>

JudgedIn(p, j) ==
  \A f \in Files : \A i \in DOMAIN p[f] :
    p[f][i].uid = j.uid => j.fp[1][1] = ScopeOf(f, p[f][i])

LinesInv ==
  /\ SameScope(pkg, pkg) /\ SameScope(loaded, pkg) /\ SameScope(loaded, loaded)
  /\ NamesBelow(pkg, FirstUid + edits) /\ NamesBelow(loaded, FirstUid + edits)
  /\ \A j \in judged :
       /\ j.uid \in Nat /\ j.uid < FirstUid + edits
       /\ JudgedAs(j) /\ JudgedIn(pkg, j) /\ JudgedIn(loaded, j)

-----------------------------------------------------------------------------
(* Edits and .kanlyignore *)

\* Every line after an edit is a line from before the edit, under its name and
\* in its function, or the one line inserted.
EditedTo(f, d) ==
  \A g \in Files : \A k \in DOMAIN pkg'[g] :
    \/ \E i \in DOMAIN pkg[g] : /\ pkg'[g][k].uid = pkg[g][i].uid
                                /\ pkg'[g][k].decl = pkg[g][i].decl
    \/ g = f /\ pkg'[g][k].uid = FirstUid + edits /\ pkg'[g][k].decl = d

LEMMA InsertLines ==
  ASSUME pkg \in Pkgs, edits \in Nat,
         NEW f \in Files, NEW i \in 0 .. Len(pkg[f]), NEW ln \in NewLines, Insert(f, i, ln)
  PROVE  pkg' \in Pkgs /\ EditedTo(f, ln.decl)
<1> DEFINE s   == pkg[f]
           new == [ln EXCEPT !.uid = FirstUid + edits]
           R   == { s[k] : k \in DOMAIN s }
           S   == R \cup {new}
           t   == SubSeq(s, 1, i) \o <<new>> \o SubSeq(s, i + 1, Len(s))
<1>1. pkg' = [pkg EXCEPT ![f] = t]
  BY DEF Insert, Edited
<1>2. s \in Seq(Lines) /\ Len(s) \in Nat /\ DOMAIN s = 1 .. Len(s) /\ R \subseteq Lines
  BY DEF Pkgs
<1>3. /\ new \in Lines /\ new.uid = FirstUid + edits /\ new.decl = ln.decl
  <2>1. ln \in Lines
    BY RewriterAssumption
  <2> QED
    BY <2>1 DEF Lines, FirstUid
<1>4. i \in Int /\ i <= Len(s) /\ i >= 0
  BY <1>2
<1>5. t \in Seq(S)
  <2> HIDE DEF new
  <2>1. \A k \in 1 .. i : s[k] \in S
    BY <1>2, <1>4
  <2>2. \A k \in i + 1 .. Len(s) : s[k] \in S
    BY <1>2, <1>4
  <2> HIDE DEF S, s
  <2>3. SubSeq(s, 1, i) \in Seq(S)
    BY <1>4, <2>1, SubSeqProperties
  <2>4. SubSeq(s, i + 1, Len(s)) \in Seq(S)
    BY <1>2, <1>4, <2>2, SubSeqProperties
  <2>5. <<new>> \in Seq(S)
    BY DEF S
  <2>6. SubSeq(s, 1, i) \o <<new>> \in Seq(S)
    BY <2>3, <2>5, ConcatProperties
  <2> QED
    BY <2>4, <2>6, ConcatProperties
<1> HIDE DEF t, new
<1>6. S \subseteq Lines
  BY <1>2, <1>3
<1>7. t \in Seq(Lines)
  BY <1>5, <1>6, SeqMonotonic
<1>8. pkg' \in Pkgs
  BY <1>1, <1>7 DEF Pkgs
<1>9. ASSUME NEW g \in Files, NEW k \in DOMAIN pkg'[g]
      PROVE  \/ \E j \in DOMAIN pkg[g] : /\ pkg'[g][k].uid = pkg[g][j].uid
                                         /\ pkg'[g][k].decl = pkg[g][j].decl
             \/ g = f /\ pkg'[g][k].uid = FirstUid + edits /\ pkg'[g][k].decl = ln.decl
  <2>1. CASE g # f
    <3>1. pkg'[g] = pkg[g]
      BY <1>1, <2>1 DEF Pkgs
    <3> QED
      BY <1>9, <3>1
  <2>2. CASE g = f
    <3>1. pkg'[g] = t
      BY <1>1, <2>2 DEF Pkgs
    <3>2. t[k] \in S
      BY <1>5, <1>9, <3>1
    <3>3. CASE t[k] = new
      BY <1>3, <2>2, <3>1, <3>3
    <3>4. CASE t[k] \in R
      <4>1. PICK j \in DOMAIN s : t[k] = s[j]
        BY <3>4
      <4> QED
        BY <2>2, <3>1, <4>1
    <3> QED
      BY <3>2, <3>3, <3>4
  <2> QED
    BY <2>1, <2>2
<1> QED
  BY <1>8, <1>9 DEF EditedTo

\* Rewriting one line keeps the names and functions of all.
LEMMA ChangeLines ==
  ASSUME pkg \in Pkgs, NEW f \in Files, NEW i \in DOMAIN pkg[f], NEW ln \in Lines,
         ln.uid = pkg[f][i].uid, ln.decl = pkg[f][i].decl,
         pkg' = [pkg EXCEPT ![f] = [@ EXCEPT ![i] = ln]]
  PROVE  pkg' \in Pkgs /\ \A d : EditedTo(f, d)
<1> DEFINE t == [pkg[f] EXCEPT ![i] = ln]
<1>1. pkg[f] \in Seq(Lines) /\ DOMAIN pkg[f] = 1 .. Len(pkg[f])
  BY DEF Pkgs
<1>2. /\ t \in Seq(Lines) /\ Len(t) = Len(pkg[f])
      /\ \A k \in 1 .. Len(pkg[f]) : t[k] = IF k = i THEN ln ELSE pkg[f][k]
  BY <1>1, ExceptSeq
<1>3. DOMAIN t = DOMAIN pkg[f]
  BY <1>1, <1>2
<1>4. pkg' = [pkg EXCEPT ![f] = t]
  OBVIOUS
<1> HIDE DEF t
<1>5. pkg' \in Pkgs
  BY <1>2, <1>4 DEF Pkgs
<1>6. \A g \in Files : pkg'[g] = IF g = f THEN t ELSE pkg[g]
  BY <1>4 DEF Pkgs
<1>7. ASSUME NEW g \in Files, NEW k \in DOMAIN pkg'[g]
      PROVE  \E j \in DOMAIN pkg[g] : /\ pkg'[g][k].uid = pkg[g][j].uid
                                      /\ pkg'[g][k].decl = pkg[g][j].decl
  <2>1. k \in DOMAIN pkg[g]
    BY <1>3, <1>6, <1>7
  <2>2. pkg'[g][k].uid = pkg[g][k].uid /\ pkg'[g][k].decl = pkg[g][k].decl
    <3>1. CASE g = f /\ k = i
      BY <1>1, <1>2, <1>6, <2>1, <3>1
    <3>2. CASE g = f /\ k # i
      BY <1>1, <1>2, <1>6, <2>1, <3>2
    <3>3. CASE g # f
      BY <1>6, <3>3
    <3> QED
      BY <3>1, <3>2, <3>3
  <2> QED
    BY <2>1, <2>2
<1> QED
  BY <1>5, <1>7 DEF EditedTo

LEMMA RetypeLines ==
  ASSUME pkg \in Pkgs, NEW f \in Files, NEW i \in DOMAIN pkg[f], NEW t \in Texts, Retype(f, i, t)
  PROVE  pkg' \in Pkgs /\ \A d : EditedTo(f, d)
<1> DEFINE ln == [pkg[f][i] EXCEPT !.text = t]
<1>1. pkg[f][i] \in Lines
  BY DEF Pkgs
<1>2. ln \in Lines /\ ln.uid = pkg[f][i].uid /\ ln.decl = pkg[f][i].decl
  BY <1>1 DEF Lines
<1>3. pkg' = [pkg EXCEPT ![f] = [@ EXCEPT ![i] = ln]]
  BY DEF Retype, Edited
<1> HIDE DEF ln
<1> QED
  BY <1>2, <1>3, ChangeLines

LEMMA ReindentLines ==
  ASSUME pkg \in Pkgs, NEW f \in Files, NEW i \in DOMAIN pkg[f], Reindent(f, i)
  PROVE  pkg' \in Pkgs /\ \A d : EditedTo(f, d)
<1> DEFINE ln == [pkg[f][i] EXCEPT !.indent = 1 - pkg[f][i].indent]
<1>1. pkg[f][i] \in Lines
  BY DEF Pkgs
<1>2. 1 - pkg[f][i].indent \in {0, 1}
  BY <1>1 DEF Lines
<1>3. ln \in Lines /\ ln.uid = pkg[f][i].uid /\ ln.decl = pkg[f][i].decl
  BY <1>1, <1>2 DEF Lines
<1>4. pkg' = [pkg EXCEPT ![f] = [@ EXCEPT ![i] = ln]]
  BY DEF Reindent, Edited
<1> HIDE DEF ln
<1> QED
  BY <1>3, <1>4, ChangeLines

\* Between runs nothing of the last pass changes.
LEMMA IdlePass ==
  ASSUME PassInv, Idle, RewriterType'
  PROVE  PassInv'
<1>1. /\ phase = "idle" /\ phase' = phase /\ opts' = opts /\ loaded' = loaded
      /\ accepted' = accepted /\ muts' = muts /\ ignored' = ignored
      /\ outcome' = outcome /\ stale' = stale
  BY DEF Idle, passVars
<1>2. MutsReal' /\ IdentityFixed'
  BY <1>1 DEF PassInv, MutsReal, IdentityFixed
<1>3. EverythingSettled'
  BY <1>1 DEF PassInv, EverythingSettled, InScope, Suppressed
<1> QED
  BY <1>1, <1>2, <1>3 DEF PassInv, InOrder, Counted, SettledSoFar

\* A scope is that of the function or the file, whatever else is on the line.
LEMMA ScopeByDecl ==
  ASSUME NEW f, NEW a, NEW b, a.decl = b.decl
  PROVE  ScopeOf(f, a) = ScopeOf(f, b)
BY DEF ScopeOf, FuncName

LEMMA EditInv ==
  ASSUME PassInv, LinesInv, Idle, edits' = edits + 1,
         UNCHANGED <<ignoreFile, judged>>, pkg' \in Pkgs, NEW f \in Files, NEW d, EditedTo(f, d)
  PROVE  PassInv' /\ LinesInv'
<1> DEFINE top == FirstUid + edits
<1>1. /\ phase = "idle" /\ phase' = phase /\ loaded' = loaded /\ accepted' = accepted
      /\ judged' = judged /\ ignoreFile' = ignoreFile
  BY DEF Idle
<1>2. RewriterType'
  BY <1>1 DEF PassInv, RewriterType, Entries
<1>3. PassInv'
  BY <1>2, IdlePass
<1>4. pkg \in Pkgs /\ loaded \in Pkgs /\ edits \in Nat /\ top \in Nat /\ FirstUid + edits' = top + 1
  BY DEF PassInv, RewriterType, FirstUid
<1>5. \A p \in Pkgs : \A g \in Files : \A k \in DOMAIN p[g] : p[g][k].uid \in Nat
  <2>1. \A p \in Pkgs : \A g \in Files : \A k \in DOMAIN p[g] : p[g][k] \in Lines
    BY DEF Pkgs
  <2> QED
    BY <2>1 DEF Lines
<1>6. NamesBelow(pkg, top) /\ NamesBelow(loaded, top)
  BY DEF LinesInv
<1> HIDE DEF top
<1>7. ASSUME NEW g \in Files, NEW k \in DOMAIN pkg'[g]
      PROVE  \/ \E i \in DOMAIN pkg[g] : /\ pkg'[g][k].uid = pkg[g][i].uid
                                         /\ pkg'[g][k].decl = pkg[g][i].decl
             \/ g = f /\ pkg'[g][k].uid = top /\ pkg'[g][k].decl = d
  BY <1>7 DEF EditedTo, top
<1>8. NamesBelow(pkg', top + 1)
  BY <1>4, <1>5, <1>6, <1>7 DEF NamesBelow
<1>9. NamesBelow(loaded, top + 1)
  BY <1>4, <1>5, <1>6 DEF NamesBelow
<1>10. SameScope(loaded, pkg')
  <2> SUFFICES ASSUME NEW g \in Files, NEW h \in Files,
                      NEW i \in DOMAIN loaded[g], NEW k \in DOMAIN pkg'[h],
                      loaded[g][i].uid = pkg'[h][k].uid
               PROVE  g = h /\ loaded[g][i].decl = pkg'[h][k].decl
    BY DEF SameScope
  <2>1. loaded[g][i].uid # top
    BY <1>4, <1>5, <1>6 DEF NamesBelow
  <2>2. PICK l \in DOMAIN pkg[h] : /\ pkg'[h][k].uid = pkg[h][l].uid
                                   /\ pkg'[h][k].decl = pkg[h][l].decl
    BY <1>7, <2>1
  <2> QED
    BY <2>2 DEF LinesInv, SameScope
<1>11. SameScope(pkg', pkg')
  <2> SUFFICES ASSUME NEW g \in Files, NEW h \in Files,
                      NEW i \in DOMAIN pkg'[g], NEW k \in DOMAIN pkg'[h],
                      pkg'[g][i].uid = pkg'[h][k].uid
               PROVE  g = h /\ pkg'[g][i].decl = pkg'[h][k].decl
    BY DEF SameScope
  <2>1. \A x \in Files : \A l \in DOMAIN pkg[x] : pkg[x][l].uid # top
    BY <1>4, <1>5, <1>6 DEF NamesBelow
  <2>2. CASE pkg'[g][i].uid = top
    BY <1>7, <2>1, <2>2
  <2>3. CASE pkg'[g][i].uid # top
    <3>1. PICK l \in DOMAIN pkg[g] : /\ pkg'[g][i].uid = pkg[g][l].uid
                                     /\ pkg'[g][i].decl = pkg[g][l].decl
      BY <1>7, <2>3
    <3>2. PICK n \in DOMAIN pkg[h] : /\ pkg'[h][k].uid = pkg[h][n].uid
                                     /\ pkg'[h][k].decl = pkg[h][n].decl
      BY <1>7, <2>3
    <3>3. pkg[g][l].uid = pkg[h][n].uid
      BY <3>1, <3>2
    <3>4. g = h /\ pkg[g][l].decl = pkg[h][n].decl
      <4>1. SameScope(pkg, pkg)
        BY DEF LinesInv
      <4> QED
        BY <3>3, <4>1 DEF SameScope
    <3> QED
      BY <3>1, <3>2, <3>4
  <2> QED
    BY <2>2, <2>3
<1>12. ASSUME NEW j \in judged
       PROVE  /\ j.uid \in Nat /\ j.uid < top + 1
              /\ JudgedAs(j) /\ JudgedIn(pkg', j) /\ JudgedIn(loaded, j)
  <2>1. /\ j.uid \in Nat /\ j.uid < top
        /\ JudgedAs(j) /\ JudgedIn(pkg, j) /\ JudgedIn(loaded, j)
    BY <1>12 DEF LinesInv, top
  <2>2. j.uid < top + 1 /\ j.uid # top
    BY <1>4, <2>1
  <2>3. ASSUME NEW g \in Files, NEW k \in DOMAIN pkg'[g], pkg'[g][k].uid = j.uid
        PROVE  j.fp[1][1] = ScopeOf(g, pkg'[g][k])
    <3>1. PICK l \in DOMAIN pkg[g] : /\ pkg'[g][k].uid = pkg[g][l].uid
                                     /\ pkg'[g][k].decl = pkg[g][l].decl
      BY <1>7, <2>2, <2>3
    <3>2. j.fp[1][1] = ScopeOf(g, pkg[g][l])
      BY <2>1, <2>3, <3>1 DEF JudgedIn
    <3> QED
      BY <3>1, <3>2, ScopeByDecl
  <2> QED
    BY <2>1, <2>2, <2>3 DEF JudgedIn
<1>13. LinesInv'
  <2>1. SameScope(loaded, loaded)
    BY DEF LinesInv
  <2> QED
    BY <1>1, <1>4, <1>8, <1>9, <1>10, <1>11, <1>12, <2>1 DEF LinesInv
<1> QED
  BY <1>3, <1>13

\* A mutant that is accepted is judged where it is.
LEMMA AcceptInv ==
  ASSUME PassInv, LinesInv, NEW m \in muts, Accept(m)
  PROVE  PassInv' /\ LinesInv'
<1> DEFINE c == m.cand
           ln == loaded[c[1]][c[3]]
           new == [fp |-> m.fp, uid |-> ln.uid, text |-> ln.text, at |-> <<c[2], c[4], c[5]>>]
<1>1. /\ Idle /\ ignoreFile' = Append(ignoreFile, m.fp) /\ judged' = judged \cup {new}
      /\ pkg' = pkg /\ edits' = edits
  BY DEF Accept
<1>2. /\ phase = "idle" /\ phase' = phase /\ loaded' = loaded /\ accepted' = accepted
  BY <1>1 DEF Idle
<1>3. /\ pkg \in Pkgs /\ loaded \in Pkgs /\ edits \in Nat
      /\ ignoreFile \in Seq(Entries) /\ accepted \subseteq Entries
      /\ c \in AllCands(loaded) /\ m.fp = FingerprintOf(loaded, c)
  BY DEF PassInv, RewriterType, MutsReal, IdentityFixed
<1>4. c[1] \in Files /\ c[3] \in DOMAIN loaded[c[1]]
  BY <1>3, AllCandsTyped
<1>5. ln \in Lines /\ ln.uid \in Nat
  <2>1. ln \in Lines
    BY <1>3, <1>4 DEF Pkgs
  <2> HIDE DEF ln
  <2> QED
    BY <2>1 DEF Lines
<1>6. /\ new.fp = m.fp /\ new.uid = ln.uid /\ new.text = ln.text
      /\ new.at = <<c[2], c[4], c[5]>>
  OBVIOUS
<1>7. Bare(loaded, c) = << ScopeOf(c[1], ln), c[2], c[5], ln.text, c[4] >>
  BY <1>3, BareValue
<1>8. PICK n : m.fp = <<Bare(loaded, c), n>>
  BY <1>3 DEF FingerprintOf
<1> HIDE DEF new, ln, c
<1>9. RewriterType'
  <2>1. Entries \subseteq Entries' /\ m.fp \in Entries'
    BY <1>1, <1>6 DEF Entries
  <2>2. ignoreFile \in Seq(Entries')
    BY <1>3, <2>1, SeqMonotonic
  <2>3. ignoreFile' \in Seq(Entries')
    BY <1>1, <2>1, <2>2
  <2> QED
    BY <1>1, <1>2, <1>3, <2>1, <2>3 DEF RewriterType
<1>10. PassInv'
  BY <1>1, <1>9, IdlePass
<1>11. JudgedAs(new)
  <2>1. m.fp[1] = Bare(loaded, c) /\ m.fp = <<m.fp[1], m.fp[2]>>
    BY <1>8
  <2>2. m.fp[1] = << m.fp[1][1], c[2], c[5], ln.text, c[4] >>
    BY <1>7, <2>1
  <2>3. new.at = <<new.at[1], new.at[2], new.at[3]>>
    BY <1>6
  <2>4. new.at[1] = c[2] /\ new.at[2] = c[4] /\ new.at[3] = c[5]
    BY <1>6
  <2> QED
    BY <1>6, <2>1, <2>2, <2>3, <2>4 DEF JudgedAs
<1>12. new.fp[1][1] = ScopeOf(c[1], ln)
  BY <1>6, <1>7, <1>8
<1>13. ASSUME NEW p, SameScope(loaded, p)
       PROVE  JudgedIn(p, new)
  <2> SUFFICES ASSUME NEW g \in Files, NEW k \in DOMAIN p[g], p[g][k].uid = ln.uid
               PROVE  ScopeOf(c[1], ln) = ScopeOf(g, p[g][k])
    BY <1>6, <1>12 DEF JudgedIn
  <2>1. c[1] = g /\ ln.decl = p[g][k].decl
    BY <1>4, <1>13 DEF SameScope, ln
  <2> QED
    BY <2>1, ScopeByDecl
<1>14. JudgedIn(pkg, new) /\ JudgedIn(loaded, new)
  BY <1>13 DEF LinesInv
<1>15. new.uid \in Nat /\ new.uid < FirstUid + edits
  BY <1>4, <1>5, <1>6 DEF LinesInv, NamesBelow, ln
<1>16. LinesInv'
  BY <1>1, <1>2, <1>11, <1>14, <1>15 DEF LinesInv
<1> QED
  BY <1>10, <1>16

\* Lines of .kanlyignore that are added by hand or removed.
LEMMA IgnoreFileInv ==
  ASSUME PassInv, LinesInv, Idle, UNCHANGED <<pkg, judged, edits>>,
         ignoreFile' \in Seq(Entries)
  PROVE  PassInv' /\ LinesInv'
<1>1. /\ phase = "idle" /\ phase' = phase /\ loaded' = loaded /\ accepted' = accepted
      /\ judged' = judged /\ pkg' = pkg /\ edits' = edits
  BY DEF Idle
<1>2. RewriterType'
  BY <1>1 DEF PassInv, RewriterType, Entries
<1>3. PassInv'
  BY <1>2, IdlePass
<1>4. LinesInv'
  BY <1>1 DEF LinesInv
<1> QED
  BY <1>3, <1>4

LEMMA SpoilInv ==
  ASSUME PassInv, LinesInv, NEW line \in Listed \cup {Malformed}, Spoil(line)
  PROVE  PassInv' /\ LinesInv'
<1>1. Idle /\ ignoreFile' = Append(ignoreFile, line) /\ UNCHANGED <<pkg, judged, edits>>
  BY DEF Spoil
<1>2. ignoreFile \in Seq(Entries)
  BY DEF PassInv, RewriterType
<1>3. line \in Entries
  BY <1>2 DEF Listed, Entries
<1>4. ignoreFile' \in Seq(Entries)
  BY <1>1, <1>2, <1>3
<1> QED
  BY <1>1, <1>4, IgnoreFileInv

LEMMA PruneInv ==
  ASSUME PassInv, LinesInv, NEW i \in DOMAIN ignoreFile, Prune(i)
  PROVE  PassInv' /\ LinesInv'
<1> DEFINE n == Len(ignoreFile)
<1>1. /\ Idle /\ UNCHANGED <<pkg, judged, edits>>
      /\ ignoreFile' = SubSeq(ignoreFile, 1, i - 1) \o SubSeq(ignoreFile, i + 1, n)
  BY DEF Prune
<1>2. ignoreFile \in Seq(Entries) /\ n \in Nat /\ DOMAIN ignoreFile = 1 .. n
  BY DEF PassInv, RewriterType
<1> HIDE DEF n
<1>3. \A k \in 1 .. n : ignoreFile[k] \in Entries
  BY <1>2
<1>4. SubSeq(ignoreFile, 1, i - 1) \in Seq(Entries)
  BY <1>2, <1>3, SubSeqProperties
<1>5. SubSeq(ignoreFile, i + 1, n) \in Seq(Entries)
  BY <1>2, <1>3, SubSeqProperties
<1>6. ignoreFile' \in Seq(Entries)
  BY <1>1, <1>4, <1>5, ConcatProperties
<1> QED
  BY <1>1, <1>6, IgnoreFileInv

-----------------------------------------------------------------------------
(* What is proved *)

LEMMA InitLines == Init => LinesInv
<1> SUFFICES ASSUME Init PROVE LinesInv
  OBVIOUS
<1>1. pkg \in Packages /\ loaded = pkg /\ judged = {} /\ edits = 0
  BY DEF Init
<1>2. FirstUid + edits = FirstUid
  BY <1>1 DEF FirstUid
<1>3. SameScope(pkg, pkg) /\ NamesBelow(pkg, FirstUid)
  BY <1>1, UidsAssumption DEF SameScope, NamesBelow
<1> QED
  BY <1>1, <1>2, <1>3 DEF LinesInv

\* A pass reads the package and writes nothing.
LEMMA PassLines ==
  ASSUME LinesInv, UNCHANGED diskVars, loaded' \in {loaded, pkg}
  PROVE  LinesInv'
<1>1. pkg' = pkg /\ judged' = judged /\ edits' = edits
  BY DEF diskVars
<1>2. CASE loaded' = loaded
  BY <1>1, <1>2 DEF LinesInv
<1>3. CASE loaded' = pkg
  BY <1>1, <1>3 DEF LinesInv
<1> QED
  BY <1>2, <1>3

LEMMA RewriterStep == PassInv /\ LinesInv /\ [Next]_vars => PassInv' /\ LinesInv'
<1> SUFFICES ASSUME PassInv, LinesInv, [Next]_vars PROVE PassInv' /\ LinesInv'
  OBVIOUS
<1>1. ASSUME NEW o \in Scopes, Start(o) PROVE PassInv' /\ LinesInv'
  BY <1>1, StartPass, PassLines DEF Start
<1>2. CASE OpenFile
  BY <1>2, OpenPass, PassLines DEF OpenFile
<1>3. ASSUME NEW c \in todo, Visit(c) PROVE PassInv' /\ LinesInv'
  <2>1. UNCHANGED diskVars /\ loaded' = loaded
    BY <1>3 DEF Visit
  <2> QED
    BY <1>3, <2>1, VisitPass, PassLines
<1>4. CASE CloseFile
  BY <1>4, ClosePass, PassLines DEF CloseFile
<1>5. CASE Finish
  BY <1>5, FinishPass, FinishFailedPass, PassLines DEF Finish
<1>6. pkg \in Pkgs /\ edits \in Nat
  BY DEF PassInv, RewriterType
<1>7. ASSUME NEW f \in Files, NEW i \in 0 .. Len(pkg[f]), NEW ln \in NewLines, Insert(f, i, ln)
      PROVE  PassInv' /\ LinesInv'
  <2>1. pkg' \in Pkgs /\ EditedTo(f, ln.decl)
    BY <1>6, <1>7, InsertLines
  <2>2. Idle /\ edits' = edits + 1 /\ UNCHANGED <<ignoreFile, judged>>
    BY <1>7 DEF Insert, Edited
  <2> QED
    BY <2>1, <2>2, EditInv
<1>8. ASSUME NEW f \in Files, NEW i \in DOMAIN pkg[f], NEW t \in Texts, Retype(f, i, t)
      PROVE  PassInv' /\ LinesInv'
  <2>1. pkg' \in Pkgs /\ EditedTo(f, FileScope)
    BY <1>6, <1>8, RetypeLines
  <2>2. Idle /\ edits' = edits + 1 /\ UNCHANGED <<ignoreFile, judged>>
    BY <1>8 DEF Retype, Edited
  <2> QED
    BY <2>1, <2>2, EditInv
<1>9. ASSUME NEW f \in Files, NEW i \in DOMAIN pkg[f], Reindent(f, i)
      PROVE  PassInv' /\ LinesInv'
  <2>1. pkg' \in Pkgs /\ EditedTo(f, FileScope)
    BY <1>6, <1>9, ReindentLines
  <2>2. Idle /\ edits' = edits + 1 /\ UNCHANGED <<ignoreFile, judged>>
    BY <1>9 DEF Reindent, Edited
  <2> QED
    BY <2>1, <2>2, EditInv
<1>10. ASSUME NEW m \in muts, Accept(m) PROVE PassInv' /\ LinesInv'
  BY <1>10, AcceptInv
<1>11. ASSUME NEW line \in Listed \cup {Malformed}, Spoil(line) PROVE PassInv' /\ LinesInv'
  BY <1>11, SpoilInv
<1>12. ASSUME NEW i \in DOMAIN ignoreFile, Prune(i) PROVE PassInv' /\ LinesInv'
  BY <1>12, PruneInv
<1>13. CASE UNCHANGED vars
  <2>1. /\ UNCHANGED diskVars /\ loaded' = loaded /\ opts' = opts /\ accepted' = accepted
        /\ phase' = phase /\ file' = file /\ todo' = todo /\ outcome' = outcome /\ stale' = stale
        /\ UNCHANGED passVars
    BY <1>13 DEF vars
  <2>2. LinesInv'
    BY <2>1, PassLines
  <2>3. RewriterType'
    BY <2>1 DEF PassInv, RewriterType, Entries, diskVars
  <2>4. CASE phase = "idle"
    <3>1. Idle
      BY <2>1, <2>4 DEF Idle
    <3> QED
      BY <2>2, <2>3, <3>1, IdlePass
  <2>5. CASE phase # "idle"
    <3>1. Visited' = Visited /\ InOrder' /\ outcome' = "none"
      BY <2>1, <2>5 DEF PassInv, RewriterType, Visited, InOrder
    <3> QED
      BY <2>1, <2>2, <2>3, <2>5, <3>1, SamePass
  <2> QED
    BY <2>4, <2>5
<1> QED
  BY <1>1, <1>2, <1>3, <1>4, <1>5, <1>7, <1>8, <1>9, <1>10, <1>11, <1>12, <1>13 DEF Next

\* The invariant of the pass and of the names of lines.
THEOREM RewriterInvAlways == Spec => [](PassInv /\ LinesInv)
<1>1. Init => PassInv /\ LinesInv
  BY InitPass, InitLines
<1> QED
  BY <1>1, RewriterStep, PTL DEF Spec

\* Whatever a run leaves out, a mutant's ID and fingerprint are those of its
\* place in the package, for every package, operator set and scope.
THEOREM IdentityFixedAlways == Spec => []IdentityFixed
<1>1. PassInv /\ LinesInv => IdentityFixed
  BY DEF PassInv
<1> QED
  BY <1>1, RewriterInvAlways, PTL

\* A run that ends well has settled every candidate of the package once.
THEOREM EverythingSettledAlways == Spec => []EverythingSettled
<1>1. PassInv /\ LinesInv => EverythingSettled
  BY DEF PassInv
<1> QED
  BY <1>1, RewriterInvAlways, PTL

\* A candidate nothing in the package reads like has number one.
LEMMA AloneIsFirst ==
  ASSUME NEW p \in Pkgs, NEW c \in AllCands(p), Twins(p, c) = {c}
  PROVE  FingerprintOf(p, c) = <<Bare(p, c), 1>>
<1>1. {d \in Twins(p, c) : Before(d, c)} = {}
  BY AllCandsTyped, BeforeOrder
<1> QED
  BY <1>1, FS_EmptySet DEF FingerprintOf

\* What a judgement suppresses, and what it does not let through.
LEMMA JudgementsFollowInv ==
  ASSUME PassInv, LinesInv
  PROVE  JudgementsFollow
<1> SUFFICES ASSUME outcome = "ok" PROVE JudgementsFollow
  BY DEF JudgementsFollow
<1>1. loaded \in Pkgs /\ accepted \subseteq Entries
  BY DEF PassInv, RewriterType
<1>2. ASSUME NEW j \in judged, NEW m \in muts,
             j.fp \in accepted, j.fp[2] = 1,
             loaded[m.cand[1]][m.cand[3]].uid = j.uid,
             loaded[m.cand[1]][m.cand[3]].text = j.text,
             j.at = <<m.cand[2], m.cand[4], m.cand[5]>>,
             Twins(loaded, m.cand) = {m.cand}
      PROVE  FALSE
  <2> DEFINE c == m.cand
             ln == loaded[c[1]][c[3]]
  <2>1. c \in AllCands(loaded)
    BY DEF PassInv, MutsReal
  <2>2. c[1] \in Files /\ c[3] \in DOMAIN loaded[c[1]]
    BY <1>1, <2>1, AllCandsTyped
  <2>3. j.fp[1][1] = ScopeOf(c[1], ln)
    BY <1>2, <2>2 DEF LinesInv, JudgedIn
  <2>4. j.fp[1] = << ScopeOf(c[1], ln), c[2], c[5], ln.text, c[4] >>
    <3>1. j.fp[1] = <<j.fp[1][1], j.at[1], j.at[3], j.text, j.at[2]>>
      BY DEF LinesInv, JudgedAs
    <3>2. j.at[1] = c[2] /\ j.at[2] = c[4] /\ j.at[3] = c[5] /\ j.text = ln.text
      BY <1>2
    <3> HIDE DEF c, ln
    <3> QED
      BY <2>3, <3>1, <3>2
  <2>5. j.fp[1] = Bare(loaded, c)
    BY <1>1, <2>1, <2>4, BareValue
  <2>6. j.fp = FingerprintOf(loaded, c)
    <3>1. FingerprintOf(loaded, c) = <<Bare(loaded, c), 1>>
      BY <1>1, <1>2, <2>1, AloneIsFirst
    <3>2. j.fp = <<j.fp[1], j.fp[2]>>
      BY DEF LinesInv, JudgedAs
    <3> QED
      BY <1>2, <2>5, <3>1, <3>2
  <2>7. ~Suppressed(c)
    BY DEF PassInv, EverythingSettled
  <2> QED
    BY <1>2, <2>6, <2>7 DEF Suppressed
<1>3. ASSUME NEW c \in AllCands(loaded), FingerprintOf(loaded, c) \in accepted
      PROVE  \E j \in judged : /\ j.text = loaded[c[1]][c[3]].text
                               /\ j.at = <<c[2], c[4], c[5]>>
  <2> DEFINE ln == loaded[c[1]][c[3]]
  <2>1. PICK n : FingerprintOf(loaded, c) = <<Bare(loaded, c), n>>
    BY DEF FingerprintOf
  <2>2. FingerprintOf(loaded, c) # Malformed
    BY <2>1 DEF Malformed
  <2>3. PICK j \in judged : FingerprintOf(loaded, c) = j.fp
    BY <1>1, <1>3, <2>2 DEF Entries
  <2>4. j.fp[1] = << ScopeOf(c[1], ln), c[2], c[5], ln.text, c[4] >>
    BY <1>1, <2>1, <2>3, BareValue
  <2>5. j.fp[1] = <<j.fp[1][1], j.at[1], j.at[3], j.text, j.at[2]>>
    BY DEF LinesInv, JudgedAs
  <2>6. j.text = ln.text /\ j.at[1] = c[2] /\ j.at[2] = c[4] /\ j.at[3] = c[5]
    <3> HIDE DEF ln
    <3> QED
      BY <2>4, <2>5
  <2>7. j.at = <<j.at[1], j.at[2], j.at[3]>>
    BY DEF LinesInv, JudgedAs
  <2> QED
    BY <2>6, <2>7
<1> QED
  BY <1>2, <1>3 DEF JudgementsFollow

\* The judgement of a mutant outlives edits elsewhere and is void after an edit
\* of its own line, for every package and however many edits.
THEOREM JudgementsFollowAlways == Spec => []JudgementsFollow
<1>1. PassInv /\ LinesInv => JudgementsFollow
  BY JudgementsFollowInv
<1> QED
  BY <1>1, RewriterInvAlways, PTL

LEMMA FoundAgainInv ==
  ASSUME PassInv, LinesInv
  PROVE  FoundAgain
<1> SUFFICES ASSUME outcome = "ok", NEW m \in muts
             PROVE  /\ Cardinality(FindMutants(pkg, m.fp)) <= 1
                    /\ \A c \in AllCands(pkg) :
                         Still(m, c) /\ Twins(pkg, c) = {c} /\ m.fp[2] = 1 =>
                           FindMutants(pkg, m.fp)
                             = IF Rewrites(pkg) /\ ~Covers(pkg, c[1], c[2], c[3]) THEN {c} ELSE {}
  BY DEF FoundAgain
<1> DEFINE found == FindMutants(pkg, m.fp)
<1>1. pkg \in Pkgs /\ loaded \in Pkgs
  BY DEF PassInv, RewriterType
<1>2. m.cand \in AllCands(loaded) /\ m.fp = FingerprintOf(loaded, m.cand)
  BY DEF PassInv, MutsReal, IdentityFixed
<1>3. \A x \in found : x \in AllCands(pkg) /\ FingerprintOf(pkg, x) = m.fp
  BY DEF FindMutants, Fresh
<1>4. \A x, y \in found : x = y
  BY <1>1, <1>3, FingerprintInjective
<1>5. Cardinality(found) <= 1
  <2> HIDE DEF found
  <2>1. CASE found = {}
    BY <2>1, FS_EmptySet
  <2>2. CASE found # {}
    <3>1. PICK x : found = {x}
      BY <1>4, <2>2
    <3>2. Cardinality({x}) = 1
      BY FS_Singleton
    <3> QED
      BY <3>1, <3>2
  <2> QED
    BY <2>1, <2>2
<1>6. ASSUME NEW c \in AllCands(pkg), Still(m, c), Twins(pkg, c) = {c}, m.fp[2] = 1
      PROVE  found = IF Rewrites(pkg) /\ ~Covers(pkg, c[1], c[2], c[3]) THEN {c} ELSE {}
  <2> DEFINE d   == m.cand
             ln  == pkg[c[1]][c[3]]
             was == loaded[d[1]][d[3]]
  <2>1. /\ c[1] \in Files /\ c[3] \in DOMAIN pkg[c[1]]
        /\ d[1] \in Files /\ d[3] \in DOMAIN loaded[d[1]]
    BY <1>1, <1>2, AllCandsTyped
  <2>2. c[1] = d[1] /\ ln.decl = was.decl
    BY <1>6, <2>1 DEF LinesInv, SameScope, Still
  <2>3. ScopeOf(c[1], ln) = ScopeOf(d[1], was)
    BY <2>2, ScopeByDecl
  <2>4. /\ Bare(pkg, c) = << ScopeOf(c[1], ln), c[2], c[5], ln.text, c[4] >>
        /\ Bare(loaded, d) = << ScopeOf(d[1], was), d[2], d[5], was.text, d[4] >>
    BY <1>1, <1>2, BareValue
  <2>5. c[2] = d[2] /\ c[4] = d[4] /\ c[5] = d[5] /\ ln.text = was.text
    BY <1>6 DEF Still
  <2> HIDE DEF ln, was
  <2>6. Bare(pkg, c) = Bare(loaded, d)
    BY <2>3, <2>4, <2>5
  <2>7. m.fp = <<Bare(pkg, c), 1>>
    <3>1. PICK n : m.fp = <<Bare(loaded, d), n>>
      BY <1>2 DEF FingerprintOf
    <3>2. m.fp[2] = n
      BY <3>1
    <3> QED
      BY <1>6, <2>6, <3>1, <3>2
  <2>8. FingerprintOf(pkg, c) = m.fp
    BY <1>1, <1>6, <2>7, AloneIsFirst
  <2>9. found = {x \in {c} : Rewrites(pkg) /\ ~Covers(pkg, x[1], x[2], x[3])}
    <3>1. \A x \in AllCands(pkg) : FingerprintOf(pkg, x) = m.fp => x = c
      BY <1>1, <2>8, FingerprintInjective
    <3> QED
      BY <2>8, <3>1 DEF FindMutants, Fresh
  <2> QED
    BY <2>9
<1> QED
  BY <1>5, <1>6

\* A reported fingerprint names at most one mutant of the package as it is now,
\* and while the line stands and reads like no other, the one reported, unless a
\* directive covers it or the fresh rewrite fails.
THEOREM FoundAgainAlways == Spec => []FoundAgain
<1>1. PassInv /\ LinesInv => FoundAgain
  BY FoundAgainInv
<1> QED
  BY <1>1, RewriterInvAlways, PTL
=============================================================================
