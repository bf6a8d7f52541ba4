-------------------------- MODULE AgentLoopProofs ---------------------------
(***************************************************************************)
(* The agent loop, proved for every project: any files in any order, any   *)
(* number of lines, mutants, tests, steps and runs of init.                *)
(*                                                                         *)
(* SettingsKept, ScopeExact, GateHonest and BriefComplete are proved.  The *)
(* argument has four parts.  kanly init keeps SetupInv.  git's output is a *)
(* join of blocks of tokens, and the parser's state after a join follows   *)
(* block by block, so that the scope of each file is the set of the runs   *)
(* of its new lines.  The inductive invariant LoopInv adds that between    *)
(* the diff and the run nothing has changed the code the diff was taken    *)
(* of.  The results of the run are then counted and grouped: ranks in a    *)
(* strict total order give the groups, and the budget is what the disjoint *)
(* groups before it have spent.                                            *)
(*                                                                         *)
(* The recursive functions of Diff and Report are unfolded with Recursion, *)
(* and induction along them is UpTo, both from the least element of a set  *)
(* of natural numbers.                                                     *)
(***************************************************************************)
EXTENDS AgentLoop, FiniteSetTheorems, NaturalsInduction, WellFoundedInduction, TLAPS

-----------------------------------------------------------------------------
(* kanly init *)

\* Hook commands; what init may find where hooks and hooks.Stop should be.
Command == Others \cup ({"kanly"} \X Mins)
Shape == {"absent", "object", "array", "other"}

\* The types of the settings: hooks.Stop is a sequence of sequences of commands.
SetupType ==
  /\ settings \in [hooks : Shape, stop : Shape, groups : Seq(Seq(Command))]
  /\ skill \in {"none", "generated", "edited"}
  /\ lastInit \in Mins \cup {None}
  /\ added \subseteq Others
  /\ edited \in BOOLEAN

\* A hook that is registered comes from an init.
HookFromInit == lastInit = None => Registered(settings.groups) = {}

\* The inductive invariant of kanly init.
SetupInv == SetupType /\ SettingsKept /\ HookFromInit

\* A function on 1..n is a sequence.
LEMMA IsSequence ==
  ASSUME NEW S, NEW n \in Nat, NEW f \in [1..n -> S] PROVE f \in Seq(S)
OBVIOUS

\* What it means to be a command of the groups.
LEMMA CommandsMember ==
  ASSUME NEW g, NEW c
  PROVE  c \in Commands(g) <=> \E i \in DOMAIN g : \E j \in DOMAIN g[i] : c = g[i][j]
BY DEF Commands

\* A new group adds its commands to those there are.
LEMMA AppendCommands ==
  ASSUME NEW C, NEW g \in Seq(Seq(C)), NEW grp \in Seq(C)
  PROVE  /\ Append(g, grp) \in Seq(Seq(C))
         /\ Commands(Append(g, grp)) = Commands(g) \cup {grp[j] : j \in DOMAIN grp}
<1> DEFINE a == Append(g, grp)
<1>1. /\ a \in Seq(Seq(C)) /\ DOMAIN a = DOMAIN g \cup {Len(g) + 1}
      /\ \A i \in DOMAIN g : a[i] = g[i]
      /\ a[Len(g) + 1] = grp
  OBVIOUS
<1> HIDE DEF a
<1>2. ASSUME NEW c \in Commands(a) PROVE c \in Commands(g) \cup {grp[j] : j \in DOMAIN grp}
  <2>1. PICK i \in DOMAIN a : \E j \in DOMAIN a[i] : c = a[i][j] BY CommandsMember
  <2>2. CASE i \in DOMAIN g BY <2>1, <2>2, <1>1, CommandsMember
  <2>3. CASE i = Len(g) + 1 BY <2>1, <2>3, <1>1
  <2> QED BY <1>1, <2>2, <2>3
<1>3. ASSUME NEW c \in Commands(g) PROVE c \in Commands(a)
  <2>1. PICK i \in DOMAIN g : \E j \in DOMAIN g[i] : c = g[i][j] BY CommandsMember
  <2>2. i \in DOMAIN a /\ a[i] = g[i] BY <1>1
  <2> QED BY <2>1, <2>2, CommandsMember
<1>4. ASSUME NEW j \in DOMAIN grp PROVE grp[j] \in Commands(a)
  <2>1. Len(g) + 1 \in DOMAIN a BY <1>1
  <2> QED BY <1>1, <2>1, CommandsMember
<1>5. Commands(a) = Commands(g) \cup {grp[j] : j \in DOMAIN grp} BY <1>2, <1>3, <1>4
<1> QED BY <1>1, <1>5 DEF a

\* A group of one command adds that command.
LEMMA AppendOne ==
  ASSUME NEW C, NEW g \in Seq(Seq(C)), NEW e \in C
  PROVE  /\ Append(g, <<e>>) \in Seq(Seq(C))
         /\ Commands(Append(g, <<e>>)) = Commands(g) \cup {e}
<1> DEFINE grp == <<e>>
<1>1. grp \in Seq(C) /\ {grp[j] : j \in DOMAIN grp} = {e} OBVIOUS
<1> HIDE DEF grp
<1>2. /\ Append(g, grp) \in Seq(Seq(C))
      /\ Commands(Append(g, grp)) = Commands(g) \cup {grp[j] : j \in DOMAIN grp}
  BY <1>1, AppendCommands
<1> QED BY <1>1, <1>2 DEF grp

\* The hooks taken for Kanly's, by their command and by their place.
Matched(g) == {c \in Commands(g) : isKanlyStopHook(c)}

LEMMA PlacesMember ==
  ASSUME NEW g, NEW p
  PROVE  p \in KanlyPlaces(g) <=>
           \E i \in DOMAIN g : \E j \in DOMAIN g[i] : p = <<i, j>> /\ isKanlyStopHook(g[i][j])
BY DEF KanlyPlaces

LEMMA MatchedPlaces ==
  ASSUME NEW g PROVE KanlyPlaces(g) = {} <=> Matched(g) = {}
<1>1. ASSUME NEW p \in KanlyPlaces(g) PROVE Matched(g) # {}
  <2>1. PICK i \in DOMAIN g : \E j \in DOMAIN g[i] : p = <<i, j>> /\ isKanlyStopHook(g[i][j])
    BY PlacesMember
  <2>2. PICK j \in DOMAIN g[i] : isKanlyStopHook(g[i][j]) BY <2>1
  <2>3. g[i][j] \in Commands(g) BY <2>1, <2>2, CommandsMember
  <2> QED BY <2>2, <2>3 DEF Matched
<1>2. ASSUME NEW c \in Matched(g) PROVE KanlyPlaces(g) # {}
  <2>1. c \in Commands(g) /\ isKanlyStopHook(c) BY DEF Matched
  <2>2. PICK i \in DOMAIN g : \E j \in DOMAIN g[i] : c = g[i][j] BY <2>1, CommandsMember
  <2>3. PICK j \in DOMAIN g[i] : c = g[i][j] BY <2>2
  <2>4. <<i, j>> \in KanlyPlaces(g) BY <2>1, <2>2, <2>3, PlacesMember
  <2> QED BY <2>4
<1> QED BY <1>1, <1>2

\* A new group adds places in itself only.
LEMMA AppendPlaces ==
  ASSUME NEW C, NEW g \in Seq(Seq(C)), NEW grp \in Seq(C)
  PROVE  KanlyPlaces(Append(g, grp)) \subseteq KanlyPlaces(g) \cup {<<Len(g) + 1, j>> : j \in DOMAIN grp}
<1> DEFINE a == Append(g, grp)
<1>1. /\ DOMAIN a = DOMAIN g \cup {Len(g) + 1}
      /\ \A i \in DOMAIN g : a[i] = g[i]
      /\ a[Len(g) + 1] = grp
  OBVIOUS
<1> HIDE DEF a
<1>2. ASSUME NEW p \in KanlyPlaces(a)
      PROVE  p \in KanlyPlaces(g) \cup {<<Len(g) + 1, j>> : j \in DOMAIN grp}
  <2>1. PICK i \in DOMAIN a : \E j \in DOMAIN a[i] : p = <<i, j>> /\ isKanlyStopHook(a[i][j])
    BY PlacesMember
  <2>2. CASE i \in DOMAIN g BY <2>1, <2>2, <1>1, PlacesMember
  <2>3. CASE i = Len(g) + 1 BY <2>1, <2>3, <1>1
  <2> QED BY <1>1, <2>2, <2>3
<1> QED BY <1>2 DEF a

LEMMA AppendOnePlace ==
  ASSUME NEW C, NEW g \in Seq(Seq(C)), NEW e \in C
  PROVE  KanlyPlaces(Append(g, <<e>>)) \subseteq KanlyPlaces(g) \cup {<<Len(g) + 1, 1>>}
<1> DEFINE grp == <<e>>
<1>1. grp \in Seq(C) /\ DOMAIN grp = {1} OBVIOUS
<1> HIDE DEF grp
<1>2. KanlyPlaces(Append(g, grp)) \subseteq KanlyPlaces(g) \cup {<<Len(g) + 1, j>> : j \in DOMAIN grp}
  BY <1>1, AppendPlaces
<1> QED BY <1>1, <1>2 DEF grp

\* What init leaves of the hooks taken for Kanly's, that it drops no other
\* command, and that it adds a place only where there was none.
LEMMA ReplaceCommands ==
  ASSUME NEW g \in Seq(Seq(Command)), NEW e \in Command, isKanlyStopHook(e),
         NEW n, n = ReplaceOrAppend(g, e)
  PROVE  /\ n \in Seq(Seq(Command))
         /\ Matched(n) = {e}
         /\ Commands(g) \ Matched(g) \subseteq Commands(n)
         /\ \/ KanlyPlaces(n) \subseteq KanlyPlaces(g)
            \/ KanlyPlaces(n) \subseteq {<<Len(g) + 1, 1>>}
<1>1. CASE Matched(g) = {}
  <2>1. n = Append(g, <<e>>) /\ KanlyPlaces(g) = {} BY <1>1, MatchedPlaces DEF ReplaceOrAppend
  <2>2. n \in Seq(Seq(Command)) /\ Commands(n) = Commands(g) \cup {e}
    BY <2>1, AppendOne
  <2>3. KanlyPlaces(n) \subseteq {<<Len(g) + 1, 1>>} BY <2>1, AppendOnePlace
  <2> QED BY <2>2, <2>3, <1>1 DEF Matched
<1>2. CASE Matched(g) # {}
  <2> DEFINE put(c) == IF isKanlyStopHook(c) THEN e ELSE c
             row(i) == [j \in DOMAIN g[i] |-> put(g[i][j])]
  <2>1. n = [i \in DOMAIN g |-> row(i)] BY <1>2, MatchedPlaces DEF ReplaceOrAppend
  <2>2. \A i \in DOMAIN g : DOMAIN row(i) = DOMAIN g[i] /\ \A j \in DOMAIN g[i] : row(i)[j] = put(g[i][j])
    OBVIOUS
  <2>3. \A c : put(c) = IF isKanlyStopHook(c) THEN e ELSE c OBVIOUS
  <2>4. \A i \in DOMAIN g : row(i) \in Seq(Command)
    <3> SUFFICES ASSUME NEW i \in DOMAIN g PROVE row(i) \in Seq(Command) OBVIOUS
    <3> DEFINE s == g[i]
    <3>1. s \in Seq(Command) OBVIOUS
    <3> HIDE DEF s
    <3>2. \A j \in DOMAIN s : put(s[j]) \in Command BY <3>1
    <3> HIDE DEF put
    <3>3. DOMAIN s = 1..Len(s) /\ Len(s) \in Nat BY <3>1
    <3>4. [j \in DOMAIN s |-> put(s[j])] \in [1..Len(s) -> Command] BY <3>2, <3>3
    <3>5. [j \in DOMAIN s |-> put(s[j])] \in Seq(Command) BY <3>3, <3>4, IsSequence
    <3> QED BY <3>5 DEF s
  <2> HIDE DEF row, put
  <2>5. n \in Seq(Seq(Command))
    <3>1. DOMAIN g = 1..Len(g) /\ Len(g) \in Nat OBVIOUS
    <3>2. n \in [1..Len(g) -> Seq(Command)] BY <2>1, <2>4, <3>1
    <3> QED BY <3>1, <3>2, IsSequence
  <2>6. DOMAIN n = DOMAIN g /\ \A i \in DOMAIN g : n[i] = row(i) BY <2>1
  <2>7. PICK c0 \in Commands(g) : isKanlyStopHook(c0) BY <1>2 DEF Matched
  <2>8. \A c \in Commands(g) : put(c) \in Commands(n)
    <3> SUFFICES ASSUME NEW c \in Commands(g) PROVE put(c) \in Commands(n) OBVIOUS
    <3>1. PICK i \in DOMAIN g : \E j \in DOMAIN g[i] : c = g[i][j] BY CommandsMember
    <3>2. PICK j \in DOMAIN g[i] : c = g[i][j] BY <3>1
    <3>3. i \in DOMAIN n /\ j \in DOMAIN n[i] /\ put(c) = n[i][j] BY <3>1, <3>2, <2>2, <2>6
    <3> QED BY <3>3, CommandsMember
  <2>9. \A c \in Commands(n) : isKanlyStopHook(c) => c = e
    <3> SUFFICES ASSUME NEW c \in Commands(n), isKanlyStopHook(c) PROVE c = e OBVIOUS
    <3>1. PICK i \in DOMAIN n : \E j \in DOMAIN n[i] : c = n[i][j] BY CommandsMember
    <3>2. PICK j \in DOMAIN n[i] : c = n[i][j] BY <3>1
    <3>3. c = put(g[i][j]) BY <3>1, <3>2, <2>2, <2>6
    <3> QED BY <3>3, <2>3
  <2>10. e \in Commands(n) BY <2>7, <2>8, <2>3
  <2>11. \A c \in Commands(g) : ~isKanlyStopHook(c) => c \in Commands(n) BY <2>8, <2>3
  <2>12. ASSUME NEW p \in KanlyPlaces(n) PROVE p \in KanlyPlaces(g)
    <3>1. PICK i \in DOMAIN n : \E j \in DOMAIN n[i] : p = <<i, j>> /\ isKanlyStopHook(n[i][j])
      BY PlacesMember
    <3>2. PICK j \in DOMAIN n[i] : p = <<i, j>> /\ isKanlyStopHook(n[i][j]) BY <3>1
    <3>3. i \in DOMAIN g /\ j \in DOMAIN g[i] /\ n[i][j] = put(g[i][j]) BY <3>1, <3>2, <2>2, <2>6
    <3>4. isKanlyStopHook(g[i][j]) BY <3>2, <3>3, <2>3
    <3> QED BY <3>2, <3>3, <3>4, PlacesMember
  <2> QED BY <2>5, <2>9, <2>10, <2>11, <2>12 DEF Matched
<1> QED BY <1>1, <1>2

\* SetupInv holds before the first init.
LEMMA SetupInvInit == SetupInit => SetupInv
<1> SUFFICES ASSUME SetupInit PROVE SetupInv OBVIOUS
<1>1. << >> \in Seq(Seq(Command)) OBVIOUS
<1>2. settings.groups = << >> /\ settings \in [hooks : Shape, stop : Shape, groups : Seq(Seq(Command))]
  <2> DEFINE E == << >>
             Q == Seq(Seq(Command))
  <2>1. E \in Q BY <1>1
  <2>2. settings \in {[hooks |-> "absent", stop |-> "absent", groups |-> E],
                     [hooks |-> "other", stop |-> "absent", groups |-> E],
                     [hooks |-> "object", stop |-> "other", groups |-> E]}
    BY DEF SetupInit
  <2> HIDE DEF E, Q
  <2>3. settings.groups = E /\ settings \in [hooks : Shape, stop : Shape, groups : Q]
    BY <2>1, <2>2 DEF Shape
  <2> QED BY <2>3 DEF E, Q
<1>3. Registered(settings.groups) = {} /\ KanlyPlaces(settings.groups) = {}
  BY <1>2 DEF Registered, Commands, KanlyPlaces
<1> QED BY <1>2, <1>3 DEF SetupInit, SetupInv, SetupType, SettingsKept, HookFromInit

\* runInit
LEMMA InitKeeps ==
  ASSUME SetupInv, InitCommand PROVE SetupInv'
<1>1. PICK min \in Mins \cup {None} :
        /\ writeSkill
        /\ IF min = None THEN UNCHANGED <<settings, lastInit>> ELSE addStopHook(min)
        /\ UNCHANGED <<added, byHand, edited>>
  BY DEF InitCommand
<1>2. skill' \in {"none", "generated", "edited"} /\ (edited' => skill' = "edited") /\ edited' \in BOOLEAN
      /\ added' = added /\ byHand' = byHand
  BY <1>1 DEF writeSkill, SetupInv, SetupType, SettingsKept
<1>3. CASE UNCHANGED <<settings, lastInit>>
  BY <1>2, <1>3 DEF SetupInv, SetupType, SettingsKept, HookFromInit
<1>4. CASE ~UNCHANGED <<settings, lastInit>>
  <2> DEFINE n == ReplaceOrAppend(settings.groups, <<"kanly", min>>)
  <2>1. min \in Mins /\ lastInit' = min /\ settings' = [hooks |-> "object", stop |-> "array", groups |-> n]
    BY <1>1, <1>4 DEF addStopHook
  <2>2. settings.groups \in Seq(Seq(Command)) /\ added \subseteq Others
        /\ added \ Alike \subseteq Commands(settings.groups)
        /\ \A p, q \in KanlyPlaces(settings.groups) \ byHand : p = q
    BY DEF SetupInv, SetupType, SettingsKept
  <2>3. /\ n \in Seq(Seq(Command)) /\ Matched(n) = {<<"kanly", min>>}
        /\ Commands(settings.groups) \ Matched(settings.groups) \subseteq Commands(n)
        /\ \/ KanlyPlaces(n) \subseteq KanlyPlaces(settings.groups)
           \/ KanlyPlaces(n) \subseteq {<<Len(settings.groups) + 1, 1>>}
    <3>1. <<"kanly", min>> \in Command /\ isKanlyStopHook(<<"kanly", min>>)
      BY <2>1 DEF Command, isKanlyStopHook
    <3> DEFINE e == <<"kanly", min>>
               g == settings.groups
    <3>2. g \in Seq(Seq(Command)) /\ e \in Command /\ isKanlyStopHook(e) /\ n = ReplaceOrAppend(g, e)
      BY <2>2, <3>1
    <3> HIDE DEF n, e, g
    <3>3. /\ n \in Seq(Seq(Command)) /\ Matched(n) = {e}
          /\ Commands(g) \ Matched(g) \subseteq Commands(n)
          /\ \/ KanlyPlaces(n) \subseteq KanlyPlaces(g)
             \/ KanlyPlaces(n) \subseteq {<<Len(g) + 1, 1>>}
      BY <3>2, ReplaceCommands
    <3> QED BY <3>3 DEF e, g
  <2> HIDE DEF n
  <2>4. settings'.groups = n /\ settings' \in [hooks : Shape, stop : Shape, groups : Seq(Seq(Command))]
    BY <2>1, <2>3 DEF Shape
  <2>5. added \ Alike \subseteq Commands(n)
    BY <2>2, <2>3, OthersAssumption DEF Matched, isKanlyStopHook
  <2>6. settings' \in [hooks : Shape, stop : Shape, groups : Seq(Seq(Command))]
        /\ lastInit' \in Mins \cup {None} /\ added' \subseteq Others
    BY <2>1, <2>2, <2>4, <1>2
  <2>7. Registered(n) = {<<"kanly", min>>}
    <3>1. Registered(n) \subseteq Matched(n) BY DEF Registered, Matched, isKanlyStopHook
    <3>2. <<"kanly", min>> \in Registered(n) BY <2>3 DEF Registered, Matched
    <3> QED BY <2>3, <3>1, <3>2
  <2>8. added' \ Alike \subseteq Commands(settings'.groups) /\ Registered(settings'.groups) = {<<"kanly", lastInit'>>}
    BY <2>1, <2>4, <2>5, <2>7, <1>2
  <2>9. \A p, q \in KanlyPlaces(settings'.groups) \ byHand' : p = q
    BY <2>2, <2>3, <2>4, <1>2
  <2>10. lastInit' # None BY <2>1, MinsAssumption DEF None
  <2> QED BY <2>6, <2>8, <2>9, <2>10, <1>2 DEF SetupInv, SetupType, SettingsKept, HookFromInit
<1> QED BY <1>3, <1>4

\* A group that grows adds the command to those there are.
LEMMA GrowCommands ==
  ASSUME NEW g, NEW n, NEW i \in DOMAIN g, NEW o \in Command, g[i] \in Seq(Command),
         DOMAIN n = DOMAIN g, n[i] = Append(g[i], o),
         \A k \in DOMAIN g : k # i => n[k] = g[k]
  PROVE  Commands(n) = Commands(g) \cup {o}
<1>1. g[i] \in Seq(Command) OBVIOUS
<1>2. /\ DOMAIN n = DOMAIN g /\ n[i] = Append(g[i], o)
      /\ \A k \in DOMAIN g : k # i => n[k] = g[k]
  OBVIOUS
<1>3. /\ DOMAIN n[i] = DOMAIN g[i] \cup {Len(g[i]) + 1} /\ n[i][Len(g[i]) + 1] = o
      /\ \A j \in DOMAIN g[i] : n[i][j] = g[i][j]
  BY <1>1, <1>2
<1>4. \A c : c \in Commands(n) <=> \E k \in DOMAIN n : \E j \in DOMAIN n[k] : c = n[k][j]
  BY CommandsMember
<1>5. \A c : c \in Commands(g) <=> \E k \in DOMAIN g : \E j \in DOMAIN g[k] : c = g[k][j]
  BY CommandsMember
<1>6. ASSUME NEW c \in Commands(n) PROVE c \in Commands(g) \cup {o}
  <2>1. PICK k \in DOMAIN g : \E j \in DOMAIN n[k] : c = n[k][j] BY <1>2, <1>4
  <2>2. CASE k = i BY <2>1, <2>2, <1>3, <1>5
  <2>3. CASE k # i BY <2>1, <2>3, <1>2, <1>5
  <2> QED BY <2>2, <2>3
<1>7. ASSUME NEW c \in Commands(g) PROVE c \in Commands(n)
  <2>1. PICK k \in DOMAIN g : \E j \in DOMAIN g[k] : c = g[k][j] BY <1>5
  <2>2. CASE k = i BY <2>1, <2>2, <1>2, <1>3, <1>4
  <2>3. CASE k # i BY <2>1, <2>3, <1>2, <1>4
  <2> QED BY <2>2, <2>3
<1>8. o \in Commands(n) BY <1>2, <1>3, <1>4
<1> QED BY <1>6, <1>7, <1>8

\* ... and its place.
LEMMA GrowPlaces ==
  ASSUME NEW g, NEW n, NEW i \in DOMAIN g, NEW o \in Command, g[i] \in Seq(Command),
         DOMAIN n = DOMAIN g, n[i] = Append(g[i], o),
         \A k \in DOMAIN g : k # i => n[k] = g[k]
  PROVE  KanlyPlaces(n) \subseteq KanlyPlaces(g) \cup {<<i, Len(g[i]) + 1>>}
<1>1. g[i] \in Seq(Command) OBVIOUS
<1>2. /\ DOMAIN n = DOMAIN g /\ n[i] = Append(g[i], o)
      /\ \A k \in DOMAIN g : k # i => n[k] = g[k]
  OBVIOUS
<1>3. /\ DOMAIN n[i] = DOMAIN g[i] \cup {Len(g[i]) + 1}
      /\ \A j \in DOMAIN g[i] : n[i][j] = g[i][j]
  BY <1>1, <1>2
<1>4. ASSUME NEW p \in KanlyPlaces(n) PROVE p \in KanlyPlaces(g) \cup {<<i, Len(g[i]) + 1>>}
  <2>1. PICK k \in DOMAIN g : \E j \in DOMAIN n[k] : p = <<k, j>> /\ isKanlyStopHook(n[k][j])
    BY <1>2, PlacesMember
  <2>2. PICK j \in DOMAIN n[k] : p = <<k, j>> /\ isKanlyStopHook(n[k][j]) BY <2>1
  <2>3. CASE k = i /\ j = Len(g[i]) + 1 BY <2>2, <2>3
  <2>4. CASE k = i /\ j # Len(g[i]) + 1 BY <2>1, <2>2, <2>4, <1>3, PlacesMember
  <2>5. CASE k # i BY <2>1, <2>2, <2>5, <1>2, PlacesMember
  <2> QED BY <2>3, <2>4, <2>5
<1> QED BY <1>4

\* The groups only grow by hooks of other tools, in places the developer wrote.
LEMMA GrowKeeps ==
  ASSUME SetupInv,
         settings' \in [hooks : Shape, stop : Shape, groups : Seq(Seq(Command))],
         UNCHANGED <<skill, lastInit, edited>>,
         added \subseteq added', added' \subseteq Others,
         Commands(settings'.groups) = Commands(settings.groups) \cup (added' \ added),
         KanlyPlaces(settings'.groups) \ byHand' \subseteq KanlyPlaces(settings.groups) \ byHand
  PROVE  SetupInv'
<1>1. Registered(settings'.groups) = Registered(settings.groups)
  BY OthersAssumption DEF Registered
<1>2. skill' = skill /\ lastInit' = lastInit /\ edited' = edited OBVIOUS
<1>3. /\ skill \in {"none", "generated", "edited"} /\ lastInit \in Mins \cup {None} /\ edited \in BOOLEAN
      /\ edited => skill = "edited"
      /\ lastInit # None => Registered(settings.groups) = {<<"kanly", lastInit>>}
      /\ added \ Alike \subseteq Commands(settings.groups)
      /\ \A p, q \in KanlyPlaces(settings.groups) \ byHand : p = q
  BY DEF SetupInv, SetupType, SettingsKept
<1>4. SetupType' BY <1>2, <1>3 DEF SetupType
<1>5. /\ added' \ Alike \subseteq Commands(settings'.groups)
      /\ \A p, q \in KanlyPlaces(settings'.groups) \ byHand' : p = q
  BY <1>3
<1>7. SettingsKept' BY <1>1, <1>2, <1>3, <1>5 DEF SettingsKept
<1>6. HookFromInit' BY <1>1, <1>2 DEF HookFromInit, SetupInv
<1> QED BY <1>4, <1>6, <1>7 DEF SetupInv

\* Another tool that adds its command keeps SetupInv.
LEMMA AddHookKeeps ==
  ASSUME SetupInv, AddHook PROVE SetupInv'
<1>1. PICK o \in Others \ added :
        /\ added' = added \cup {o}
        /\ \/ /\ settings' = [hooks |-> "object", stop |-> "array", groups |-> Append(settings.groups, <<o>>)]
              /\ byHand' = byHand \cup {<<Len(settings.groups) + 1, 1>>}
           \/ \E i \in DOMAIN settings.groups :
                /\ settings' = [settings EXCEPT !.groups[i] = Append(@, o)]
                /\ byHand' = byHand \cup {<<i, Len(settings.groups[i]) + 1>>}
        /\ UNCHANGED <<skill, lastInit, edited>>
  BY DEF AddHook
<1>2. /\ settings.groups \in Seq(Seq(Command))
      /\ settings \in [hooks : Shape, stop : Shape, groups : Seq(Seq(Command))]
      /\ added \subseteq Others
  BY DEF SetupInv, SetupType, SettingsKept
<1>3. o \in Command BY DEF Command
<1> DEFINE Kept == /\ settings' \in [hooks : Shape, stop : Shape, groups : Seq(Seq(Command))]
                   /\ Commands(settings'.groups) = Commands(settings.groups) \cup {o}
                   /\ KanlyPlaces(settings'.groups) \ byHand' \subseteq KanlyPlaces(settings.groups) \ byHand
<1>4. Kept
  <2>1. CASE /\ settings' = [hooks |-> "object", stop |-> "array", groups |-> Append(settings.groups, <<o>>)]
             /\ byHand' = byHand \cup {<<Len(settings.groups) + 1, 1>>}
    <3>1. /\ Append(settings.groups, <<o>>) \in Seq(Seq(Command))
          /\ Commands(Append(settings.groups, <<o>>)) = Commands(settings.groups) \cup {o}
          /\ KanlyPlaces(Append(settings.groups, <<o>>))
               \subseteq KanlyPlaces(settings.groups) \cup {<<Len(settings.groups) + 1, 1>>}
      BY <1>2, <1>3, AppendOne, AppendOnePlace
    <3> QED BY <2>1, <3>1 DEF Shape
  <2>2. ASSUME NEW i \in DOMAIN settings.groups,
               settings' = [settings EXCEPT !.groups[i] = Append(@, o)],
               byHand' = byHand \cup {<<i, Len(settings.groups[i]) + 1>>}
        PROVE  Kept
    <3>1. /\ [settings.groups EXCEPT ![i] = Append(settings.groups[i], o)] \in Seq(Seq(Command))
          /\ Commands([settings.groups EXCEPT ![i] = Append(settings.groups[i], o)])
               = Commands(settings.groups) \cup {o}
          /\ KanlyPlaces([settings.groups EXCEPT ![i] = Append(settings.groups[i], o)])
               \subseteq KanlyPlaces(settings.groups) \cup {<<i, Len(settings.groups[i]) + 1>>}
      <4> DEFINE g == settings.groups
                 x == Append(g[i], o)
                 n == [g EXCEPT ![i] = x]
      <4>1. g \in Seq(Seq(Command)) /\ i \in DOMAIN g BY <1>2, <2>2
      <4> HIDE DEF g
      <4>2. g[i] \in Seq(Command) BY <4>1
      <4>3. x \in Seq(Command) BY <4>2, <1>3
      <4>4. x = Append(g[i], o) OBVIOUS
      <4> HIDE DEF x
      <4>5. n \in Seq(Seq(Command)) BY <4>1, <4>3
      <4>6. DOMAIN n = DOMAIN g /\ n[i] = x /\ \A k \in DOMAIN g : k # i => n[k] = g[k]
        BY <4>1
      <4> HIDE DEF n
      <4>7. i \in DOMAIN g /\ o \in Command /\ g[i] \in Seq(Command) BY <4>1, <4>2, <1>3
      <4>8. DOMAIN n = DOMAIN g /\ n[i] = Append(g[i], o) BY <4>4, <4>6
      <4>9. \A k \in DOMAIN g : k # i => n[k] = g[k] BY <4>6
      <4>10. Commands(n) = Commands(g) \cup {o} BY <4>7, <4>8, <4>9, GrowCommands
      <4>11. KanlyPlaces(n) \subseteq KanlyPlaces(g) \cup {<<i, Len(g[i]) + 1>>}
        BY <4>7, <4>8, <4>9, GrowPlaces
      <4> QED BY <4>5, <4>10, <4>11 DEF g, n, x
    <3> DEFINE G == [settings.groups EXCEPT ![i] = Append(settings.groups[i], o)]
               Q == Seq(Seq(Command))
    <3>2. settings' = [settings EXCEPT !.groups = G] BY <2>2
    <3>3. settings \in [hooks : Shape, stop : Shape, groups : Q] BY <1>2
    <3>5. G \in Q BY <3>1
    <3> HIDE DEF G, Q
    <3>4. settings'.groups = G /\ settings' \in [hooks : Shape, stop : Shape, groups : Q]
      BY <3>2, <3>3, <3>5
    <3> QED BY <2>2, <3>1, <3>4 DEF G, Q
  <2> QED BY <1>1, <2>1, <2>2
<1>5. /\ UNCHANGED <<skill, lastInit, edited>> /\ added \subseteq added' /\ added' \subseteq Others
      /\ Commands(settings'.groups) = Commands(settings.groups) \cup (added' \ added)
  BY <1>1, <1>2, <1>4
<1> QED BY <1>4, <1>5, GrowKeeps

\* A copied group keeps SetupInv.
LEMMA CopyKeeps ==
  ASSUME SetupInv, CopyGroup PROVE SetupInv'
<1>1. PICK i \in DOMAIN settings.groups :
        /\ settings' = [settings EXCEPT !.groups = Append(@, settings.groups[i])]
        /\ byHand' = byHand \cup {<<Len(settings.groups) + 1, j>> : j \in DOMAIN settings.groups[i]}
        /\ UNCHANGED <<skill, lastInit, added, edited>>
  BY DEF CopyGroup
<1>2. /\ settings.groups \in Seq(Seq(Command))
      /\ settings \in [hooks : Shape, stop : Shape, groups : Seq(Seq(Command))]
      /\ added \subseteq Others
  BY DEF SetupInv, SetupType, SettingsKept
<1>3. settings.groups[i] \in Seq(Command) BY <1>2
<1>4. /\ Append(settings.groups, settings.groups[i]) \in Seq(Seq(Command))
      /\ Commands(Append(settings.groups, settings.groups[i]))
           = Commands(settings.groups) \cup {settings.groups[i][j] : j \in DOMAIN settings.groups[i]}
  BY <1>2, <1>3, AppendCommands
<1>5. {settings.groups[i][j] : j \in DOMAIN settings.groups[i]} \subseteq Commands(settings.groups)
  BY CommandsMember
<1>6. settings'.groups = Append(settings.groups, settings.groups[i])
      /\ settings' \in [hooks : Shape, stop : Shape, groups : Seq(Seq(Command))]
  BY <1>1, <1>2, <1>4
<1>7. /\ UNCHANGED <<skill, lastInit, edited>> /\ added \subseteq added' /\ added' \subseteq Others
      /\ Commands(settings'.groups) = Commands(settings.groups) \cup (added' \ added)
  BY <1>1, <1>2, <1>4, <1>5, <1>6
<1>8. KanlyPlaces(settings'.groups) \ byHand' \subseteq KanlyPlaces(settings.groups) \ byHand
  <2>1. KanlyPlaces(settings'.groups) \subseteq KanlyPlaces(settings.groups)
          \cup {<<Len(settings.groups) + 1, j>> : j \in DOMAIN settings.groups[i]}
    BY <1>2, <1>3, <1>6, AppendPlaces
  <2> QED BY <1>1, <2>1
<1> QED BY <1>6, <1>7, <1>8, GrowKeeps

\* Every step on settings and skill keeps SetupInv.
LEMMA SetupInvStep ==
  ASSUME SetupInv, [SetupNext]_setupVars PROVE SetupInv'
<1>1. CASE UNCHANGED setupVars
  BY <1>1 DEF setupVars, SetupInv, SetupType, SettingsKept, HookFromInit
<1>2. CASE InitCommand BY <1>2, InitKeeps
<1>3. CASE AddHook BY <1>3, AddHookKeeps
<1>4. CASE CopyGroup BY <1>4, CopyKeeps
<1>5. CASE EditSkill
  BY <1>5 DEF EditSkill, SetupInv, SetupType, SettingsKept, HookFromInit
<1> QED BY <1>1, <1>2, <1>3, <1>4, <1>5 DEF SetupNext

\* For any hooks of other tools, whichever of them contain " hook stop": init never
\* loses one that does not, nor a skill the developer took over; it leaves no Kanly
\* hook of an earlier init behind; and it never adds a second one itself.
THEOREM SettingsKeptAlways == SetupSpec => []SettingsKept
<1>1. SetupInit => SetupInv BY SetupInvInit
<1>2. SetupInv /\ [SetupNext]_setupVars => SetupInv' BY SetupInvStep
<1>3. SetupInv => SettingsKept BY DEF SetupInv
<1> QED BY <1>1, <1>2, <1>3, PTL DEF SetupSpec

\* A non-empty set of natural numbers has a least element.
LEMMA LeastNatural ==
  ASSUME NEW S \in SUBSET Nat, S # {}
  PROVE  \E n \in S : \A m \in S : n <= m
<1> DEFINE Less == OpToRel(<, Nat)
<1>1. IsWellFoundedOn(Less, Nat)
  BY NatLessThanWellFounded
<1>2. \A m, n \in Nat : m < n => <<m, n>> \in Less
  BY DEF OpToRel
<1> HIDE DEF Less
<1>3. PICK n \in S : \A m \in S : ~(<<m, n>> \in Less)
  BY <1>1, WFMin
<1>4. \A m \in S : ~(m < n)
  BY <1>2, <1>3
<1> QED BY <1>4

\* Induction up to a bound, on the set of the numbers reached.
LEMMA UpTo ==
  ASSUME NEW N \in Nat, NEW X, 0 \in X, \A n \in 1..N : n - 1 \in X => n \in X
  PROVE  \A n \in 0..N : n \in X
<1> SUFFICES ASSUME (0..N) \ X # {} PROVE FALSE OBVIOUS
<1>1. PICK n \in (0..N) \ X : \A m \in (0..N) \ X : n <= m
  <2> DEFINE S == (0..N) \ X
  <2>1. S \in SUBSET Nat /\ S # {} OBVIOUS
  <2> HIDE DEF S
  <2>2. \E n \in S : \A m \in S : n <= m BY <2>1, LeastNatural
  <2> QED BY <2>2 DEF S
<1>2. n \in 1..N BY <1>1
<1>3. n - 1 \in X BY <1>1, <1>2
<1> QED BY <1>1, <1>2, <1>3

\* Functions that give each value from the one before.
Steps(N, S) == [(1..N) \X S -> S]
Follows(f, N, S, first, st) ==
  f \in [0..N -> S] /\ f[0] = first /\ \A n \in 1..N : f[n] = st[<<n, f[n - 1]>>]

\* A function is defined by its value at 0 and by how each value follows from
\* the one before.
LEMMA Recursion ==
  ASSUME NEW N \in Nat, NEW S, NEW first \in S, NEW st \in Steps(N, S)
  PROVE  \E f : Follows(f, N, S, first, st)
<1> DEFINE Good(f, m) == /\ f \in [0..m -> S] /\ f[0] = first
                         /\ \A n \in 1..m : f[n] = st[<<n, f[n - 1]>>]
           X == {m \in 0..N : \E f : Good(f, m)}
<1>1. 0 \in X
  <2>1. Good([n \in 0..0 |-> first], 0) OBVIOUS
  <2> HIDE DEF Good
  <2> QED BY <2>1
<1>2. ASSUME NEW m \in 1..N, m - 1 \in X PROVE m \in X
  <2>1. PICK f : Good(f, m - 1) BY <1>2
  <2> DEFINE v == st[<<m, f[m - 1]>>]
             g == [n \in 0..m |-> IF n = m THEN v ELSE f[n]]
  <2>2. f[m - 1] \in S BY <2>1
  <2>3. v \in S BY <2>2 DEF Steps
  <2>d. v = st[<<m, f[m - 1]>>] OBVIOUS
  <2> HIDE DEF v
  <2>4. g \in [0..m -> S] BY <2>1, <2>3
  <2>g. g[m] = v /\ \A n \in 0..(m - 1) : g[n] = f[n] OBVIOUS
  <2> HIDE DEF g
  <2>5. g[0] = first BY <2>1, <2>g
  <2>6. \A n \in 1..m : g[n] = st[<<n, g[n - 1]>>]
    <3> TAKE n \in 1..m
    <3>1. g[n - 1] = f[n - 1] BY <2>g
    <3>2. CASE n = m BY <3>1, <3>2, <2>g, <2>d
    <3>3. CASE n # m
      <4>1. g[n] = f[n] BY <3>3, <2>g
      <4>2. f[n] = st[<<n, f[n - 1]>>] BY <2>1, <3>3
      <4> QED BY <3>1, <4>1, <4>2
    <3> QED BY <3>2, <3>3
  <2>7. Good(g, m) BY <2>4, <2>5, <2>6
  <2> HIDE DEF Good
  <2> QED BY <2>7
<1>3. N \in X
  <2> HIDE DEF X
  <2>1. \A n \in 0..N : n \in X BY <1>1, <1>2, UpTo
  <2> QED BY <2>1
<1>4. PICK f : Good(f, N) BY <1>3
<1> QED BY <1>4 DEF Follows

-----------------------------------------------------------------------------
(* ParseDiff *)

\* The lines of git's output, and the states of the parser.
Path == Files \cup {NoFile}
Token == [k : {"git"}] \cup [k : {"+++"}, path : Path] \cup [k : {"+"}, text : Path]
         \cup [k : {"@@"}, start : Nat, count : Nat, short : BOOLEAN]
PState == [file : Path, byFile : [Files -> SUBSET (Int \X Int)]]

\* What one line of git's output does to the parser.
LEMMA ParseHeader ==
  ASSUME NEW st \in PState, NEW t \in Token, t.k # "@@"
  PROVE  /\ D!ParseLine(st, t) \in PState
         /\ D!ParseLine(st, t).byFile = st.byFile
         /\ t.k = "git" => D!ParseLine(st, t).file = NoFile
         /\ t.k = "+++" => D!ParseLine(st, t).file = t.path
         /\ t.k = "+" => D!ParseLine(st, t).file = IF t.text = NoFile THEN st.file ELSE t.text
BY DEF D!ParseLine, PState, Token, Path

\* A hunk header adds its range to the current file, if there is one.
LEMMA ParseHunk ==
  ASSUME NEW st \in PState, NEW t \in Token, t.k = "@@"
  PROVE  /\ D!ParseLine(st, t) \in PState
         /\ D!ParseLine(st, t).file = st.file
         /\ \A x \in Files :
              D!ParseLine(st, t).byFile[x] =
                st.byFile[x] \cup (IF st.file = x /\ D!HunkCount(t) # 0
                                   THEN {<<t.start, t.start + D!HunkCount(t) - 1>>} ELSE {})
<1>1. t.start \in Int /\ D!HunkCount(t) \in Int BY DEF Token, D!HunkCount
<1>2. NoFile \notin Files BY LinesAssumption
<1> DEFINE r == <<t.start, t.start + D!HunkCount(t) - 1>>
<1>3. r \in Int \X Int BY <1>1
<1>4. CASE st.file = NoFile \/ D!HunkCount(t) = 0
  <2>1. D!ParseLine(st, t) = st BY <1>4 DEF D!ParseLine
  <2> QED BY <1>2, <1>4, <2>1
<1>5. CASE ~(st.file = NoFile \/ D!HunkCount(t) = 0)
  <2>1. D!ParseLine(st, t) = [st EXCEPT !.byFile[st.file] = @ \cup {r}] BY <1>5 DEF D!ParseLine
  <2>2. st.file \in Files BY <1>5 DEF PState, Path
  <2> DEFINE n == [st EXCEPT !.byFile[st.file] = @ \cup {r}]
             b == [st.byFile EXCEPT ![st.file] = @ \cup {r}]
  <2>3. n.file = st.file /\ n.byFile = b /\ n = [st EXCEPT !.byFile = b] BY DEF PState
  <2> HIDE DEF r
  <2>4. b \in [Files -> SUBSET (Int \X Int)] BY <1>3, <2>2 DEF PState
  <2>5. \A x \in Files : b[x] = st.byFile[x] \cup (IF st.file = x THEN {r} ELSE {}) BY <2>2 DEF PState
  <2>6. n \in PState
    <3> HIDE DEF b
    <3> QED BY <2>3, <2>4 DEF PState
  <2> QED BY <1>5, <2>1, <2>3, <2>5, <2>6 DEF r
<1> QED BY <1>4, <1>5

\* The states of the parser along git's output.
LEMMA ParseFromDefined ==
  ASSUME NEW st \in PState, NEW o \in Seq(Token)
  PROVE  /\ D!ParseFrom(st, o) \in [0..Len(o) -> PState]
         /\ D!ParseFrom(st, o)[0] = st
         /\ \A i \in 1..Len(o) : D!ParseFrom(st, o)[i] = D!ParseLine(D!ParseFrom(st, o)[i - 1], o[i])
<1> DEFINE N == Len(o)
           h == D!ParseFrom(st, o)
           line(s, i) == D!ParseLine(s, o[i])
           Is(g) == g = [i \in 0..N |-> IF i = 0 THEN st ELSE line(g[i - 1], i)]
           stp == [x \in (1..N) \X PState |-> line(x[2], x[1])]
<1>0. N \in Nat OBVIOUS
<1>h. h = CHOOSE g : Is(g) BY DEF D!ParseFrom
<1>a. \A s \in PState : \A i \in 1..N : line(s, i) \in PState
  <2> TAKE s \in PState
  <2> TAKE i \in 1..N
  <2>1. o[i] \in Token OBVIOUS
  <2> QED BY <2>1, ParseHeader, ParseHunk
<1> HIDE DEF line, h, N
<1>1. stp \in Steps(N, PState) BY <1>a DEF Steps
<1>2. \A i \in 1..N, s \in PState : stp[<<i, s>>] = line(s, i) OBVIOUS
<1> HIDE DEF stp
<1>r. PICK g : Follows(g, N, PState, st, stp)
  BY <1>0, <1>1, Recursion
<1>5. /\ g \in [0..N -> PState] /\ g[0] = st
      /\ \A i \in 1..N : g[i] = stp[<<i, g[i - 1]>>]
  BY <1>r DEF Follows
<1>3. \A i \in 1..N : g[i] = line(g[i - 1], i)
  <2> TAKE i \in 1..N
  <2>1. g[i - 1] \in PState BY <1>0, <1>5
  <2>2. stp[<<i, g[i - 1]>>] = line(g[i - 1], i) BY <1>2, <2>1
  <2> QED BY <1>5, <2>2
<1>6. Is(g)
  <2>1. \A i \in 0..N : g[i] = IF i = 0 THEN st ELSE line(g[i - 1], i) BY <1>0, <1>3, <1>5
  <2> QED BY <1>5, <2>1
<1>7. Is(h)
  <2> HIDE DEF Is
  <2> QED BY <1>h, <1>6
<1>8. h[0] = st /\ \A i \in 1..N : h[i] = line(h[i - 1], i)
  <2>1. \A i \in 0..N : h[i] = IF i = 0 THEN st ELSE line(h[i - 1], i)
    BY <1>7
  <2>2. 0 \in 0..N /\ \A i \in 1..N : i \in 0..N /\ i # 0 BY <1>0
  <2> QED BY <2>1, <2>2
<1>9. \A n \in 0..N : h[n] \in PState
  <2> DEFINE X == {n \in 0..N : h[n] \in PState}
  <2>1. 0 \in X BY <1>0, <1>8
  <2>2. ASSUME NEW n \in 1..N, n - 1 \in X PROVE n \in X
    <3>1. h[n - 1] \in PState /\ h[n] = line(h[n - 1], n) BY <1>8, <2>2
    <3>2. h[n] \in PState BY <1>a, <3>1
    <3>3. n \in 0..N BY <1>0
    <3> QED BY <3>2, <3>3
  <2> HIDE DEF X
  <2>3. \A n \in 0..N : n \in X BY <1>0, <2>1, <2>2, UpTo
  <2> QED BY <2>3 DEF X
<1>10. h \in [0..N -> PState]
  BY <1>7, <1>9
<1> QED BY <1>8, <1>10 DEF line, h, N

\* The parser's state at the end.
Parsed(st, o) == D!ParseFrom(st, o)[Len(o)]

\* The parser ends in a state of its type.
LEMMA ParsedType ==
  ASSUME NEW st \in PState, NEW o \in Seq(Token) PROVE Parsed(st, o) \in PState
<1>1. D!ParseFrom(st, o) \in [0..Len(o) -> PState] BY ParseFromDefined
<1>2. Len(o) \in 0..Len(o) OBVIOUS
<1> QED BY <1>1, <1>2 DEF Parsed

\* No output changes nothing.
LEMMA ParsedEmpty ==
  ASSUME NEW st \in PState PROVE Parsed(st, << >>) = st
<1>1. << >> \in Seq(Token) /\ Len(<< >>) = 0 OBVIOUS
<1>2. D!ParseFrom(st, << >>)[0] = st BY <1>1, ParseFromDefined
<1> QED BY <1>1, <1>2 DEF Parsed

\* One line of output is one step of the parser.
LEMMA ParsedOne ==
  ASSUME NEW st \in PState, NEW t \in Token PROVE Parsed(st, <<t>>) = D!ParseLine(st, t)
<1> DEFINE o == <<t>>
<1>1. o \in Seq(Token) /\ Len(o) = 1 /\ o[1] = t OBVIOUS
<1> HIDE DEF o
<1>2. /\ D!ParseFrom(st, o)[0] = st
      /\ \A i \in 1..1 : D!ParseFrom(st, o)[i] = D!ParseLine(D!ParseFrom(st, o)[i - 1], o[i])
  BY <1>1, ParseFromDefined
<1>3. D!ParseFrom(st, o)[1] = D!ParseLine(D!ParseFrom(st, o)[0], o[1])
  <2>1. 1 \in 1..1 /\ 1 - 1 = 0 OBVIOUS
  <2> QED BY <1>2, <2>1
<1> QED BY <1>1, <1>2, <1>3 DEF Parsed, o

\* Parsing one output after another.
LEMMA ParsedConcat ==
  ASSUME NEW st \in PState, NEW s \in Seq(Token), NEW t \in Seq(Token)
  PROVE  /\ s \o t \in Seq(Token)
         /\ Parsed(st, s \o t) = Parsed(Parsed(st, s), t)
<1> DEFINE o == s \o t
           a == D!ParseFrom(st, o)
           b == D!ParseFrom(st, s)
           mid == Parsed(st, s)
           c == D!ParseFrom(mid, t)
           n == Len(s)
           m == Len(t)
<1>1. /\ o \in Seq(Token) /\ Len(o) = n + m /\ n \in Nat /\ m \in Nat
      /\ \A i \in 1..n : o[i] = s[i]
      /\ \A i \in 1..m : o[n + i] = t[i]
  OBVIOUS
<1>2. mid \in PState BY ParsedType
<1>3. /\ a[0] = st /\ \A i \in 1..(n + m) : a[i] = D!ParseLine(a[i - 1], o[i])
      /\ b[0] = st /\ \A i \in 1..n : b[i] = D!ParseLine(b[i - 1], s[i])
      /\ c[0] = mid /\ \A i \in 1..m : c[i] = D!ParseLine(c[i - 1], t[i])
  <2> HIDE DEF mid, o
  <2>1. /\ a[0] = st /\ \A i \in 1..Len(o) : a[i] = D!ParseLine(a[i - 1], o[i]) BY <1>1, ParseFromDefined
  <2>2. b[0] = st /\ \A i \in 1..n : b[i] = D!ParseLine(b[i - 1], s[i]) BY ParseFromDefined
  <2>3. c[0] = mid /\ \A i \in 1..m : c[i] = D!ParseLine(c[i - 1], t[i]) BY <1>2, ParseFromDefined
  <2> QED BY <1>1, <2>1, <2>2, <2>3
<1>m. b[n] = mid /\ Parsed(st, o) = a[n + m] /\ Parsed(mid, t) = c[m]
  <2>1. b[n] = mid BY DEF Parsed
  <2>2. Parsed(st, o) = a[Len(o)] BY DEF Parsed
  <2>3. Parsed(mid, t) = c[m] BY DEF Parsed
  <2> QED BY <1>1, <2>1, <2>2, <2>3
<1>s. o = s \o t OBVIOUS
<1>mm. mid = Parsed(st, s) OBVIOUS
<1> HIDE DEF o, a, b, c, n, m, mid
<1>4. \A i \in 0..n : a[i] = b[i]
  <2> DEFINE X == {i \in 0..n : a[i] = b[i]}
  <2>1. 0 \in X BY <1>1, <1>3
  <2>2. ASSUME NEW i \in 1..n, i - 1 \in X PROVE i \in X
    <3>1. i \in 0..n /\ i \in 1..(n + m) BY <1>1
    <3>2. a[i] = D!ParseLine(a[i - 1], o[i]) /\ b[i] = D!ParseLine(b[i - 1], s[i]) BY <1>3, <3>1
    <3>3. o[i] = s[i] /\ a[i - 1] = b[i - 1] BY <1>1, <2>2
    <3> QED BY <3>1, <3>2, <3>3
  <2> HIDE DEF X
  <2>3. \A i \in 0..n : i \in X BY <1>1, <2>1, <2>2, UpTo
  <2> QED BY <2>3 DEF X
<1>5. \A i \in 0..m : a[n + i] = c[i]
  <2> DEFINE X == {i \in 0..m : a[n + i] = c[i]}
  <2>1. 0 \in X
    <3>1. n \in 0..n /\ n + 0 = n /\ 0 \in 0..m BY <1>1
    <3> QED BY <1>3, <1>4, <1>m, <3>1
  <2>2. ASSUME NEW i \in 1..m, i - 1 \in X PROVE i \in X
    <3>1. i \in 0..m /\ n + i \in 1..(n + m) /\ (n + i) - 1 = n + (i - 1) BY <1>1
    <3>2. a[n + i] = D!ParseLine(a[(n + i) - 1], o[n + i]) /\ c[i] = D!ParseLine(c[i - 1], t[i]) BY <1>3, <3>1
    <3>3. o[n + i] = t[i] /\ a[n + (i - 1)] = c[i - 1] BY <1>1, <2>2
    <3> QED BY <3>1, <3>2, <3>3
  <2> HIDE DEF X
  <2>3. \A i \in 0..m : i \in X BY <1>1, <2>1, <2>2, UpTo
  <2> QED BY <2>3 DEF X
<1>6. a[n + m] = c[m]
  <2>1. m \in 0..m BY <1>1
  <2> QED BY <1>5, <2>1
<1> QED BY <1>1, <1>6, <1>m, <1>s, <1>mm

-----------------------------------------------------------------------------
(* git's output and its scope *)

\* A run of changed lines from a on goes up to a line e.
LEMMA DiffCardinality ==
  ASSUME NEW S PROVE D!Cardinality(S) = Cardinality(S)
BY DEF D!Cardinality, Cardinality

\* The length of a run, counted as this module counts.
LEMMA RunLengthIs ==
  ASSUME NEW ch, NEW f, NEW a
  PROVE  D!RunLength(ch, f, a) = Cardinality({n \in a..MaxLine : \A m \in a..n : <<f, m>> \in ch})
<1> DEFINE B == {n \in a..MaxLine : \A m \in a..n : <<f, m>> \in ch}
<1>1. D!RunLength(ch, f, a) = D!Cardinality(B) BY DEF D!RunLength
<1> HIDE DEF B
<1>2. D!Cardinality(B) = Cardinality(B) BY DiffCardinality
<1> QED BY <1>1, <1>2 DEF B

\* Every run of new lines ends.
LEMMA RunEnds ==
  ASSUME NEW ch, NEW f, NEW a \in 1..MaxLine, <<f, a>> \in ch
  PROVE  \E e \in a..MaxLine : /\ \A m \in a..e : <<f, m>> \in ch
                               /\ e < MaxLine => <<f, e + 1>> \notin ch
                               /\ D!RunLength(ch, f, a) = (e - a) + 1
<1>0. MaxLine \in Nat /\ a \in Nat BY LinesAssumption
<1> DEFINE B == {n \in a..MaxLine : \A m \in a..n : <<f, m>> \in ch}
           C == {n \in a..(MaxLine + 1) : n = MaxLine + 1 \/ <<f, n>> \notin ch}
<1>1. C \in SUBSET Nat /\ C # {} BY <1>0
<1>2. PICK c \in C : \A n \in C : c <= n
  <2> HIDE DEF C
  <2> QED BY <1>1, LeastNatural
<1> DEFINE e == c - 1
<1>3. c \in Nat /\ c > a /\ c <= MaxLine + 1 BY <1>0, <1>2
<1>4. e \in a..MaxLine BY <1>0, <1>3
<1>5. \A m \in a..e : <<f, m>> \in ch
  <2> TAKE m \in a..e
  <2>1. m \in a..(MaxLine + 1) /\ m < c BY <1>0, <1>3, <1>4
  <2>2. m \notin C BY <1>2, <2>1
  <2> QED BY <2>1, <2>2
<1>6. e < MaxLine => <<f, e + 1>> \notin ch BY <1>0, <1>2, <1>3
<1>7. B = a..e
  <2>1. ASSUME NEW n \in B PROVE n \in a..e
    <3>1. n \in a..MaxLine /\ \A m \in a..n : <<f, m>> \in ch OBVIOUS
    <3>2. n < c
      <4> SUFFICES ASSUME n >= c PROVE FALSE BY <1>0, <1>3, <3>1
      <4>1. c \in a..n /\ c # MaxLine + 1 BY <1>0, <1>3, <3>1
      <4>2. <<f, c>> \notin ch BY <1>2, <4>1
      <4> QED BY <3>1, <4>1, <4>2
    <3> QED BY <1>0, <1>3, <3>1, <3>2
  <2>2. ASSUME NEW n \in a..e PROVE n \in B
    <3>1. n \in a..MaxLine /\ \A m \in a..n : m \in a..e BY <1>0, <1>4
    <3> QED BY <1>5, <3>1
  <2> QED BY <2>1, <2>2
<1>8. Cardinality(a..e) = (e - a) + 1
  <2>1. a \in Int /\ e \in Int /\ ~(a > e) BY <1>0, <1>4
  <2> HIDE DEF e
  <2>2. Cardinality(a..e) = IF a > e THEN 0 ELSE e - a + 1 BY <2>1, FS_Interval
  <2> QED BY <2>1, <2>2
<1>9. D!RunLength(ch, f, a) = (e - a) + 1
  <2>1. D!RunLength(ch, f, a) = Cardinality(B) BY RunLengthIs
  <2> HIDE DEF B
  <2> QED BY <1>7, <1>8, <2>1
<1> QED BY <1>4, <1>5, <1>6, <1>9

\* The ranges of the runs of new lines of a file that start up to line l.
StartsRun(ch, f, a) == <<f, a>> \in ch /\ <<f, a - 1>> \notin ch
Run(ch, f, a) == <<a, a + D!RunLength(ch, f, a) - 1>>
Runs(ch, f, l) == {Run(ch, f, a) : a \in {b \in 1..l : StartsRun(ch, f, b)}}

\* A run of new lines has at least one line.
LEMMA RunLengthType ==
  ASSUME NEW ch, NEW f, NEW a \in 1..MaxLine, <<f, a>> \in ch
  PROVE  D!RunLength(ch, f, a) \in Nat \ {0}
<1>0. MaxLine \in Nat BY LinesAssumption
<1>1. PICK e \in a..MaxLine : /\ \A m \in a..e : <<f, m>> \in ch
                              /\ e < MaxLine => <<f, e + 1>> \notin ch
                              /\ D!RunLength(ch, f, a) = (e - a) + 1
  BY RunEnds
<1> QED BY <1>0, <1>1

\* Together the runs are the new lines.
LEMMA RunsCover ==
  ASSUME NEW ch, NEW f, \A m : <<f, m>> \in ch => m \in 1..MaxLine, NEW l \in 1..MaxLine
  PROVE  <<f, l>> \in ch <=> \E r \in Runs(ch, f, MaxLine) : l >= r[1] /\ l <= r[2]
<1>0. MaxLine \in Nat BY LinesAssumption
<1>1. ASSUME NEW r \in Runs(ch, f, MaxLine), l >= r[1], l <= r[2] PROVE <<f, l>> \in ch
  <2>1. PICK a \in 1..MaxLine : StartsRun(ch, f, a) /\ r = Run(ch, f, a) BY DEF Runs
  <2>2. PICK e \in a..MaxLine : /\ \A m \in a..e : <<f, m>> \in ch
                                /\ D!RunLength(ch, f, a) = (e - a) + 1
    BY <2>1, RunEnds DEF StartsRun
  <2>3. r[1] = a /\ r[2] = a + (D!RunLength(ch, f, a) - 1) BY <2>1 DEF Run
  <2>4. r[2] = e BY <1>0, <2>2, <2>3
  <2>5. l \in a..e BY <1>0, <1>1, <2>3, <2>4
  <2> QED BY <2>2, <2>5
<1>2. ASSUME <<f, l>> \in ch PROVE \E r \in Runs(ch, f, MaxLine) : l >= r[1] /\ l <= r[2]
  <2> DEFINE A == {b \in 1..l : \A m \in b..l : <<f, m>> \in ch}
  <2>1. A \in SUBSET Nat /\ A # {}
    <3>1. \A m \in l..l : m = l BY <1>0
    <3>2. l \in A BY <1>0, <1>2, <3>1
    <3> QED BY <3>2
  <2>2. PICK a \in A : \A b \in A : a <= b
    <3> HIDE DEF A
    <3> QED BY <2>1, LeastNatural
  <2>3. a \in 1..MaxLine /\ a <= l /\ \A m \in a..l : <<f, m>> \in ch BY <1>0, <2>2
  <2>4. <<f, a>> \in ch BY <1>0, <2>3
  <2>5. <<f, a - 1>> \notin ch
    <3> SUFFICES ASSUME <<f, a - 1>> \in ch PROVE FALSE OBVIOUS
    <3>1. a - 1 \in 1..l BY <1>0, <2>3
    <3>2. \A m \in (a - 1)..l : m = a - 1 \/ m \in a..l BY <1>0, <2>3
    <3>3. a - 1 \in A BY <2>3, <3>1, <3>2
    <3>4. a <= a - 1 BY <2>2, <3>3
    <3> QED BY <1>0, <2>3, <3>4
  <2>6. PICK e \in a..MaxLine : /\ e < MaxLine => <<f, e + 1>> \notin ch
                                /\ D!RunLength(ch, f, a) = (e - a) + 1
    BY <2>3, <2>4, RunEnds
  <2>7. l <= e
    <3> SUFFICES ASSUME l > e PROVE FALSE BY <1>0, <2>6
    <3>1. e + 1 \in a..l /\ e < MaxLine BY <1>0, <2>3, <2>6
    <3> QED BY <2>3, <2>6, <3>1
  <2> DEFINE r == Run(ch, f, a)
  <2>8. r \in Runs(ch, f, MaxLine) BY <2>3, <2>4, <2>5 DEF Runs, StartsRun
  <2>9. r[1] = a /\ r[2] = a + (D!RunLength(ch, f, a) - 1) BY DEF Run
  <2>10. r[2] = e BY <1>0, <2>3, <2>6, <2>9
  <2> QED BY <1>0, <2>3, <2>7, <2>8, <2>9, <2>10
<1> QED BY <1>1, <1>2

\* The tokens of git's output.
Added(f, l) == [k |-> "+", text |-> IF <<f, l>> \in DOMAIN Looks THEN Looks[<<f, l>>] ELSE NoFile]
Header(ch, f, l) == LET n == D!RunLength(ch, f, l) IN
                    [k |-> "@@", start |-> l, count |-> n, short |-> n = 1]
Removed(l) == [k |-> "@@", start |-> l, count |-> 0, short |-> FALSE]

\* What git prints at a line.
LEMMA AtLineCases ==
  ASSUME NEW ch, NEW cu, NEW f, NEW l \in 1..MaxLine
  PROVE  /\ StartsRun(ch, f, l) =>
              D!AtLine(ch, cu, Looks, f, l) = <<Header(ch, f, l)>> \o <<Added(f, l)>>
         /\ <<f, l>> \in ch /\ ~StartsRun(ch, f, l) =>
              D!AtLine(ch, cu, Looks, f, l) = << >> \o <<Added(f, l)>>
         /\ <<f, l>> \notin ch =>
              D!AtLine(ch, cu, Looks, f, l) \in {<<Removed(l)>>, << >>}
BY DEF D!AtLine, StartsRun, Header, Added, Removed

\* The lines of git's output are tokens.
LEMMA TokenTypes ==
  ASSUME NEW ch, NEW f, NEW l \in 1..MaxLine
  PROVE  /\ Added(f, l) \in Token /\ Added(f, l).k = "+"
         /\ <<f, l>> \in ch => /\ Header(ch, f, l) \in Token /\ Header(ch, f, l).k = "@@"
                               /\ Header(ch, f, l).start = l
                               /\ D!HunkCount(Header(ch, f, l)) = D!RunLength(ch, f, l)
                               /\ D!HunkCount(Header(ch, f, l)) # 0
         /\ Removed(l) \in Token /\ Removed(l).k = "@@" /\ D!HunkCount(Removed(l)) = 0
<1>0. l \in Nat BY LinesAssumption
<1>1. Added(f, l) \in Token /\ Added(f, l).k = "+"
  BY LinesAssumption DEF Added, Token, Path
<1>2. Removed(l) \in Token /\ Removed(l).k = "@@" /\ D!HunkCount(Removed(l)) = 0
  BY <1>0 DEF Removed, Token, D!HunkCount
<1>3. ASSUME <<f, l>> \in ch
      PROVE  /\ Header(ch, f, l) \in Token /\ Header(ch, f, l).k = "@@"
             /\ Header(ch, f, l).start = l
             /\ D!HunkCount(Header(ch, f, l)) = D!RunLength(ch, f, l)
             /\ D!HunkCount(Header(ch, f, l)) # 0
  <2> DEFINE n == D!RunLength(ch, f, l)
  <2>1. n \in Nat \ {0} BY <1>3, RunLengthType
  <2>2. Header(ch, f, l) = [k |-> "@@", start |-> l, count |-> n, short |-> n = 1] BY DEF Header
  <2> HIDE DEF n
  <2> DEFINE t == Header(ch, f, l)
  <2>3. t.k = "@@" /\ t.start = l /\ t.count = n /\ t.short = (n = 1) BY <2>2
  <2>4. D!HunkCount(t) = n BY <2>3 DEF D!HunkCount
  <2>5. t \in Token
    <3>1. (n = 1) \in BOOLEAN OBVIOUS
    <3>2. t \in [k : {"@@"}, start : Nat, count : Nat, short : BOOLEAN] BY <1>0, <2>1, <2>2, <3>1
    <3> HIDE DEF t
    <3> QED BY <3>2 DEF Token
  <2> QED BY <2>1, <2>3, <2>4, <2>5 DEF n
<1> QED BY <1>1, <1>2, <1>3

\* A line of the file that does not print like a header leaves the parser at
\* the file and adds the run that starts there; any line leaves the files
\* alone that it does not name.
Names(ch, f, l, x) == <<f, l>> \in ch /\ <<f, l>> \in DOMAIN Looks /\ Looks[<<f, l>>] = x
Clean(ch, f, l) == ~(<<f, l>> \in ch /\ <<f, l>> \in DOMAIN Looks)
Started(ch, f, l) == IF StartsRun(ch, f, l) THEN {Run(ch, f, l)} ELSE {}

\* The parser after the lines of one line number.
LineRead(ch, f, l, st, p) ==
  /\ p \in PState
  /\ st.file = f /\ Clean(ch, f, l) =>
       p.file = f /\ p.byFile[f] = st.byFile[f] \cup Started(ch, f, l)
  /\ \A x \in Files : st.file # x /\ ~Names(ch, f, l, x) =>
       p.file # x /\ p.byFile[x] = st.byFile[x]

\* Parsing what git prints at a line.
LEMMA ParseAtLine ==
  ASSUME NEW ch, NEW cu, NEW f \in Files, NEW l \in 1..MaxLine, NEW st \in PState
  PROVE  /\ D!AtLine(ch, cu, Looks, f, l) \in Seq(Token)
         /\ LineRead(ch, f, l, st, Parsed(st, D!AtLine(ch, cu, Looks, f, l)))
<1> DEFINE at == D!AtLine(ch, cu, Looks, f, l)
           p == Parsed(st, at)
<1>p. p = Parsed(st, at) OBVIOUS
<1>l. at = D!AtLine(ch, cu, Looks, f, l) OBVIOUS
<1> HIDE DEF at, p
<1> SUFFICES /\ at \in Seq(Token) /\ p \in PState
             /\ st.file = f /\ Clean(ch, f, l) =>
                  p.file = f /\ p.byFile[f] = st.byFile[f] \cup Started(ch, f, l)
             /\ \A x \in Files : st.file # x /\ ~Names(ch, f, l, x) =>
                  p.file # x /\ p.byFile[x] = st.byFile[x]
  BY DEF LineRead, at, p
<1> DEFINE h == Header(ch, f, l)
           a == Added(f, l)
<1>n. NoFile \notin Files BY LinesAssumption
<1>t. a \in Token /\ a.k = "+" BY TokenTypes
<1>a. ASSUME NEW s \in PState, <<f, l>> \in ch
      PROVE  /\ Parsed(s, <<a>>) \in PState /\ Parsed(s, <<a>>).byFile = s.byFile
             /\ s.file = f /\ Clean(ch, f, l) => Parsed(s, <<a>>).file = f
             /\ \A x \in Files : s.file # x /\ ~Names(ch, f, l, x) => Parsed(s, <<a>>).file # x
  <2>1. Parsed(s, <<a>>) = D!ParseLine(s, a)
    <3> HIDE DEF a
    <3> QED BY <1>t, ParsedOne
  <2>2. /\ D!ParseLine(s, a) \in PState /\ D!ParseLine(s, a).byFile = s.byFile
        /\ D!ParseLine(s, a).file = IF a.text = NoFile THEN s.file ELSE a.text
    <3> HIDE DEF a
    <3> QED BY <1>t, ParseHeader
  <2>3. a.text = IF <<f, l>> \in DOMAIN Looks THEN Looks[<<f, l>>] ELSE NoFile BY DEF Added
  <2>4. <<f, l>> \in DOMAIN Looks => Looks[<<f, l>>] \in Files BY LinesAssumption
  <2> HIDE DEF a
  <2> QED BY <1>a, <1>n, <2>1, <2>2, <2>3, <2>4 DEF Clean, Names
<1>1. CASE StartsRun(ch, f, l)
  <2>1. <<f, l>> \in ch BY <1>1 DEF StartsRun
  <2>2. at = <<h>> \o <<a>> BY <1>1, <1>l, AtLineCases
  <2>3. h \in Token /\ h.k = "@@" /\ h.start = l /\ D!HunkCount(h) = D!RunLength(ch, f, l) /\ D!HunkCount(h) # 0
    BY <2>1, TokenTypes
  <2> DEFINE q == Parsed(st, <<h>>)
  <2> HIDE DEF h, a
  <2>4. q = D!ParseLine(st, h) BY <2>3, ParsedOne
  <2>5. /\ q \in PState /\ q.file = st.file
        /\ \A x \in Files : q.byFile[x] = st.byFile[x] \cup (IF st.file = x THEN {Run(ch, f, l)} ELSE {})
    BY <2>3, <2>4, ParseHunk DEF Run
  <2>7. at \in Seq(Token) /\ p = Parsed(q, <<a>>)
    <3> DEFINE hs == <<h>>
               as == <<a>>
    <3>1. hs \in Seq(Token) /\ as \in Seq(Token) /\ at = hs \o as /\ q = Parsed(st, hs) BY <1>t, <2>2, <2>3
    <3> HIDE DEF hs, as, q
    <3>2. hs \o as \in Seq(Token) /\ Parsed(st, hs \o as) = Parsed(Parsed(st, hs), as)
      BY <3>1, ParsedConcat
    <3> QED BY <1>p, <3>1, <3>2 DEF as
  <2> HIDE DEF q
  <2>8. Started(ch, f, l) = {Run(ch, f, l)} BY <1>1 DEF Started
  <2>9. /\ p \in PState /\ p.byFile = q.byFile
        /\ q.file = f /\ Clean(ch, f, l) => p.file = f
        /\ \A x \in Files : q.file # x /\ ~Names(ch, f, l, x) => p.file # x
    BY <2>1, <2>5, <2>7, <1>a
  <2>10. ASSUME st.file = f, Clean(ch, f, l)
         PROVE  p.file = f /\ p.byFile[f] = st.byFile[f] \cup Started(ch, f, l)
    BY <2>5, <2>8, <2>9, <2>10
  <2>11. ASSUME NEW x \in Files, st.file # x, ~Names(ch, f, l, x)
         PROVE  p.file # x /\ p.byFile[x] = st.byFile[x]
    BY <2>5, <2>9, <2>11
  <2> QED BY <2>7, <2>9, <2>10, <2>11
<1>2. CASE <<f, l>> \in ch /\ ~StartsRun(ch, f, l)
  <2> HIDE DEF a
  <2>1. at = <<a>>
    <3>1. at = << >> \o <<a>> BY <1>2, <1>l, AtLineCases DEF a
    <3> QED BY <3>1
  <2>2. at \in Seq(Token) BY <1>t, <2>1
  <2>3. Started(ch, f, l) = {} BY <1>2 DEF Started
  <2>4. p = Parsed(st, <<a>>) BY <1>p, <2>1
  <2> QED BY <1>2, <2>2, <2>3, <2>4, <1>a
<1>3. CASE <<f, l>> \notin ch
  <2>1. at \in {<<Removed(l)>>, << >>} BY <1>3, <1>l, AtLineCases
  <2>2. Started(ch, f, l) = {} BY <1>3 DEF Started, StartsRun
  <2>3. at \in Seq(Token) /\ p \in PState /\ p.file = st.file /\ \A x \in Files : p.byFile[x] = st.byFile[x]
    <3>1. CASE at = << >> BY <1>p, <3>1, ParsedEmpty
    <3>2. CASE at = <<Removed(l)>>
      <4> DEFINE t == Removed(l)
      <4>1. t \in Token /\ t.k = "@@" /\ D!HunkCount(t) = 0 BY TokenTypes
      <4>2. at = <<t>> BY <3>2
      <4> HIDE DEF t
      <4>3. at \in Seq(Token) /\ p = D!ParseLine(st, t) BY <1>p, <4>1, <4>2, ParsedOne
      <4>4. /\ D!ParseLine(st, t) \in PState /\ D!ParseLine(st, t).file = st.file
            /\ \A x \in Files : D!ParseLine(st, t).byFile[x] =
                 st.byFile[x] \cup (IF st.file = x /\ D!HunkCount(t) # 0
                                    THEN {<<t.start, t.start + D!HunkCount(t) - 1>>} ELSE {})
        BY <4>1, ParseHunk
      <4>5. \A x \in Files : D!ParseLine(st, t).byFile[x] = st.byFile[x]
        BY <4>1, <4>4
      <4> QED BY <4>3, <4>4, <4>5
    <3> QED BY <2>1, <3>1, <3>2
  <2> QED BY <2>2, <2>3
<1> QED BY <1>1, <1>2, <1>3 DEF StartsRun

\* Blocks of tokens one after another.
Joins(h, N, T, b) ==
  h \in [0..N -> Seq(T)] /\ h[0] = << >> /\ \A l \in 1..N : h[l] = h[l - 1] \o b[l]

\* There is a join of every list of blocks.
LEMMA JoinsExist ==
  ASSUME NEW N \in Nat, NEW T, NEW b \in [1..N -> Seq(T)]
  PROVE  \E h : Joins(h, N, T, b)
<1> DEFINE S == Seq(T)
           empty == << >>
           st == [x \in (1..N) \X S |-> x[2] \o b[x[1]]]
<1>1. empty \in S /\ \A s \in S : \A l \in 1..N : s \o b[l] \in S OBVIOUS
<1>e. empty = << >> OBVIOUS
<1>s. S = Seq(T) OBVIOUS
<1> HIDE DEF S, empty
<1>2. st \in Steps(N, S) BY <1>1 DEF Steps
<1>3. \A l \in 1..N, s \in S : st[<<l, s>>] = s \o b[l] OBVIOUS
<1> HIDE DEF st
<1>4. PICK g : Follows(g, N, S, empty, st) BY <1>1, <1>2, Recursion
<1>5. /\ g \in [0..N -> S] /\ g[0] = empty
      /\ \A l \in 1..N : g[l] = st[<<l, g[l - 1]>>]
  BY <1>4 DEF Follows
<1>6. \A l \in 1..N : g[l] = g[l - 1] \o b[l]
  <2> TAKE l \in 1..N
  <2>1. g[l - 1] \in S BY <1>5
  <2>2. st[<<l, g[l - 1]>>] = g[l - 1] \o b[l] BY <1>3, <2>1
  <2> QED BY <1>5, <2>2
<1> QED BY <1>5, <1>6, <1>e, <1>s DEF Joins

\* What the recursive definitions of Diff say is a join.
LEMMA JoinsFollow ==
  ASSUME NEW N \in Nat, NEW T, NEW b \in [1..N -> Seq(T)],
         NEW h, DOMAIN h = 0..N, h = [l \in DOMAIN h |-> h[l]],
         \A l \in 0..N : h[l] = IF l = 0 THEN << >> ELSE h[l - 1] \o b[l]
  PROVE  Joins(h, N, T, b)
<1>1. h[0] = << >> /\ \A l \in 1..N : h[l] = h[l - 1] \o b[l]
  <2>1. 0 \in 0..N /\ \A l \in 1..N : l \in 0..N /\ l # 0 OBVIOUS
  <2> QED BY <2>1
<1>2. \A n \in 0..N : h[n] \in Seq(T)
  <2> DEFINE X == {n \in 0..N : h[n] \in Seq(T)}
  <2>1. 0 \in X
    <3>1. << >> \in Seq(T) OBVIOUS
    <3>2. h[0] \in Seq(T) /\ 0 \in 0..N BY <1>1, <3>1
    <3> QED BY <3>2
  <2>2. ASSUME NEW n \in 1..N, n - 1 \in X PROVE n \in X
    <3>1. h[n - 1] \in Seq(T) /\ h[n] = h[n - 1] \o b[n] /\ b[n] \in Seq(T) BY <1>1, <2>2
    <3>2. h[n] \in Seq(T) BY <3>1
    <3> QED BY <3>2
  <2> HIDE DEF X
  <2>3. \A n \in 0..N : n \in X BY <2>1, <2>2, UpTo
  <2> QED BY <2>3 DEF X
<1> QED BY <1>1, <1>2 DEF Joins

\* The hunks of a file, line by line.
LEMMA HunksJoin ==
  ASSUME NEW ch, NEW cu, NEW f \in Files
  PROVE  Joins(D!HunksUpTo(ch, cu, Looks, f), MaxLine, Token,
               [l \in 1..MaxLine |-> D!AtLine(ch, cu, Looks, f, l)])
<1> DEFINE at(l) == D!AtLine(ch, cu, Looks, f, l)
           b == [l \in 1..MaxLine |-> at(l)]
           h == D!HunksUpTo(ch, cu, Looks, f)
           Is(g) == g = [l \in 0..MaxLine |-> IF l = 0 THEN << >> ELSE g[l - 1] \o at(l)]
<1>0. MaxLine \in Nat BY LinesAssumption
<1>1. b \in [1..MaxLine -> Seq(Token)]
  <2> SUFFICES ASSUME NEW l \in 1..MaxLine PROVE at(l) \in Seq(Token) OBVIOUS
  <2> DEFINE s0 == [file |-> NoFile, byFile |-> [x \in Files |-> {}]]
  <2>1. s0 \in PState BY DEF PState, Path
  <2> HIDE DEF s0
  <2> QED BY <2>1, ParseAtLine
<1>2. h = CHOOSE g : Is(g) BY DEF D!HunksUpTo
<1>3. \A l \in 1..MaxLine : b[l] = at(l) OBVIOUS
<1> HIDE DEF b, h, at
<1>4. PICK g : Joins(g, MaxLine, Token, b) BY <1>0, <1>1, JoinsExist
<1>5. Is(g)
  <2>1. \A l \in 0..MaxLine : g[l] = IF l = 0 THEN << >> ELSE g[l - 1] \o at(l)
    <3>1. g[0] = << >> /\ \A l \in 1..MaxLine : g[l] = g[l - 1] \o b[l] BY <1>4 DEF Joins
    <3>2. \A l \in 0..MaxLine : l # 0 => l \in 1..MaxLine BY <1>0
    <3> QED BY <1>3, <3>1, <3>2
  <2> QED BY <1>4, <2>1 DEF Joins
<1>6. Is(h)
  <2> HIDE DEF Is
  <2> QED BY <1>2, <1>5
<1>7. /\ DOMAIN h = 0..MaxLine /\ h = [l \in DOMAIN h |-> h[l]]
      /\ \A l \in 0..MaxLine : h[l] = IF l = 0 THEN << >> ELSE h[l - 1] \o at(l)
  BY <1>6
<1>8. \A l \in 0..MaxLine : h[l] = IF l = 0 THEN << >> ELSE h[l - 1] \o b[l]
  <2>1. \A l \in 0..MaxLine : l # 0 => l \in 1..MaxLine BY <1>0
  <2> QED BY <1>3, <1>7, <2>1
<1>9. Joins(h, MaxLine, Token, b) BY <1>0, <1>1, <1>7, <1>8, JoinsFollow
<1> QED BY <1>9 DEF h, b, at

\* Parsing the hunks of a file, from its header on.
Unnamed(ch, f, x) == \A l \in 1..MaxLine : ~Names(ch, f, l, x)

\* The parser after the hunks of a file.
HunksRead(ch, f, st, p) ==
  /\ p \in PState
  /\ (\A l \in 1..MaxLine : Clean(ch, f, l)) => p.byFile[f] = st.byFile[f] \cup Runs(ch, f, MaxLine)
  /\ \A x \in Files : x # f /\ Unnamed(ch, f, x) => p.byFile[x] = st.byFile[x]

\* Parsing the hunks of a file adds the runs of its new lines to it.
LEMMA ParseHunks ==
  ASSUME NEW ch, NEW cu, NEW f \in Files, NEW st \in PState, st.file = f
  PROVE  /\ D!Hunks(ch, cu, Looks, f) \in Seq(Token)
         /\ HunksRead(ch, f, st, Parsed(st, D!Hunks(ch, cu, Looks, f)))
<1> DEFINE h == D!HunksUpTo(ch, cu, Looks, f)
           at(l) == D!AtLine(ch, cu, Looks, f, l)
           P(l) == Parsed(st, h[l])
           Good(l) ==
             /\ h[l] \in Seq(Token) /\ P(l) \in PState
             /\ (\A m \in 1..l : Clean(ch, f, m)) =>
                  P(l).file = f /\ P(l).byFile[f] = st.byFile[f] \cup Runs(ch, f, l)
             /\ \A x \in Files : x # f /\ Unnamed(ch, f, x) => P(l).file # x /\ P(l).byFile[x] = st.byFile[x]
           X == {l \in 0..MaxLine : Good(l)}
<1>0. MaxLine \in Nat BY LinesAssumption
<1>1. /\ h[0] = << >> /\ \A l \in 0..MaxLine : h[l] \in Seq(Token)
      /\ \A l \in 1..MaxLine : h[l] = h[l - 1] \o at(l)
  <2> DEFINE b == [l \in 1..MaxLine |-> at(l)]
  <2>1. Joins(h, MaxLine, Token, b) BY HunksJoin
  <2>2. \A l \in 1..MaxLine : b[l] = at(l) OBVIOUS
  <2> HIDE DEF h, b, at
  <2> QED BY <2>1, <2>2 DEF Joins
<1>h. D!Hunks(ch, cu, Looks, f) = h[MaxLine] BY DEF D!Hunks
<1>t. \A l \in 1..MaxLine, s \in PState : at(l) \in Seq(Token) /\ LineRead(ch, f, l, s, Parsed(s, at(l)))
  BY ParseAtLine
<1> HIDE DEF h, at
<1>2. 0 \in X
  <2>1. h[0] \in Seq(Token) /\ P(0) = st BY <1>1, ParsedEmpty, <1>0
  <2>2. Runs(ch, f, 0) = {} BY DEF Runs
  <2>3. Good(0) BY <2>1, <2>2
  <2> HIDE DEF Good
  <2> QED BY <1>0, <2>3
<1>3. ASSUME NEW l \in 1..MaxLine, l - 1 \in X PROVE l \in X
  <2> DEFINE q == P(l - 1)
             n == P(l)
  <2>1. /\ h[l - 1] \in Seq(Token) /\ q \in PState
        /\ (\A m \in 1..(l - 1) : Clean(ch, f, m)) =>
             q.file = f /\ q.byFile[f] = st.byFile[f] \cup Runs(ch, f, l - 1)
        /\ \A x \in Files : x # f /\ Unnamed(ch, f, x) => q.file # x /\ q.byFile[x] = st.byFile[x]
    BY <1>3
  <2>2. at(l) \in Seq(Token) BY <1>t, <2>1
  <2>3. h[l] \in Seq(Token) /\ n = Parsed(q, at(l))
    <3>1. h[l] = h[l - 1] \o at(l) BY <1>1
    <3>2. h[l - 1] \o at(l) \in Seq(Token) /\ Parsed(st, h[l - 1] \o at(l)) = Parsed(Parsed(st, h[l - 1]), at(l))
      BY <2>1, <2>2, ParsedConcat
    <3> QED BY <3>1, <3>2
  <2>q. n = P(l) /\ l \in 0..MaxLine BY <1>0
  <2> HIDE DEF q, n, P
  <2>4. /\ n \in PState
        /\ q.file = f /\ Clean(ch, f, l) =>
             n.file = f /\ n.byFile[f] = q.byFile[f] \cup Started(ch, f, l)
        /\ \A x \in Files : q.file # x /\ ~Names(ch, f, l, x) =>
             n.file # x /\ n.byFile[x] = q.byFile[x]
    BY <1>t, <2>1, <2>3 DEF LineRead
  <2>5. Runs(ch, f, l) = Runs(ch, f, l - 1) \cup Started(ch, f, l)
    <3>1. \A b \in 1..l : b \in 1..(l - 1) \/ b = l BY <1>0
    <3>2. \A b \in 1..(l - 1) : b \in 1..l BY <1>0
    <3>3. l \in 1..l BY <1>0
    <3> QED BY <3>1, <3>2, <3>3 DEF Runs, Started
  <2>6. ASSUME \A m \in 1..l : Clean(ch, f, m)
        PROVE  n.file = f /\ n.byFile[f] = st.byFile[f] \cup Runs(ch, f, l)
    <3>1. Clean(ch, f, l) /\ \A m \in 1..(l - 1) : Clean(ch, f, m) BY <1>0, <2>6
    <3> QED BY <2>1, <2>4, <2>5, <3>1
  <2>7. ASSUME NEW x \in Files, x # f, Unnamed(ch, f, x)
        PROVE  n.file # x /\ n.byFile[x] = st.byFile[x]
    <3>1. ~Names(ch, f, l, x) BY <2>7 DEF Unnamed
    <3> QED BY <2>1, <2>4, <2>7, <3>1
  <2>8. Good(l) BY <2>3, <2>4, <2>6, <2>7, <2>q
  <2> HIDE DEF Good
  <2> QED BY <2>8, <2>q
<1>4. MaxLine \in X
  <2> HIDE DEF X
  <2>1. \A l \in 0..MaxLine : l \in X BY <1>0, <1>2, <1>3, UpTo
  <2> QED BY <1>0, <2>1
<1>5. Good(MaxLine)
  <2> HIDE DEF Good
  <2> QED BY <1>4
<1>6. HunksRead(ch, f, st, P(MaxLine)) BY <1>5 DEF HunksRead
<1> QED BY <1>5, <1>6, <1>h

\* Two lines of output are two steps of the parser.
LEMMA ParsedTwo ==
  ASSUME NEW st \in PState, NEW t \in Token, NEW u \in Token
  PROVE  Parsed(st, <<t, u>>) = D!ParseLine(D!ParseLine(st, t), u)
<1> DEFINE o == <<t, u>>
<1>1. o \in Seq(Token) /\ Len(o) = 2 /\ o[1] = t /\ o[2] = u OBVIOUS
<1> HIDE DEF o
<1>2. /\ D!ParseFrom(st, o)[0] = st
      /\ \A i \in 1..2 : D!ParseFrom(st, o)[i] = D!ParseLine(D!ParseFrom(st, o)[i - 1], o[i])
  BY <1>1, ParseFromDefined
<1>3. /\ D!ParseFrom(st, o)[1] = D!ParseLine(D!ParseFrom(st, o)[0], o[1])
      /\ D!ParseFrom(st, o)[2] = D!ParseLine(D!ParseFrom(st, o)[1], o[2])
  <2>1. 1 \in 1..2 /\ 1 - 1 = 0 /\ 2 \in 1..2 /\ 2 - 1 = 1 OBVIOUS
  <2> QED BY <1>2, <2>1
<1> QED BY <1>1, <1>2, <1>3 DEF Parsed, o

\* The header of a file.
LEMMA ParseFileHeader ==
  ASSUME NEW st \in PState, NEW x \in Path
  PROVE  LET o == <<[k |-> "git"], [k |-> "+++", path |-> x]>> IN
         /\ o \in Seq(Token) /\ Parsed(st, o) \in PState
         /\ Parsed(st, o).file = x /\ Parsed(st, o).byFile = st.byFile
<1> DEFINE g == [k |-> "git"]
           h == [k |-> "+++", path |-> x]
<1>1. /\ g \in Token /\ g.k = "git" /\ h \in Token /\ h.k = "+++" /\ h.path = x BY DEF Token
<1> SUFFICES LET o == <<g, h>> IN
             /\ o \in Seq(Token) /\ Parsed(st, o) \in PState
             /\ Parsed(st, o).file = x /\ Parsed(st, o).byFile = st.byFile
  OBVIOUS
<1> HIDE DEF g, h
<1>2. <<g, h>> \in Seq(Token) BY <1>1
<1> DEFINE q == D!ParseLine(st, g)
<1>3. q \in PState /\ q.byFile = st.byFile BY <1>1, ParseHeader
<1>4. Parsed(st, <<g, h>>) = D!ParseLine(q, h) BY <1>1, ParsedTwo
<1> HIDE DEF q
<1>5. D!ParseLine(q, h) \in PState /\ D!ParseLine(q, h).file = x /\ D!ParseLine(q, h).byFile = q.byFile
  BY <1>1, <1>3, ParseHeader
<1> QED BY <1>2, <1>3, <1>4, <1>5

\* One file of the output.
FileRead(ch, dead, f, st, p) ==
  /\ p \in PState
  /\ f \notin dead /\ (\A l \in 1..MaxLine : Clean(ch, f, l)) =>
       p.byFile[f] = st.byFile[f] \cup Runs(ch, f, MaxLine)
  /\ \A x \in Files : (x # f \/ f \in dead) /\ Unnamed(ch, f, x) => p.byFile[x] = st.byFile[x]

\* Parsing the part of one file, from any state of the parser.
LEMMA ParseFileDiff ==
  ASSUME NEW ch, NEW cu, NEW dead, NEW f \in Files, NEW st \in PState
  PROVE  /\ D!FileDiff(ch, cu, Looks, dead, f) \in Seq(Token)
         /\ FileRead(ch, dead, f, st, Parsed(st, D!FileDiff(ch, cu, Looks, dead, f)))
<1> DEFINE o == D!FileDiff(ch, cu, Looks, dead, f)
           H == D!Hunks(ch, cu, Looks, f)
           top(x) == <<[k |-> "git"], [k |-> "+++", path |-> x]>>
           z == [k |-> "@@", start |-> 0, count |-> 0, short |-> FALSE]
<1>n. NoFile \in Path /\ f \in Path BY DEF Path
<1>t. \A x \in Path : /\ top(x) \in Seq(Token) /\ Parsed(st, top(x)) \in PState
                      /\ Parsed(st, top(x)).file = x /\ Parsed(st, top(x)).byFile = st.byFile
  BY ParseFileHeader
<1>1. CASE f \in dead
  <2>1. z \in Token /\ z.k = "@@" /\ D!HunkCount(z) = 0 BY DEF Token, D!HunkCount
  <2>2. o = top(NoFile) \o <<z>>
    <3>1. o = <<[k |-> "git"], [k |-> "+++", path |-> NoFile], z>> BY <1>1 DEF D!FileDiff
    <3> DEFINE a1 == [k |-> "git"]
               a2 == [k |-> "+++", path |-> NoFile]
    <3>2. o = <<a1, a2, z>> /\ top(NoFile) = <<a1, a2>> BY <3>1
    <3> HIDE DEF a1, a2, z, o, top
    <3>3. <<a1, a2, z>> = <<a1, a2>> \o <<z>> OBVIOUS
    <3> QED BY <3>2, <3>3
  <2> DEFINE q == Parsed(st, top(NoFile))
             zs == <<z>>
  <2>3. q \in PState /\ q.file = NoFile /\ q.byFile = st.byFile /\ top(NoFile) \in Seq(Token) BY <1>n, <1>t
  <2>z. zs \in Seq(Token)
    <3> HIDE DEF z
    <3> QED BY <2>1
  <2>4. o \in Seq(Token) /\ Parsed(st, o) = Parsed(q, zs)
    <3>1. o = top(NoFile) \o zs BY <2>2
    <3> HIDE DEF top, zs, o
    <3>2. top(NoFile) \o zs \in Seq(Token) /\ Parsed(st, top(NoFile) \o zs) = Parsed(Parsed(st, top(NoFile)), zs)
      BY <2>3, <2>z, ParsedConcat
    <3> QED BY <3>1, <3>2
  <2> HIDE DEF q, z, o
  <2>5. Parsed(q, zs) = D!ParseLine(q, z) BY <2>1, <2>3, ParsedOne
  <2>6. D!ParseLine(q, z) = q BY <2>1, <2>3 DEF D!ParseLine
  <2>7. Parsed(st, o) \in PState /\ Parsed(st, o).byFile = st.byFile BY <2>3, <2>4, <2>5, <2>6
  <2>8. FileRead(ch, dead, f, st, Parsed(st, o)) BY <1>1, <2>7 DEF FileRead
  <2> QED BY <2>4, <2>8 DEF o
<1>2. CASE f \notin dead
  <2>h. H \in Seq(Token)
    <3> DEFINE s0 == [file |-> f, byFile |-> [x \in Files |-> {}]]
    <3>1. s0 \in PState /\ s0.file = f BY DEF PState, Path
    <3> HIDE DEF s0
    <3> QED BY <3>1, ParseHunks
  <2>1. CASE H = << >>
    <3>1. o = << >> BY <1>2, <2>1 DEF D!FileDiff
    <3>2. Parsed(st, o) = st /\ o \in Seq(Token) BY <3>1, ParsedEmpty
    <3>3. ASSUME \A l \in 1..MaxLine : Clean(ch, f, l) PROVE Runs(ch, f, MaxLine) = {}
      <4> DEFINE s0 == [file |-> f, byFile |-> [x \in Files |-> {}]]
      <4>1. s0 \in PState /\ s0.file = f /\ s0.byFile[f] = {} BY DEF PState, Path
      <4> HIDE DEF s0
      <4> DEFINE p == Parsed(s0, H)
      <4>2. HunksRead(ch, f, s0, p) BY <4>1, ParseHunks
      <4>3. Parsed(s0, H) = s0 BY <2>1, <4>1, ParsedEmpty
      <4> QED BY <3>3, <4>1, <4>2, <4>3 DEF HunksRead
    <3> HIDE DEF o
    <3>4. FileRead(ch, dead, f, st, Parsed(st, o))
      <4>1. (\A l \in 1..MaxLine : Clean(ch, f, l)) => st.byFile[f] = st.byFile[f] \cup Runs(ch, f, MaxLine)
        BY <3>3
      <4> QED BY <3>2, <4>1 DEF FileRead
    <3> QED BY <3>2, <3>4 DEF o
  <2>2. CASE H # << >>
    <3> DEFINE q == Parsed(st, top(f))
    <3>1. o = top(f) \o H BY <1>2, <2>2 DEF D!FileDiff
    <3>2. q \in PState /\ q.file = f /\ q.byFile = st.byFile /\ top(f) \in Seq(Token) BY <1>n, <1>t
    <3>3. o \in Seq(Token) /\ Parsed(st, o) = Parsed(q, H)
      <4> HIDE DEF top, H, o
      <4>1. top(f) \o H \in Seq(Token) /\ Parsed(st, top(f) \o H) = Parsed(Parsed(st, top(f)), H)
        BY <2>h, <3>2, ParsedConcat
      <4> QED BY <3>1, <4>1
    <3> HIDE DEF q, o
    <3> DEFINE p == Parsed(q, H)
    <3>4. /\ p \in PState
          /\ (\A l \in 1..MaxLine : Clean(ch, f, l)) => p.byFile[f] = q.byFile[f] \cup Runs(ch, f, MaxLine)
          /\ \A x \in Files : x # f /\ Unnamed(ch, f, x) => p.byFile[x] = q.byFile[x]
      BY <3>2, ParseHunks DEF HunksRead
    <3> HIDE DEF p
    <3>5. FileRead(ch, dead, f, st, p) BY <1>2, <3>2, <3>4 DEF FileRead
    <3> QED BY <3>3, <3>5 DEF o, p
  <2> QED BY <2>1, <2>2
<1> QED BY <1>1, <1>2

\* git's output is the join of the parts of the files.
LEMMA DiffJoins ==
  ASSUME NEW ch, NEW cu, NEW dead
  PROVE  Joins(D!DiffUpTo(ch, cu, Looks, dead), Len(FileOrder), Token,
               [i \in 1..Len(FileOrder) |-> D!FileDiff(ch, cu, Looks, dead, FileOrder[i])])
<1> DEFINE N == Len(FileOrder)
           at(i) == D!FileDiff(ch, cu, Looks, dead, FileOrder[i])
           b == [i \in 1..N |-> at(i)]
           h == D!DiffUpTo(ch, cu, Looks, dead)
           Is(g) == g = [i \in 0..N |-> IF i = 0 THEN << >> ELSE g[i - 1] \o at(i)]
<1>0. N \in Nat /\ \A i \in 1..N : FileOrder[i] \in Files BY TreeAssumption
<1>1. b \in [1..N -> Seq(Token)]
  <2> SUFFICES ASSUME NEW i \in 1..N PROVE at(i) \in Seq(Token) OBVIOUS
  <2> DEFINE s0 == [file |-> NoFile, byFile |-> [x \in Files |-> {}]]
             f == FileOrder[i]
  <2>1. s0 \in PState BY DEF PState, Path
  <2>2. f \in Files BY <1>0
  <2> HIDE DEF s0, f
  <2>3. D!FileDiff(ch, cu, Looks, dead, f) \in Seq(Token) BY <2>1, <2>2, ParseFileDiff
  <2> QED BY <2>3 DEF f
<1>2. h = CHOOSE g : Is(g) BY DEF D!DiffUpTo
<1>3. \A i \in 1..N : b[i] = at(i) OBVIOUS
<1>l. N = Len(FileOrder) OBVIOUS
<1> HIDE DEF b, h, at, N
<1>4. PICK g : Joins(g, N, Token, b) BY <1>0, <1>1, JoinsExist
<1>5. Is(g)
  <2>1. \A i \in 0..N : g[i] = IF i = 0 THEN << >> ELSE g[i - 1] \o at(i)
    <3>1. g[0] = << >> /\ \A i \in 1..N : g[i] = g[i - 1] \o b[i] BY <1>4 DEF Joins
    <3>2. \A i \in 0..N : i # 0 => i \in 1..N BY <1>0
    <3> QED BY <1>3, <3>1, <3>2
  <2> QED BY <1>4, <2>1 DEF Joins
<1>6. Is(h)
  <2> HIDE DEF Is
  <2> QED BY <1>2, <1>5
<1>7. /\ DOMAIN h = 0..N /\ h = [i \in DOMAIN h |-> h[i]]
      /\ \A i \in 0..N : h[i] = IF i = 0 THEN << >> ELSE h[i - 1] \o at(i)
  BY <1>6
<1>8. \A i \in 0..N : h[i] = IF i = 0 THEN << >> ELSE h[i - 1] \o b[i]
  <2>1. \A i \in 0..N : i # 0 => i \in 1..N BY <1>0
  <2> QED BY <1>3, <1>7, <2>1
<1>9. Joins(h, N, Token, b) BY <1>0, <1>1, <1>7, <1>8, JoinsFollow
<1> QED BY <1>9 DEF h, b, at, N

\* What the diff says of a file that does not print like a header and that no
\* other file names: the runs of its new lines, unless it is deleted.
Scope(ch, dead, untracked, x) ==
  (IF x \notin dead /\ x \in Files \ New THEN Runs(ch, x, MaxLine) ELSE {})
  \cup (IF x \in untracked THEN {<<1, D!Unbounded>>} ELSE {})

\* diff.Compute reads that scope from git's output and the untracked files.
LEMMA ComputeScope ==
  ASSUME NEW ch, NEW cu, NEW dead, NEW untracked, NEW x \in Files,
         \A l \in 1..MaxLine : Clean(ch, x, l), \A f \in Files : Unnamed(ch, f, x)
  PROVE  D!Compute(D!GitDiff(ch, cu, Looks, dead), untracked)[x] = Scope(ch, dead, untracked, x)
<1> DEFINE N == Len(FileOrder)
           h == D!DiffUpTo(ch, cu, Looks, dead)
           at(i) == D!FileDiff(ch, cu, Looks, dead, FileOrder[i])
           s0 == [file |-> NoFile, byFile |-> [f \in Files |-> {}]]
           P(i) == Parsed(s0, h[i])
           Runs1 == Runs(ch, x, MaxLine)
           Good(i) == /\ h[i] \in Seq(Token) /\ P(i) \in PState
                      /\ P(i).byFile[x] = IF x \notin dead /\ \E j \in 1..i : FileOrder[j] = x THEN Runs1 ELSE {}
           X == {i \in 0..N : Good(i)}
<1>0. N \in Nat /\ \A i \in 1..N : FileOrder[i] \in Files BY TreeAssumption
<1>1. /\ h[0] = << >> /\ \A i \in 1..N : h[i] = h[i - 1] \o at(i)
  <2> DEFINE b == [i \in 1..N |-> at(i)]
  <2>1. Joins(h, N, Token, b) BY DiffJoins
  <2>2. \A i \in 1..N : b[i] = at(i) OBVIOUS
  <2> HIDE DEF h, b, at, N
  <2> QED BY <2>1, <2>2 DEF Joins
<1>s. s0 \in PState /\ s0.byFile[x] = {} BY DEF PState, Path
<1>t. \A i \in 1..N, s \in PState : at(i) \in Seq(Token) /\ FileRead(ch, dead, FileOrder[i], s, Parsed(s, at(i)))
  BY <1>0, ParseFileDiff
<1>r. D!Compute(D!GitDiff(ch, cu, Looks, dead), untracked)[x]
        = P(N).byFile[x] \cup (IF x \in untracked THEN {<<1, D!Unbounded>>} ELSE {})
  <2>1. D!GitDiff(ch, cu, Looks, dead) = h[N] BY DEF D!GitDiff
  <2>2. D!ParseDiff(h[N]) = P(N).byFile BY DEF D!ParseDiff, Parsed
  <2>3. D!Compute(D!GitDiff(ch, cu, Looks, dead), untracked)[x]
          = D!ParseDiff(D!GitDiff(ch, cu, Looks, dead))[x] \cup (IF x \in untracked THEN {<<1, D!Unbounded>>} ELSE {})
    BY DEF D!Compute
  <2> QED BY <2>1, <2>2, <2>3
<1> HIDE DEF h, at, s0, N, Runs1
<1>2. 0 \in X
  <2>1. h[0] \in Seq(Token) /\ P(0) = s0 BY <1>1, <1>s, ParsedEmpty
  <2>2. ~\E j \in 1..0 : FileOrder[j] = x OBVIOUS
  <2>3. Good(0) BY <1>s, <2>1, <2>2
  <2> HIDE DEF Good
  <2> QED BY <1>0, <2>3
<1>3. ASSUME NEW i \in 1..N, i - 1 \in X PROVE i \in X
  <2> DEFINE q == P(i - 1)
             n == P(i)
             f == FileOrder[i]
  <2>1. /\ h[i - 1] \in Seq(Token) /\ q \in PState
        /\ q.byFile[x] = IF x \notin dead /\ \E j \in 1..(i - 1) : FileOrder[j] = x THEN Runs1 ELSE {}
    BY <1>3
  <2>2. at(i) \in Seq(Token) BY <1>t, <2>1
  <2>3. h[i] \in Seq(Token) /\ n = Parsed(q, at(i))
    <3>1. h[i] = h[i - 1] \o at(i) BY <1>1
    <3>2. h[i - 1] \o at(i) \in Seq(Token) /\ Parsed(s0, h[i - 1] \o at(i)) = Parsed(Parsed(s0, h[i - 1]), at(i))
      BY <1>s, <2>1, <2>2, ParsedConcat
    <3> QED BY <3>1, <3>2
  <2>q. n = P(i) /\ i \in 0..N BY <1>0
  <2> HIDE DEF q, n, P
  <2>4. FileRead(ch, dead, f, q, n) BY <1>t, <2>1, <2>3
  <2>f. f \in Files /\ f = FileOrder[i] BY <1>0
  <2> HIDE DEF f
  <2>u. \A l \in 1..MaxLine : Clean(ch, x, l) OBVIOUS
  <2>v. Unnamed(ch, f, x) BY <2>f
  <2>5. /\ n \in PState
        /\ n.byFile[x] = IF x \notin dead /\ \E j \in 1..i : FileOrder[j] = x THEN Runs1 ELSE {}
    <3>1. CASE f = x /\ x \notin dead
      <4>1. n.byFile[x] = q.byFile[x] \cup Runs1 BY <2>4, <2>u, <3>1 DEF FileRead, Runs1
      <4>2. \E j \in 1..i : FileOrder[j] = x
        <5>1. i \in 1..i BY <1>0
        <5> QED BY <2>f, <3>1, <5>1
      <4>3. n \in PState BY <2>4 DEF FileRead
      <4> QED BY <2>1, <3>1, <4>1, <4>2, <4>3
    <3>2. CASE ~(f = x /\ x \notin dead)
      <4>1. n.byFile[x] = q.byFile[x] /\ n \in PState BY <2>4, <2>v, <3>2 DEF FileRead
      <4>2. \A j \in 1..i : j \in 1..(i - 1) \/ j = i BY <1>0
      <4>3. \A j \in 1..(i - 1) : j \in 1..i BY <1>0
      <4>4. (x \notin dead /\ \E j \in 1..i : FileOrder[j] = x)
            <=> (x \notin dead /\ \E j \in 1..(i - 1) : FileOrder[j] = x)
        BY <2>f, <3>2, <4>2, <4>3
      <4> QED BY <2>1, <4>1, <4>4
    <3> QED BY <3>1, <3>2
  <2>8. Good(i) BY <2>3, <2>5, <2>q
  <2> HIDE DEF Good
  <2> QED BY <2>8, <2>q
<1>4. N \in X
  <2> HIDE DEF X
  <2>1. \A i \in 0..N : i \in X BY <1>0, <1>2, <1>3, UpTo
  <2> QED BY <1>0, <2>1
<1>5. Good(N)
  <2> HIDE DEF Good
  <2> QED BY <1>4
<1>6. x \in Files \ New <=> \E j \in 1..N : FileOrder[j] = x
  <2>1. DOMAIN FileOrder = 1..N /\ \A j \in 1..N : FileOrder[j] \in Files \ New BY TreeAssumption DEF N
  <2> QED BY <2>1, TreeAssumption
<1>7. P(N).byFile[x] = IF x \notin dead /\ x \in Files \ New THEN Runs1 ELSE {}
  BY <1>5, <1>6
<1> HIDE DEF P
<1> QED BY <1>7, <1>r DEF Scope, Runs1

-----------------------------------------------------------------------------
(* The loop *)

\* The lines git prints as added.
NewLines == changed \cup (IF shallow THEN Drift ELSE {})

\* The parsed diff is that of the code as it is.
DiffScoped ==
  \A x \in Files : (~Misread(x) /\ ~Stray(x)) => diff[x] = Scope(NewLines, gone, created, x)

\* The inductive invariant: the settings, where the changes are, and that
\* between the diff and the run the parsed diff is still that of the code.
LoopInv ==
  /\ SetupInv
  /\ changed \subseteq Editable /\ created \subseteq New /\ gone \subseteq Doomed
  /\ phase = "diffed" => DiffScoped

\* The diff the hook computes is that of the code at that moment.
LEMMA DiffScopedNow ==
  ASSUME NEW d, d = D!Compute(D!GitDiff(NewLines, cuts, Looks, gone), created),
         NEW x \in Files, ~Misread(x), ~Stray(x)
  PROVE  d[x] = Scope(NewLines, gone, created, x)
<1>1. ASSUME NEW l \in 1..MaxLine PROVE Clean(NewLines, x, l)
  BY DEF Clean, NewLines, Misread, IsNew
<1>2. ASSUME NEW f \in Files, NEW l \in 1..MaxLine, Names(NewLines, f, l, x) PROVE FALSE
  <2> DEFINE s == <<f, l>>
  <2>1. s \in DOMAIN Looks /\ Looks[s] = x /\ IsNew(f, l) BY <1>2 DEF Names, NewLines, IsNew
  <2>2. Misread(f) BY <2>1 DEF Misread
  <2>3. s[1] = f OBVIOUS
  <2> HIDE DEF s
  <2> QED BY <2>1, <2>2, <2>3 DEF Stray
<1>3. \A f \in Files : Unnamed(NewLines, f, x) BY <1>2 DEF Unnamed
<1> QED BY <1>1, <1>3, ComputeScope

\* A step that leaves the settings alone and does not end in the diff.
LEMMA CodeStep ==
  ASSUME LoopInv, UNCHANGED setupVars, phase' # "diffed",
         changed' \subseteq Editable, created' \subseteq New, gone' \subseteq Doomed
  PROVE  LoopInv'
<1>1. SetupInv' BY SetupInvStep DEF LoopInv
<1> QED BY <1>1 DEF LoopInv

\* LoopInv holds before the first prompt.
LEMMA LoopInvInit == Init => LoopInv
<1> SUFFICES ASSUME Init PROVE LoopInv OBVIOUS
<1>1. SetupInv BY SetupInvInit DEF Init
<1> QED BY <1>1 DEF Init, LoopInv

\* Every step keeps LoopInv.
LEMMA LoopInvStep ==
  ASSUME LoopInv, [Next]_vars PROVE LoopInv'
<1> USE DEF codeVars, hookVars
<1>0. changed \subseteq Editable /\ created \subseteq New /\ gone \subseteq Doomed BY DEF LoopInv
<1>1. CASE UNCHANGED vars
  <2>1. SetupInv' BY <1>1, SetupInvStep DEF LoopInv, vars
  <2>2. /\ UNCHANGED <<changed, created, gone, shallow, phase, diff>> BY <1>1 DEF vars
  <2>3. phase' = "diffed" => DiffScoped'
    BY <2>2 DEF LoopInv, DiffScoped, NewLines, Misread, Stray, IsNew
  <2> QED BY <1>0, <2>1, <2>2, <2>3 DEF LoopInv
<1>2. CASE Setup
  <2>1. SetupInv' BY <1>2, SetupInvStep DEF LoopInv, Setup
  <2>2. phase' # "diffed" /\ UNCHANGED <<changed, created, gone>> BY <1>2 DEF Setup
  <2> QED BY <1>0, <2>1, <2>2 DEF LoopInv
<1>3. CASE DeveloperRun BY <1>0, <1>3, CodeStep DEF DeveloperRun
<1>4. CASE Prompt BY <1>0, <1>4, CodeStep DEF Prompt
<1>5. CASE EditLine BY <1>0, <1>5, CodeStep DEF EditLine, Work
<1>6. CASE EditTree BY <1>0, <1>6, CodeStep DEF EditTree, Work
<1>7. CASE WriteTest BY <1>0, <1>7, CodeStep DEF WriteTest, Work
<1>8. CASE Accept BY <1>0, <1>8, CodeStep DEF Accept, Work
<1>9. CASE Stop BY <1>0, <1>9, CodeStep DEF Stop
<1>10. CASE OtherHook BY <1>0, <1>10, CodeStep DEF OtherHook, Allow, Block
<1>11. CASE HookDiff
  <2>1. UNCHANGED <<setupVars, changed, created, gone, shallow, cuts>> BY <1>11 DEF HookDiff
  <2>2. CASE phase' # "diffed" BY <1>0, <2>1, <2>2, CodeStep
  <2>3. CASE phase' = "diffed"
    <3>1. diff' = D!Compute(D!GitDiff(NewLines, cuts, Looks, gone), created)
      BY <1>11, <2>3 DEF HookDiff, Allow, NewLines
    <3>2. \A x \in Files : (~Misread(x) /\ ~Stray(x)) => diff'[x] = Scope(NewLines, gone, created, x)
      BY <3>1, DiffScopedNow
    <3>3. DiffScoped'
      BY <2>1, <3>2 DEF DiffScoped, NewLines, Misread, Stray, IsNew
    <3>4. SetupInv' BY <2>1, SetupInvStep DEF LoopInv
    <3> QED BY <1>0, <2>1, <3>3, <3>4 DEF LoopInv
  <2> QED BY <2>2, <2>3
<1>12. CASE HookRun
  <2>1. phase' # "diffed" BY <1>12 DEF HookRun, Allow, Block
  <2> QED BY <1>0, <1>12, <2>1, CodeStep DEF HookRun
<1>13. CASE HookKilled BY <1>0, <1>13, CodeStep DEF HookKilled, Allow
<1> QED BY <1>1, <1>2, <1>3, <1>4, <1>5, <1>6, <1>7, <1>8, <1>9, <1>10, <1>11, <1>12, <1>13 DEF Next

\* Whatever the agent, the developer and the hook do, and in whatever order,
\* the parsed diff the hook's run works on (main.go:1018) is that of the code
\* as it is when the run starts, and the settings are as init left them.
THEOREM LoopInvAlways == Spec => []LoopInv
<1>1. Init => LoopInv BY LoopInvInit
<1>2. LoopInv /\ [Next]_vars => LoopInv' BY LoopInvStep
<1> QED BY <1>1, <1>2, PTL DEF Spec

\* The same holds while turns of the agent and runs of the hook go on between the
\* runs of init (agent.go:145): hooks that do not read like Kanly's stay, every
\* Kanly hook has the score of the last init, and init adds at most one.
THEOREM LoopKeepsSettings == Spec => []SettingsKept
<1>1. LoopInv => SettingsKept BY DEF LoopInv, SetupInv
<1> QED BY <1>1, LoopInvAlways, PTL

\* The new lines lie in their files.
LEMMA NewLinesType ==
  ASSUME LoopInv PROVE \A f, m : <<f, m>> \in NewLines => m \in 1..MaxLine
<1>1. NewLines \subseteq Files \X (1..MaxLine) BY LinesAssumption DEF LoopInv, NewLines
<1> QED BY <1>1

\* What the diff includes of a file it did not misread, and when it touches it.
LEMMA ScopeRead ==
  ASSUME LoopInv, phase = "diffed", NEW f \in Files, ~Misread(f), ~Stray(f)
  PROVE  /\ Exists(f) => \A l \in 1..MaxLine : D!Includes(diff, f, l) <=> IsNew(f, l)
         /\ diff[f] # {} <=> (Exists(f) /\ \E l \in 1..MaxLine : IsNew(f, l))
<1>0. MaxLine \in Nat \ {0} BY LinesAssumption
<1>1. diff[f] = Scope(NewLines, gone, created, f) BY DEF LoopInv, DiffScoped
<1>2. created \subseteq New /\ gone \cap New = {} BY TreeAssumption DEF LoopInv
<1>3. \A m : <<f, m>> \in NewLines => m \in 1..MaxLine BY NewLinesType
<1>4. CASE f \in created
  <2>1. f \in New /\ f \notin gone /\ Exists(f) BY <1>2, <1>4 DEF Exists
  <2>2. diff[f] = {<<1, D!Unbounded>>} BY <1>1, <1>4, <2>1 DEF Scope
  <2>3. \A l \in 1..MaxLine : IsNew(f, l) BY <1>4 DEF IsNew
  <2>4. \A l \in 1..MaxLine : D!Includes(diff, f, l)
    <3> DEFINE r == <<1, D!Unbounded>>
    <3>1. r \in diff[f] /\ r[1] = 1 /\ r[2] = MaxLine + 1 BY <2>2 DEF D!Unbounded
    <3> HIDE DEF r
    <3> QED BY <1>0, <3>1 DEF D!Includes
  <2>5. 1 \in 1..MaxLine BY <1>0
  <2> QED BY <2>1, <2>2, <2>3, <2>4, <2>5
<1>5. CASE f \notin created /\ f \in New
  <2>1. ~Exists(f) BY <1>5 DEF Exists
  <2>2. diff[f] = {} BY <1>1, <1>5 DEF Scope
  <2> QED BY <2>1, <2>2
<1>6. CASE f \notin New /\ f \in gone
  <2>1. ~Exists(f) BY <1>6 DEF Exists
  <2>2. diff[f] = {} BY <1>1, <1>2, <1>6 DEF Scope
  <2> QED BY <2>1, <2>2
<1>7. CASE f \notin New /\ f \notin gone
  <2>1. Exists(f) /\ f \notin created BY <1>2, <1>7 DEF Exists
  <2>2. diff[f] = Runs(NewLines, f, MaxLine) BY <1>1, <1>7, <2>1 DEF Scope
  <2>3. \A l \in 1..MaxLine : IsNew(f, l) <=> <<f, l>> \in NewLines BY <2>1 DEF IsNew, NewLines
  <2>4. \A l \in 1..MaxLine :
          <<f, l>> \in NewLines <=> \E r \in Runs(NewLines, f, MaxLine) : l >= r[1] /\ l <= r[2]
    BY <1>3, RunsCover
  <2>5. \A l \in 1..MaxLine : D!Includes(diff, f, l) <=> IsNew(f, l)
    BY <2>2, <2>3, <2>4 DEF D!Includes
  <2>6. ASSUME NEW r \in diff[f] PROVE \E l \in 1..MaxLine : IsNew(f, l)
    BY <2>2, <2>3 DEF Runs, StartsRun
  <2>7. ASSUME NEW l \in 1..MaxLine, IsNew(f, l) PROVE diff[f] # {}
    BY <2>2, <2>3, <2>4, <2>7
  <2> QED BY <2>1, <2>5, <2>6, <2>7
<1> QED BY <1>2, <1>4, <1>5, <1>6, <1>7

\* The scope of the hook's run is exactly the new lines of every file whose
\* added lines do not read as a header and that no such line names
\* (diff.Compute, ParseDiff): for any files, in any order, of any length, and
\* whatever was changed, cut, created or deleted.
THEOREM ScopeExactAlways == Spec => []ScopeExact
<1>1. LoopInv => ScopeExact
  <2> SUFFICES ASSUME LoopInv, phase = "diffed", NEW f \in Files, Exists(f), ~Misread(f), ~Stray(f),
                      NEW l \in 1..MaxLine
               PROVE  D!Includes(diff, f, l) <=> IsNew(f, l)
    BY DEF ScopeExact
  <2> QED BY ScopeRead
<1> QED BY <1>1, LoopInvAlways, PTL

-----------------------------------------------------------------------------
(* The gate *)

\* The report counts as this module does.
LEMMA ReportCardinality ==
  ASSUME NEW S PROVE R!Cardinality(S) = Cardinality(S)
BY DEF R!Cardinality, Cardinality

\* No added line reads as a header.
Read == \A f \in Files : ~Misread(f)

\* When no line is misread, none strays either.
LEMMA NoneStray ==
  ASSUME LoopInv, Read PROVE \A f \in Files : ~Misread(f) /\ ~Stray(f)
<1> SUFFICES ASSUME NEW f \in Files, Stray(f) PROVE FALSE BY DEF Read
<1>1. PICK s \in DOMAIN Looks : Misread(s[1]) BY DEF Stray
<1> DEFINE g == s[1]
<1>2. PICK l \in 1..MaxLine : IsNew(g, l) BY <1>1 DEF Misread
<1>3. g \in Files
  <2> HIDE DEF g
  <2>1. Editable \cup Drift \subseteq Files \X (1..MaxLine) /\ changed \subseteq Editable
        /\ created \subseteq Files
    BY LinesAssumption, TreeAssumption DEF LoopInv
  <2>2. <<g, l>> \in Files \X (1..MaxLine) \/ g \in Files BY <1>2, <2>1 DEF IsNew
  <2> QED BY <2>2
<1> QED BY <1>1, <1>3 DEF Read

\* The packages the hook's run selects.
LEMMA PatternsRead ==
  ASSUME LoopInv, phase = "diffed", Read, NEW p
  PROVE  p \in Patterns(diff) <=>
           \E f \in Source : /\ Exists(f) /\ \E l \in 1..MaxLine : IsNew(f, l)
                             /\ PkgOf[f] \notin Hidden /\ p = PkgOf[f]
<1>1. \A f \in Files : diff[f] # {} <=> (Exists(f) /\ \E l \in 1..MaxLine : IsNew(f, l))
  BY NoneStray, ScopeRead
<1>2. Source \subseteq Files BY TreeAssumption
<1>3. p \in Patterns(diff) <=> \E f \in Source : diff[f] # {} /\ PkgOf[f] \notin Hidden /\ p = PkgOf[f]
  BY <1>2 DEF Patterns, D!TouchedFiles
<1> QED BY <1>1, <1>2, <1>3

\* The results of the mutants W; the mutants the parsed diff includes; every
\* touched package can be tested.
Judged(W) == {Result(s, FALSE) : s \in W}
Selected == {s \in Sites : D!Includes(diff, s[1], s[2])}
Testable == \A f \in Source : (Exists(f) /\ \E l \in 1..MaxLine : IsNew(f, l)) => PkgOf[f] \notin broken \ Hidden

\* A run that meets no broken package judges what it has to.
LEMMA RunJudges ==
  ASSUME LoopInv, phase = "diffed", Read
  PROVE  /\ Patterns(diff) \cap broken = {} <=> Testable
         /\ Patterns(diff) \cap broken = {} => Results(Patterns(diff), Selected, FALSE) = Judged(ToJudge)
<1> DEFINE pkgs == Patterns(diff)
<1>1. \A p : p \in pkgs <=>
        \E f \in Source : /\ Exists(f) /\ \E l \in 1..MaxLine : IsNew(f, l)
                          /\ PkgOf[f] \notin Hidden /\ p = PkgOf[f]
  BY PatternsRead
<1>2. \A s \in Sites : s[1] \in Source /\ s[1] \in Files /\ s[2] \in 1..MaxLine /\ Exists(s[1])
  BY MutantsAssumption, TreeAssumption DEF Sites
<1>3. \A s \in Sites : D!Includes(diff, s[1], s[2]) <=> IsNew(s[1], s[2])
  <2> TAKE s \in Sites
  <2>1. ~Misread(s[1]) /\ ~Stray(s[1]) BY <1>2, NoneStray
  <2> QED BY <1>2, <2>1, ScopeRead
<1> HIDE DEF pkgs
<1>4. pkgs \cap broken = {} <=> Testable BY <1>1 DEF Testable
<1>5. ASSUME pkgs \cap broken = {} PROVE Results(pkgs, Selected, FALSE) = Judged(ToJudge)
  <2> DEFINE J == {x \in Sites \cap Selected : /\ PkgOf[x[1]] \in pkgs \ broken
                                               /\ Tested(PkgOf[x[1]]) /\ x \notin accepted}
  <2>1. \A s \in Sites : s \in Selected <=> IsNew(s[1], s[2]) BY <1>3 DEF Selected
  <2>2. \A s \in Sites : IsNew(s[1], s[2]) => (PkgOf[s[1]] \in pkgs \ broken <=> PkgOf[s[1]] \notin Hidden)
    BY <1>1, <1>2, <1>5
  <2>3. J = ToJudge BY <2>1, <2>2 DEF ToJudge
  <2>4. Results(pkgs, Selected, FALSE) = {Result(s, FALSE) : s \in J} BY DEF Results
  <2> QED BY <2>3, <2>4 DEF Judged
<1> QED BY <1>4, <1>5 DEF pkgs

\* The result of a mutant has its site; it is detected when its status says so.
LEMMA ResultOf ==
  ASSUME NEW s
  PROVE  /\ Result(s, FALSE).site = s
         /\ Result(s, FALSE).pkg = PkgOf[s[1]] /\ Result(s, FALSE).fn = FuncOf[s]
         /\ Result(s, FALSE).status \in {"not_covered", "timeout", "killed", "survived"}
         /\ Detected(s) <=> Result(s, FALSE).status \in {"killed", "timeout"}
<1> DEFINE cov == {t \in Judges(s, FALSE) : s \in covers[t]}
           kill == {t \in cov : s \in kills[t]}
           stat == IF cov = {} THEN "not_covered" ELSE IF s \in Looping THEN "timeout"
                   ELSE IF kill # {} THEN "killed" ELSE "survived"
<1>1. /\ Result(s, FALSE).site = s /\ Result(s, FALSE).pkg = PkgOf[s[1]]
      /\ Result(s, FALSE).fn = FuncOf[s] /\ Result(s, FALSE).status = stat
  BY DEF Result
<1>2. \A t : t \in cov <=> t \in Tests /\ TestPkg[t] = PkgOf[s[1]] /\ s \in covers[t]
  BY DEF Judges
<1>3. \A t : t \in kill <=> t \in cov /\ s \in kills[t] OBVIOUS
<1>4. Detected(s) <=> cov # {} /\ (s \in Looping \/ kill # {})
  <2> HIDE DEF cov, kill
  <2> QED BY <1>2, <1>3 DEF Detected
<1>5. kill # {} => cov # {} OBVIOUS
<1> HIDE DEF cov, kill
<1>6. /\ stat \in {"not_covered", "timeout", "killed", "survived"}
      /\ stat \in {"killed", "timeout"} <=> cov # {} /\ (s \in Looping \/ kill # {})
  <2>1. CASE cov = {} BY <2>1, <1>5
  <2>2. CASE cov # {} /\ s \in Looping BY <2>2
  <2>3. CASE cov # {} /\ s \notin Looping /\ kill # {} BY <2>3
  <2>4. CASE cov # {} /\ s \notin Looping /\ kill = {} BY <2>4
  <2> QED BY <2>1, <2>2, <2>3, <2>4
<1> QED BY <1>1, <1>4, <1>6

\* As many results as mutants.
LEMMA JudgedCount ==
  ASSUME NEW W, IsFiniteSet(W)
  PROVE  IsFiniteSet(Judged(W)) /\ Cardinality(Judged(W)) = Cardinality(W)
<1> DEFINE j == [s \in W |-> Result(s, FALSE)]
           T == Judged(W)
<1>1. \A s \in W : j[s] = Result(s, FALSE) /\ Result(s, FALSE) \in T BY DEF Judged
<1>2. \A r \in T : \E s \in W : j[s] = r BY DEF Judged
<1>3. j \in [W -> T] BY <1>1
<1>4. \A s, u \in W : j[s] = j[u] => s = u
  <2>1. \A s \in W : Result(s, FALSE).site = s BY ResultOf
  <2>2. \A s \in W : j[s].site = s BY <1>1, <2>1
  <2> HIDE DEF j
  <2> QED BY <2>2
<1> HIDE DEF j, T
<1>5. j \in Surjection(W, T) /\ j \in Injection(W, T)
  BY <1>2, <1>3, <1>4 DEF Surjection, Injection, IsInjective
<1>6. IsFiniteSet(T) /\ (Cardinality(T) = Cardinality(W) <=> j \in Injection(W, T)) BY <1>5, FS_Surjection
<1> QED BY <1>5, <1>6 DEF T

\* Results of one status are as many as the mutants with it.
LEMMA Counts ==
  ASSUME NEW W, IsFiniteSet(W), NEW st
  PROVE  R!Count(Judged(W), {st}) = Cardinality({s \in W : Result(s, FALSE).status = st})
<1> DEFINE V == {s \in W : Result(s, FALSE).status = st}
           Q == {r \in Judged(W) : r.status \in {st}}
<1>1. Q = Judged(V) BY DEF Judged
<1>2. R!Count(Judged(W), {st}) = R!Cardinality(Q) BY DEF R!Count
<1>3. IsFiniteSet(V) BY FS_Subset
<1> HIDE DEF V, Q
<1>4. R!Cardinality(Q) = Cardinality(Judged(V)) BY <1>1, ReportCardinality
<1>5. Cardinality(Judged(V)) = Cardinality(V) BY <1>3, JudgedCount
<1> QED BY <1>2, <1>4, <1>5 DEF V

\* There are finitely many mutants to judge.
LEMMA ToJudgeFinite ==
  IsFiniteSet(ToJudge) /\ Cardinality(ToJudge) \in Nat
<1>1. ToJudge \in SUBSET DOMAIN FuncOf /\ IsFiniteSet(DOMAIN FuncOf) BY MutantsAssumption DEF ToJudge, Sites
<1>2. IsFiniteSet(ToJudge) BY <1>1, FS_Subset
<1> QED BY <1>2, FS_CardinalityType

\* The score of the run is the share of detected mutants.
LEMMA ScoreRead ==
  ASSUME NEW min \in Nat, ToJudge # {}
  PROVE  LET sum == R!Summary(Judged(ToJudge)) IN
         R!Below(sum, R!Denominator(sum), min) <=>
           100 * Cardinality(ToJudge \ Unkilled) < min * Cardinality(ToJudge)
<1> DEFINE W == ToJudge
           rs == Judged(W)
           sum == R!Summary(rs)
           K == {s \in W : Result(s, FALSE).status = "killed"}
           T == {s \in W : Result(s, FALSE).status = "timeout"}
<1>1. IsFiniteSet(W) /\ Cardinality(W) \in Nat BY ToJudgeFinite
<1>2. Cardinality(W) > 0
  <2> HIDE DEF W
  <2>1. W # {} BY DEF W
  <2>2. Cardinality(W) # 0 BY <1>1, <2>1, FS_EmptySet
  <2> QED BY <1>1, <2>2
<1>3. IsFiniteSet(K) /\ IsFiniteSet(T) /\ Cardinality(K) \in Nat /\ Cardinality(T) \in Nat
  <2>1. K \in SUBSET W /\ T \in SUBSET W OBVIOUS
  <2> HIDE DEF K, T, W
  <2>2. IsFiniteSet(K) /\ IsFiniteSet(T) BY <1>1, <2>1, FS_Subset
  <2> QED BY <2>2, FS_CardinalityType
<1>4. sum.killed = Cardinality(K) /\ sum.timeout = Cardinality(T) /\ sum.total = Cardinality(W)
  <2>1. sum.killed = R!Count(rs, {"killed"}) /\ sum.timeout = R!Count(rs, {"timeout"})
        /\ sum.total = R!Cardinality(rs)
    BY DEF R!Summary
  <2> HIDE DEF W
  <2>2. R!Count(rs, {"killed"}) = Cardinality(K) /\ R!Count(rs, {"timeout"}) = Cardinality(T)
    BY <1>1, Counts
  <2>3. R!Cardinality(rs) = Cardinality(W) BY <1>1, JudgedCount, ReportCardinality
  <2> QED BY <2>1, <2>2, <2>3
<1>5. K \cup T = ToJudge \ Unkilled /\ K \cap T = {}
  <2>1. \A s \in W : Detected(s) <=> s \in K \cup T BY ResultOf
  <2> QED BY <2>1 DEF Unkilled
<1> HIDE DEF W, K, T, sum, rs
<1>6. Cardinality(K \cup T) = Cardinality(K) + Cardinality(T)
  <2>1. Cardinality(K \cup T) = Cardinality(K) + Cardinality(T) - Cardinality(K \cap T) BY <1>3, FS_Union
  <2>2. Cardinality(K \cap T) = 0 BY <1>5, FS_EmptySet
  <2> QED BY <1>3, <2>1, <2>2
<1>7. R!Below(sum, R!Denominator(sum), min) <=> 100 * (sum.killed + sum.timeout) < min * sum.total
  BY <1>1, <1>2, <1>4 DEF R!Below, R!Denominator
<1>8. R!Below(sum, R!Denominator(sum), min) <=> 100 * Cardinality(K \cup T) < min * Cardinality(W)
  BY <1>4, <1>6, <1>7
<1>9. R!Below(sum, R!Denominator(sum), min) <=>
        100 * Cardinality(ToJudge \ Unkilled) < min * Cardinality(ToJudge)
  BY <1>5, <1>8 DEF W
<1> QED BY <1>9 DEF sum, rs, W

\* What the hook's run decides on.
LEMMA HookRunRead ==
  ASSUME LoopInv, HookRun, Read
  PROVE  LET rs == Judged(ToJudge)
             low == /\ ToJudge # {}
                    /\ 100 * Cardinality(ToJudge \ Unkilled) < lastInit * Cardinality(ToJudge)
         IN /\ Testable /\ low => decision' = "block" /\ R!WriteLLM(out', rs, Limit)
            /\ Testable /\ ~low => decision' = "allow"
            /\ ~Testable => decision' = "error"
            /\ lastInit \in Mins
<1> DEFINE low == /\ ToJudge # {}
                  /\ 100 * Cardinality(ToJudge \ Unkilled) < lastInit * Cardinality(ToJudge)
           pkgs == Patterns(diff)
           rs == Results(pkgs, Selected, FALSE)
<1>1. PICK c \in Registered(settings.groups) :
        LET code == ExitCode(rs, pkgs \cap broken, c[2])
        IN IF code = 3
           THEN Block /\ decision' = "block" /\ R!WriteLLM(out', rs, Limit)
           ELSE Allow(IF code = 0 THEN "allow" ELSE "error") /\ UNCHANGED <<active, out>>
  BY DEF HookRun, Selected
<1>2. phase = "diffed" BY DEF HookRun
<1>3. lastInit \in Mins /\ c = <<"kanly", lastInit>>
  BY DEF LoopInv, SetupInv, SetupType, SettingsKept, HookFromInit
<1>4. c[2] = lastInit /\ lastInit \in Nat BY <1>3, MinsAssumption
<1>5. /\ pkgs \cap broken = {} <=> Testable
      /\ pkgs \cap broken = {} => rs = Judged(ToJudge)
  BY <1>2, RunJudges
<1>6. Judged(ToJudge) # {} <=> ToJudge # {} BY DEF Judged
<1> HIDE DEF pkgs, rs
<1> DEFINE code == ExitCode(rs, pkgs \cap broken, c[2])
<1>7. /\ Testable /\ low => code = 3
      /\ Testable /\ ~low => code = 0
      /\ ~Testable => code = 1
  <2>1. ~Testable => code = 1 BY <1>5 DEF ExitCode
  <2>2. ASSUME Testable PROVE code = IF low THEN 3 ELSE 0
    <3>1. pkgs \cap broken = {} /\ rs = Judged(ToJudge) BY <1>5, <2>2
    <3>2. code = IF ToJudge # {} /\ R!Below(R!Summary(Judged(ToJudge)), R!Denominator(R!Summary(Judged(ToJudge))), lastInit)
                 THEN 3 ELSE 0
      BY <1>4, <1>6, <3>1 DEF ExitCode
    <3>3. ToJudge # {} => (R!Below(R!Summary(Judged(ToJudge)), R!Denominator(R!Summary(Judged(ToJudge))), lastInit)
                            <=> 100 * Cardinality(ToJudge \ Unkilled) < lastInit * Cardinality(ToJudge))
      BY <1>4, ScoreRead
    <3> QED BY <3>2, <3>3
  <2> QED BY <2>1, <2>2
<1> HIDE DEF code
<1>8. IF code = 3
      THEN decision' = "block" /\ R!WriteLLM(out', rs, Limit)
      ELSE decision' = IF code = 0 THEN "allow" ELSE "error"
  BY <1>1 DEF code, Allow, Block
<1>9. Testable => rs = Judged(ToJudge) BY <1>5
<1> QED BY <1>3, <1>7, <1>8, <1>9

\* Only the run of the hook decides on a diff without an error.
LEMMA DecidesInHookRun ==
  ASSUME Next, Decides PROVE HookRun
<1>1. phase = "diffed" /\ decision' # "error" /\ phase' # phase BY DEF Decides
<1> QED BY <1>1 DEF Next, Setup, DeveloperRun, Prompt, EditLine, EditTree, WriteTest, Accept, Work,
                    Stop, OtherHook, HookDiff, HookKilled, Allow

\* The exit code of the hook's run blocks a stop exactly when the tests
\* detect too few of the mutants on the new lines, by the --min-score of the
\* last init, and every touched package could be tested (runHook, run).
THEOREM GateHonestAlways == Spec => GateHonest
<1> DEFINE A == (Decides /\ \A f \in Files : ~Misread(f)) =>
                  (decision' = "block") =
                    (/\ ToJudge # {}
                     /\ 100 * Cardinality(ToJudge \ Unkilled) < lastInit * Cardinality(ToJudge)
                     /\ \A f \in Source : (Exists(f) /\ \E l \in 1..MaxLine : IsNew(f, l))
                                            => PkgOf[f] \notin broken \ Hidden)
<1>1. LoopInv /\ [Next]_vars => [A]_vars
  <2> SUFFICES ASSUME LoopInv, Next, Decides, Read
               PROVE  (decision' = "block") =
                        (/\ ToJudge # {}
                         /\ 100 * Cardinality(ToJudge \ Unkilled) < lastInit * Cardinality(ToJudge)
                         /\ Testable)
    BY DEF Read, Testable
  <2>1. HookRun BY DecidesInHookRun
  <2> DEFINE low == /\ ToJudge # {}
                    /\ 100 * Cardinality(ToJudge \ Unkilled) < lastInit * Cardinality(ToJudge)
  <2>2. /\ Testable /\ low => decision' = "block"
        /\ Testable /\ ~low => decision' = "allow"
        /\ ~Testable => decision' = "error"
    BY <2>1, HookRunRead
  <2>3. (decision' = "block") <=> (low /\ Testable)
    <3> HIDE DEF low
    <3> QED BY <2>2
  <2> QED BY <2>3
<1>2. Spec => [][A]_vars
  <2> HIDE DEF A
  <2> QED BY <1>1, LoopInvAlways, PTL DEF Spec
<1> QED BY <1>2 DEF GateHonest

-----------------------------------------------------------------------------
(* The brief *)

\* In a finite set with a strict total order, every rank is taken by one
\* element, and those before it have smaller ranks.
Rank(gs, before, g) == Cardinality({h \in gs : <<h, g>> \in before})

LEMMA Ranks ==
  ASSUME NEW gs, IsFiniteSet(gs), NEW before,
         \A g \in gs : <<g, g>> \notin before,
         \A f, g, h \in gs : <<f, g>> \in before /\ <<g, h>> \in before => <<f, h>> \in before,
         \A g, h \in gs : g # h => <<g, h>> \in before \/ <<h, g>> \in before
  PROVE  /\ Cardinality(gs) \in Nat
         /\ \A g \in gs : Rank(gs, before, g) \in 0..(Cardinality(gs) - 1)
         /\ \A i \in 0..(Cardinality(gs) - 1) : \E g \in gs : Rank(gs, before, g) = i
         /\ \A g, h \in gs : <<g, h>> \in before => Rank(gs, before, g) < Rank(gs, before, h)
<1> DEFINE under(g) == {h \in gs : <<h, g>> \in before}
           n == Cardinality(gs)
           k == [g \in gs |-> Rank(gs, before, g)]
           I == 0..(n - 1)
<1>1. n \in Nat BY FS_CardinalityType
<1>2. \A g : under(g) \in SUBSET gs /\ IsFiniteSet(under(g)) /\ Cardinality(under(g)) \in Nat
  <2> TAKE g
  <2>1. under(g) \in SUBSET gs OBVIOUS
  <2> HIDE DEF under
  <2>2. IsFiniteSet(under(g)) BY <2>1, FS_Subset
  <2> QED BY <2>1, <2>2, FS_CardinalityType
<1>r. \A g : Rank(gs, before, g) = Cardinality(under(g)) BY DEF Rank
<1>3. ASSUME NEW g \in gs, NEW h \in gs, <<g, h>> \in before
      PROVE  Cardinality(under(g)) < Cardinality(under(h))
  <2>1. under(g) \in SUBSET under(h) /\ g \in under(h) /\ g \notin under(g) BY <1>3
  <2> HIDE DEF under
  <2>2. /\ Cardinality(under(g)) <= Cardinality(under(h))
        /\ Cardinality(under(h)) = Cardinality(under(g)) => under(h) = under(g)
    BY <1>2, <2>1, FS_Subset
  <2>3. Cardinality(under(g)) \in Nat /\ Cardinality(under(h)) \in Nat BY <1>2
  <2> QED BY <2>1, <2>2, <2>3
<1>4. ASSUME NEW g \in gs PROVE Cardinality(under(g)) \in I
  <2>1. g \notin under(g) BY <1>4
  <2>2. Cardinality(under(g)) <= n /\ (n = Cardinality(under(g)) => gs = under(g))
    <3> HIDE DEF under
    <3> QED BY <1>2, FS_Subset
  <2> HIDE DEF under
  <2>3. Cardinality(under(g)) # n BY <2>1, <2>2, <1>4
  <2>4. Cardinality(under(g)) \in Nat BY <1>2
  <2> HIDE DEF n
  <2> QED BY <1>1, <2>2, <2>3, <2>4
<1> HIDE DEF under
<1>5. k \in [gs -> I] BY <1>4, <1>r
<1>6. \A g, h \in gs : k[g] = k[h] => g = h
  <2> SUFFICES ASSUME NEW g \in gs, NEW h \in gs, k[g] = k[h], g # h PROVE FALSE OBVIOUS
  <2>1. k[g] = Cardinality(under(g)) /\ k[h] = Cardinality(under(h)) BY <1>r
  <2>2. Cardinality(under(g)) \in Nat /\ Cardinality(under(h)) \in Nat BY <1>2
  <2>3. <<g, h>> \in before \/ <<h, g>> \in before OBVIOUS
  <2>4. Cardinality(under(g)) # Cardinality(under(h)) BY <1>3, <2>2, <2>3
  <2> QED BY <2>1, <2>4
<1>7. IsFiniteSet(I) /\ Cardinality(I) = n
  <2>1. 0 \in Int /\ n - 1 \in Int BY <1>1
  <2>2. IsFiniteSet(I) /\ Cardinality(I) = IF 0 > n - 1 THEN 0 ELSE (n - 1) - 0 + 1
    <3> HIDE DEF n
    <3> QED BY <2>1, FS_Interval
  <2> HIDE DEF n
  <2> QED BY <1>1, <2>2
<1>8. k \in Injection(gs, I)
  <2> HIDE DEF k, I
  <2> QED BY <1>5, <1>6 DEF Injection, IsInjective
<1>9. k \in Surjection(gs, I)
  <2> HIDE DEF k, I
  <2>1. Cardinality(gs) = Cardinality(I) <=> k \in Surjection(gs, I) BY <1>7, <1>8, FS_Injection
  <2> QED BY <1>7, <2>1
<1>10. \A i \in I : \E g \in gs : k[g] = i
  <2> HIDE DEF k, I
  <2> QED BY <1>9 DEF Surjection
<1>11. \A g \in gs : k[g] = Rank(gs, before, g) OBVIOUS
<1>12. \A i \in I : \E g \in gs : Rank(gs, before, g) = i BY <1>10, <1>11
<1>13. \A g \in gs : Rank(gs, before, g) \in I BY <1>4, <1>r
<1>14. \A g, h \in gs : <<g, h>> \in before => Rank(gs, before, g) < Rank(gs, before, h) BY <1>3, <1>r
<1> QED BY <1>1, <1>12, <1>13, <1>14

\* The groups of the mutants V: disjoint, not empty, the largest first.
Group == [fn : MutantFuncs, muts : SUBSET DOMAIN FuncOf]
Grouped(o, V) ==
  /\ o \in Seq(Group)
  /\ \A i \in 1..Len(o) : o[i].muts # {} /\ o[i].muts \subseteq V
  /\ \A i, j \in 1..Len(o) : i # j => o[i].muts \cap o[j].muts = {}
  /\ \A s \in V : \E i \in 1..Len(o) : s \in o[i].muts
  /\ \A i, j \in 1..Len(o) : i < j => Cardinality(o[i].muts) >= Cardinality(o[j].muts)

\* The mutants of W whose result has this status; the function of a mutant.
With(W, st) == {s \in W : Result(s, FALSE).status = st}
FuncKey(s) == <<PkgOf[s[1]], FuncOf[s]>>

\* groupByFunction returns the groups of the mutants with this status.
LEMMA GroupsRead ==
  ASSUME NEW W \in SUBSET DOMAIN FuncOf, NEW st
  PROVE  Grouped(R!groupByFunction(Judged(W), st), With(W, st))
<1> DEFINE V == With(W, st)
           rs == Judged(W)
           M(g) == {s \in V : FuncKey(s) = g}
           gs == {FuncKey(s) : s \in V}
           n == Cardinality(gs)
           size(g) == Cardinality(M(g))
           o == R!groupByFunction(rs, st)
<1>f. IsFiniteSet(DOMAIN FuncOf) BY MutantsAssumption
<1>1. /\ V \in SUBSET W /\ V \in SUBSET DOMAIN FuncOf /\ \A s \in V : FuncKey(s) \in MutantFuncs
  BY DEF With, MutantFuncs, FuncKey
<1>2. \A g : R!Mutants(rs, st, g) = M(g)
  <2> TAKE g
  <2>1. R!Mutants(rs, st, g) = {r.site : r \in {x \in rs : x.status = st /\ <<x.pkg, x.fn>> = g}}
    BY DEF R!Mutants
  <2>2. \A s \in W : /\ Result(s, FALSE).site = s
                     /\ <<Result(s, FALSE).pkg, Result(s, FALSE).fn>> = FuncKey(s)
    BY ResultOf DEF FuncKey
  <2>3. ASSUME NEW s \in M(g) PROVE s \in R!Mutants(rs, st, g)
    <3>1. s \in W /\ Result(s, FALSE).status = st /\ FuncKey(s) = g BY DEF With
    <3>2. Result(s, FALSE) \in rs BY <3>1 DEF Judged
    <3> QED BY <2>1, <2>2, <3>1, <3>2
  <2>4. ASSUME NEW s \in R!Mutants(rs, st, g) PROVE s \in M(g)
    <3>1. PICK r \in rs : r.status = st /\ <<r.pkg, r.fn>> = g /\ r.site = s BY <2>1
    <3>2. PICK u \in W : r = Result(u, FALSE) BY DEF Judged
    <3>3. u = s /\ FuncKey(s) = g /\ Result(s, FALSE).status = st BY <2>2, <3>1, <3>2
    <3> QED BY <3>3 DEF With
  <2> HIDE DEF M
  <2> QED BY <2>3, <2>4
<1>3. {<<r.pkg, r.fn>> : r \in {x \in rs : x.status = st}} = gs
  <2>1. \A s \in W : <<Result(s, FALSE).pkg, Result(s, FALSE).fn>> = FuncKey(s)
    BY ResultOf DEF FuncKey
  <2> QED BY <2>1 DEF Judged, With
<1>4. IsFiniteSet(V) /\ IsFiniteSet(gs)
  <2>1. IsFiniteSet(V) BY <1>f, <1>1, FS_Subset
  <2> DEFINE key == [s \in V |-> FuncKey(s)]
  <2>2. key \in Surjection(V, gs) BY DEF Surjection
  <2> HIDE DEF key, gs, V
  <2> QED BY <2>1, <2>2, FS_Surjection
<1>5. \A g : M(g) \subseteq V /\ IsFiniteSet(M(g)) /\ size(g) \in Nat
  <2> TAKE g
  <2>1. M(g) \in SUBSET V OBVIOUS
  <2> HIDE DEF M, V
  <2>2. IsFiniteSet(M(g)) BY <1>4, <2>1, FS_Subset
  <2> QED BY <2>1, <2>2, FS_CardinalityType
<1>6. \A g \in gs : M(g) # {} /\ g \in MutantFuncs /\ FuncRank[g] \in Int
  BY <1>1, MutantsAssumption
<1>7. \A g, h \in gs : FuncRank[g] = FuncRank[h] => g = h BY <1>6, MutantsAssumption
<1>8. \A g, h : R!Ahead(rs, st, g, h) <=> size(g) > size(h) \/ (size(g) = size(h) /\ FuncRank[g] < FuncRank[h])
  BY <1>2, ReportCardinality DEF R!Ahead
<1> DEFINE before == {p \in gs \X gs : R!Ahead(rs, st, p[1], p[2])}
<1>9. \A g, h \in gs : <<g, h>> \in before
                         <=> size(g) > size(h) \/ (size(g) = size(h) /\ FuncRank[g] < FuncRank[h])
  BY <1>8
<1>u. \A x \in gs : {h \in gs : R!Ahead(rs, st, h, x)} = {h \in gs : <<h, x>> \in before} OBVIOUS
<1>o. o = [i \in 1..R!Cardinality(gs) |->
             LET g == CHOOSE x \in gs : R!Cardinality({h \in gs : R!Ahead(rs, st, h, x)}) = i - 1
             IN [fn |-> g, muts |-> R!Mutants(rs, st, g)]]
  BY <1>3 DEF R!groupByFunction, R!Ordered
<1> HIDE DEF size, before, gs, o, V, M, rs
<1>10. /\ n \in Nat
       /\ \A g \in gs : Rank(gs, before, g) \in 0..(n - 1)
       /\ \A i \in 0..(n - 1) : \E g \in gs : Rank(gs, before, g) = i
       /\ \A g, h \in gs : <<g, h>> \in before => Rank(gs, before, g) < Rank(gs, before, h)
  <2>1. \A g \in gs : <<g, g>> \notin before BY <1>5, <1>6, <1>9
  <2>2. \A f, g, h \in gs : <<f, g>> \in before /\ <<g, h>> \in before => <<f, h>> \in before
    BY <1>5, <1>6, <1>9
  <2>3. \A g, h \in gs : g # h => <<g, h>> \in before \/ <<h, g>> \in before
    BY <1>5, <1>6, <1>7, <1>9
  <2> QED BY <1>4, <2>1, <2>2, <2>3, Ranks
<1> DEFINE at(i) == CHOOSE x \in gs : Rank(gs, before, x) = i - 1
<1>11. DOMAIN o = 1..n /\ o = [i \in 1..n |-> [fn |-> at(i), muts |-> M(at(i))]]
  <2>1. \A x \in gs : R!Cardinality({h \in gs : R!Ahead(rs, st, h, x)}) = Rank(gs, before, x)
    BY <1>u, ReportCardinality DEF Rank
  <2>2. R!Cardinality(gs) = n BY ReportCardinality
  <2>3. \A i \in 1..n : (CHOOSE x \in gs : R!Cardinality({h \in gs : R!Ahead(rs, st, h, x)}) = i - 1) = at(i)
    BY <2>1
  <2> HIDE DEF at
  <2> QED BY <1>o, <1>2, <2>2, <2>3
<1>12. \A i \in 1..n : at(i) \in gs /\ Rank(gs, before, at(i)) = i - 1
  <2> TAKE i \in 1..n
  <2>1. i - 1 \in 0..(n - 1) BY <1>10
  <2>2. \E x \in gs : Rank(gs, before, x) = i - 1 BY <1>10, <2>1
  <2> QED BY <2>2
<1> HIDE DEF at, n
<1>13. \A i \in 1..n : o[i].fn = at(i) /\ o[i].muts = M(at(i)) BY <1>11
<1>14. o \in Seq(Group) /\ Len(o) = n
  <2>1. \A i \in 1..n : [fn |-> at(i), muts |-> M(at(i))] \in Group
    <3> TAKE i \in 1..n
    <3>1. at(i) \in MutantFuncs /\ M(at(i)) \in SUBSET DOMAIN FuncOf BY <1>1, <1>5, <1>6, <1>12
    <3> QED BY <3>1 DEF Group
  <2>2. o \in [1..n -> Group] BY <1>11, <2>1
  <2>3. n \in Nat BY <1>10
  <2>4. o \in Seq(Group) BY <2>2, <2>3, IsSequence
  <2> QED BY <1>11, <2>3, <2>4
<1>15. \A i \in 1..n : o[i].muts # {} /\ o[i].muts \subseteq V BY <1>5, <1>6, <1>12, <1>13
<1>16. \A i, j \in 1..n : i # j => o[i].muts \cap o[j].muts = {}
  <2> SUFFICES ASSUME NEW i \in 1..n, NEW j \in 1..n, i # j PROVE M(at(i)) \cap M(at(j)) = {} BY <1>13
  <2>1. at(i) # at(j) BY <1>10, <1>12
  <2> QED BY <2>1 DEF M
<1>17. \A s \in V : \E i \in 1..n : s \in o[i].muts
  <2> SUFFICES ASSUME NEW s \in V PROVE \E i \in 1..n : s \in M(at(i)) BY <1>13
  <2> DEFINE g == FuncKey(s)
             i == Rank(gs, before, g) + 1
  <2>1. g \in gs /\ s \in M(g) BY DEF gs, M
  <2> HIDE DEF g
  <2>2. i \in 1..n /\ i - 1 = Rank(gs, before, g) BY <1>10, <2>1
  <2> HIDE DEF i
  <2>3. at(i) \in gs /\ Rank(gs, before, at(i)) = Rank(gs, before, g) BY <1>12, <2>2
  <2>4. at(i) = g
    <3> SUFFICES ASSUME at(i) # g PROVE FALSE OBVIOUS
    <3>1. <<at(i), g>> \in before \/ <<g, at(i)>> \in before
      BY <1>5, <1>6, <1>7, <1>9, <2>1, <2>3
    <3>2. Rank(gs, before, at(i)) < Rank(gs, before, g) \/ Rank(gs, before, g) < Rank(gs, before, at(i))
      BY <1>10, <2>1, <2>3, <3>1
    <3>3. Rank(gs, before, g) \in Int BY <1>10, <2>1
    <3> QED BY <2>3, <3>2, <3>3
  <2> QED BY <2>1, <2>2, <2>4
<1>18. \A i, j \in 1..n : i < j => Cardinality(o[i].muts) >= Cardinality(o[j].muts)
  <2> SUFFICES ASSUME NEW i \in 1..n, NEW j \in 1..n, i < j PROVE size(at(i)) >= size(at(j))
    BY <1>13 DEF size
  <2>1. at(i) \in gs /\ at(j) \in gs /\ Rank(gs, before, at(i)) = i - 1 /\ Rank(gs, before, at(j)) = j - 1
    BY <1>12
  <2>2. <<at(j), at(i)>> \notin before
    <3> SUFFICES ASSUME <<at(j), at(i)>> \in before PROVE FALSE OBVIOUS
    <3>1. Rank(gs, before, at(j)) < Rank(gs, before, at(i)) BY <1>10, <2>1
    <3> QED BY <1>10, <2>1, <3>1
  <2>3. size(at(i)) \in Nat /\ size(at(j)) \in Nat BY <1>5
  <2> QED BY <1>9, <2>1, <2>2, <2>3
<1>19. Grouped(o, V) BY <1>14, <1>15, <1>16, <1>17, <1>18 DEF Grouped
<1> QED BY <1>19 DEF o, V, rs


\* The mutants of the first i groups.
Heads(o, i) == UNION {o[j].muts : j \in 1..i}

\* The groups' sizes add up along their order.
LEMMA SpentDefined ==
  ASSUME NEW o \in Seq(Group)
  PROVE  /\ R!Spent(o)[0] = 0
         /\ \A i \in 1..Len(o) : R!Spent(o)[i] = R!Spent(o)[i - 1] + Cardinality(o[i].muts)
<1> DEFINE N == Len(o)
           h == R!Spent(o)
           size(i) == R!Cardinality(o[i].muts)
           Is(g) == g = [i \in 0..N |-> IF i = 0 THEN 0 ELSE g[i - 1] + size(i)]
           stp == [x \in (1..N) \X Nat |-> x[2] + size(x[1])]
<1>0. N \in Nat OBVIOUS
<1>h. h = CHOOSE g : Is(g) BY DEF R!Spent
<1>a. \A i \in 1..N : size(i) = Cardinality(o[i].muts) /\ size(i) \in Nat
  <2> TAKE i \in 1..N
  <2> DEFINE m == o[i].muts
  <2>0. o[i] \in Group OBVIOUS
  <2>1. m \in SUBSET DOMAIN FuncOf BY <2>0 DEF Group
  <2> HIDE DEF m
  <2>2. IsFiniteSet(m) BY <2>1, MutantsAssumption, FS_Subset
  <2>3. Cardinality(m) \in Nat BY <2>2, FS_CardinalityType
  <2>4. R!Cardinality(m) = Cardinality(m) BY ReportCardinality
  <2> QED BY <2>3, <2>4 DEF m
<1> HIDE DEF size, h, N
<1>1. stp \in Steps(N, Nat) BY <1>a DEF Steps
<1>2. \A i \in 1..N, s \in Nat : stp[<<i, s>>] = s + size(i) OBVIOUS
<1> HIDE DEF stp
<1>r. PICK g : Follows(g, N, Nat, 0, stp)
  BY <1>0, <1>1, Recursion
<1>5. /\ g \in [0..N -> Nat] /\ g[0] = 0
      /\ \A i \in 1..N : g[i] = stp[<<i, g[i - 1]>>]
  BY <1>r DEF Follows
<1>3. \A i \in 1..N : g[i] = g[i - 1] + size(i)
  <2> TAKE i \in 1..N
  <2>1. g[i - 1] \in Nat BY <1>0, <1>5
  <2>2. stp[<<i, g[i - 1]>>] = g[i - 1] + size(i) BY <1>2, <2>1
  <2> QED BY <1>5, <2>2
<1>6. Is(g)
  <2>1. \A i \in 0..N : g[i] = IF i = 0 THEN 0 ELSE g[i - 1] + size(i) BY <1>0, <1>3, <1>5
  <2> QED BY <1>5, <2>1
<1>7. Is(h)
  <2> HIDE DEF Is
  <2> QED BY <1>h, <1>6
<1>8. h[0] = 0 /\ \A i \in 1..N : h[i] = h[i - 1] + size(i)
  <2>1. \A i \in 0..N : h[i] = IF i = 0 THEN 0 ELSE h[i - 1] + size(i)
    BY <1>7
  <2>2. 0 \in 0..N /\ \A i \in 1..N : i \in 0..N /\ i # 0 BY <1>0
  <2> QED BY <2>1, <2>2
<1> QED BY <1>8, <1>a DEF h, N

\* The groups are disjoint, so what was spent is what was listed.
LEMMA SpentRead ==
  ASSUME NEW o, NEW V, Grouped(o, V)
  PROVE  \A i \in 0..Len(o) : /\ IsFiniteSet(Heads(o, i)) /\ Cardinality(Heads(o, i)) \in Nat
                              /\ R!Spent(o)[i] = Cardinality(Heads(o, i))
<1> DEFINE N == Len(o)
           h == R!Spent(o)
           c(i) == Cardinality(o[i].muts)
           Good(i) == /\ IsFiniteSet(Heads(o, i)) /\ Cardinality(Heads(o, i)) \in Nat
                      /\ h[i] = Cardinality(Heads(o, i))
           X == {i \in 0..N : Good(i)}
<1>0. o \in Seq(Group) /\ N \in Nat BY DEF Grouped
<1>1. h[0] = 0 /\ \A i \in 1..N : h[i] = h[i - 1] + c(i) BY <1>0, SpentDefined
<1>2. \A i, j \in 1..N : i # j => o[i].muts \cap o[j].muts = {} BY DEF Grouped
<1>3. \A i \in 1..N : IsFiniteSet(o[i].muts) /\ c(i) \in Nat
  <2> TAKE i \in 1..N
  <2> DEFINE m == o[i].muts
  <2>0. o[i] \in Group BY <1>0
  <2>1. m \in SUBSET DOMAIN FuncOf BY <2>0 DEF Group
  <2> HIDE DEF m
  <2>2. IsFiniteSet(m) BY <2>1, MutantsAssumption, FS_Subset
  <2>3. Cardinality(m) \in Nat BY <2>2, FS_CardinalityType
  <2> QED BY <2>2, <2>3 DEF m
<1> HIDE DEF h, N, c
<1>4. 0 \in X
  <2>1. Heads(o, 0) = {} BY DEF Heads
  <2>2. IsFiniteSet({}) /\ Cardinality({}) = 0 BY FS_EmptySet
  <2>0. h[0] = 0 BY <1>1
  <2>5. IsFiniteSet(Heads(o, 0)) /\ Cardinality(Heads(o, 0)) = 0 BY <2>1, <2>2
  <2>3. Good(0)
    <3>1. Cardinality(Heads(o, 0)) \in Nat /\ h[0] = Cardinality(Heads(o, 0)) BY <2>0, <2>5
    <3> QED BY <3>1, <2>5
  <2>4. 0 \in 0..N BY <1>0
  <2> HIDE DEF Good
  <2> QED BY <2>3, <2>4
<1>5. ASSUME NEW i \in 1..N, i - 1 \in X PROVE i \in X
  <2> DEFINE A == Heads(o, i - 1)
             B == o[i].muts
  <2>1. Heads(o, i) = A \cup B
    <3>1. \A j \in 1..i : j \in 1..(i - 1) \/ j = i BY <1>0
    <3>2. \A j \in 1..(i - 1) : j \in 1..i BY <1>0
    <3>3. i \in 1..i BY <1>0
    <3> QED BY <3>1, <3>2, <3>3 DEF Heads
  <2>2. A \cap B = {}
    <3>1. \A j \in 1..(i - 1) : j \in 1..N /\ j # i BY <1>0
    <3>2. \A j \in 1..(i - 1) : o[j].muts \cap B = {} BY <1>2, <3>1
    <3> QED BY <3>2 DEF Heads
  <2>3. IsFiniteSet(A) /\ Cardinality(A) \in Nat /\ h[i - 1] = Cardinality(A) BY <1>5
  <2>4. IsFiniteSet(B) /\ Cardinality(B) \in Nat /\ h[i] = h[i - 1] + Cardinality(B) BY <1>1, <1>3 DEF c
  <2> HIDE DEF A, B
  <2>5. /\ IsFiniteSet(A \cup B)
        /\ Cardinality(A \cup B) = Cardinality(A) + Cardinality(B) - Cardinality(A \cap B)
    BY <2>3, <2>4, FS_Union
  <2>6. Cardinality(A \cap B) = 0 BY <2>2, FS_EmptySet
  <2>7. Cardinality(A \cup B) = Cardinality(A) + Cardinality(B) BY <2>3, <2>4, <2>5, <2>6
  <2>8. i \in 0..N BY <1>0
  <2>9. Cardinality(A \cup B) \in Nat /\ h[i] = Cardinality(A \cup B) BY <2>3, <2>4, <2>7
  <2>10. Good(i) BY <2>1, <2>5, <2>9
  <2> HIDE DEF Good
  <2> QED BY <2>8, <2>10
<1> HIDE DEF X
<1>6. \A i \in 0..N : i \in X BY <1>0, <1>4, <1>5, UpTo
<1> QED BY <1>6 DEF X, N, h

\* What take does with the groups of V under a budget that has listed C
\* mutants and has L left: the mutants of V are kept or omitted, by whole
\* groups, the largest first; the budget pays for what is kept; the first
\* group of a brief is kept whatever its size, and it alone can overdraw.
Taken(t, V, L, C) ==
  LET K == R!Listed(t.kept) IN
  /\ t.kept \in Seq(Group) /\ t.omitted \in Seq(Group)
  /\ K \cup R!Listed(t.omitted) = V /\ K \cap R!Listed(t.omitted) = {}
  /\ t.bud = [left |-> L - Cardinality(K), listed |-> C + Cardinality(K)]
  /\ IsFiniteSet(K) /\ Cardinality(K) \in Nat
  /\ \A i \in DOMAIN t.kept, j \in DOMAIN t.omitted :
       Cardinality(t.kept[i].muts) >= Cardinality(t.omitted[j].muts)
  /\ Len(t.kept) = 0 <=> K = {}
  /\ (C = 0 /\ V # {}) => K # {}
  /\ L - Cardinality(K) >= 0 \/ Len(t.kept) = 0 \/ (C = 0 /\ Len(t.kept) = 1)

\* llmBudget.take does so for every order of groups and every budget.
LEMMA TakeRead ==
  ASSUME NEW o, NEW V, Grouped(o, V), NEW L \in Int, NEW C \in Nat, NEW limit \in Nat \ {0}
  PROVE  Taken(R!Take([left |-> L, listed |-> C], o, limit), V, L, C)
<1> DEFINE bud == [left |-> L, listed |-> C]
           N == Len(o)
           h == R!Spent(o)
           c(i) == Cardinality(o[i].muts)
           halt(i) == i = N \/ ~(c(i + 1) <= L - h[i] \/ C + h[i] = 0)
           first(i) == halt(i) /\ \A j \in 0..(i - 1) : ~halt(j)
           k == CHOOSE i \in 0..N : first(i)
           t == R!Take(bud, o, limit)
<1>0. o \in Seq(Group) /\ N \in Nat BY DEF Grouped
<1>1. h[0] = 0 /\ \A i \in 1..N : h[i] = h[i - 1] + c(i) BY <1>0, SpentDefined
<1>2. \A i \in 0..N : /\ IsFiniteSet(Heads(o, i)) /\ Cardinality(Heads(o, i)) \in Nat
                      /\ h[i] = Cardinality(Heads(o, i))
  BY SpentRead
<1>3. \A i : R!Stops(bud, o, limit, i) <=> halt(i)
  <2> TAKE i
  <2>1. R!Cardinality(o[i + 1].muts) = c(i + 1) BY ReportCardinality
  <2> QED BY <2>1 DEF R!Stops, R!Fits, R!Budget
<1>4. /\ t.bud = [left |-> L - h[k], listed |-> C + h[k]]
      /\ t.kept = SubSeq(o, 1, k) /\ t.omitted = SubSeq(o, k + 1, N)
  <2> DEFINE stop(i) == R!Stops(bud, o, limit, i) /\ \A j \in 0..(i - 1) : ~R!Stops(bud, o, limit, j)
             q == CHOOSE i \in 0..N : stop(i)
  <2>1. t = [bud |-> R!Budget(bud, o, q), kept |-> SubSeq(o, 1, q), omitted |-> SubSeq(o, q + 1, N)]
    BY DEF R!Take
  <2>2. \A i \in 0..N : stop(i) <=> first(i) BY <1>3
  <2>3. q = k
    <3> HIDE DEF stop, first
    <3> QED BY <2>2
  <2> HIDE DEF q, k, t
  <2>4. R!Budget(bud, o, k) = [left |-> L - h[k], listed |-> C + h[k]] BY DEF R!Budget
  <2> QED BY <2>1, <2>3, <2>4
<1>5. k \in 0..N /\ first(k)
  <2> DEFINE S == {i \in 0..N : halt(i)}
  <2>1. N \in S BY <1>0
  <2>2. S \in SUBSET Nat BY <1>0
  <2>s. \A i \in 0..N : i \in S <=> halt(i) OBVIOUS
  <2>z. S \subseteq 0..N OBVIOUS
  <2> HIDE DEF S, halt
  <2>3. PICK i \in S : \A m \in S : i <= m BY <2>1, <2>2, LeastNatural
  <2>4. i \in 0..N /\ halt(i) BY <2>3, <2>s, <2>z
  <2>5. ASSUME NEW j \in 0..(i - 1), halt(j) PROVE FALSE
    <3>1. j \in 0..N /\ j < i BY <1>0, <2>4
    <3>2. j \in S BY <2>5, <3>1, <2>s
    <3> QED BY <1>0, <2>3, <2>4, <3>1, <3>2
  <2>6. first(i) BY <2>4, <2>5
  <2> HIDE DEF first
  <2> QED BY <2>4, <2>6
<1>l. N = Len(o) OBVIOUS
<1>g. /\ \A i \in 1..N : o[i].muts # {} /\ o[i].muts \subseteq V
      /\ \A i, j \in 1..N : i # j => o[i].muts \cap o[j].muts = {}
      /\ \A s \in V : \E i \in 1..N : s \in o[i].muts
      /\ \A i, j \in 1..N : i < j => c(i) >= c(j)
  BY DEF Grouped
<1>6. halt(k) /\ \A j \in 0..(k - 1) : ~halt(j) BY <1>5
<1> HIDE DEF k, t, h, N
<1>k. k \in 0..N BY <1>5
<1>7. /\ t.kept \in Seq(Group) /\ Len(t.kept) = k /\ DOMAIN t.kept = 1..k
      /\ \A i \in 1..k : t.kept[i] = o[i]
  <2>1. k <= Len(o) /\ k \in Nat /\ 1 \in Nat BY <1>0, <1>k, <1>l
  <2> DEFINE p == SubSeq(o, 1, k)
  <2>2. p \in Seq(Group) /\ Len(p) = k /\ \A i \in 1..k : p[i] = o[i] BY <1>0, <2>1
  <2> HIDE DEF p
  <2>3. DOMAIN p = 1..k BY <2>2
  <2> QED BY <1>4, <2>2, <2>3 DEF p
<1>8. /\ t.omitted \in Seq(Group) /\ DOMAIN t.omitted = 1..(N - k)
      /\ \A i \in 1..(N - k) : t.omitted[i] = o[k + i]
  <2>1. k + 1 \in 1..(Len(o) + 1) /\ N - k \in Nat /\ N = Len(o) BY <1>0, <1>k, <1>l
  <2> DEFINE p == SubSeq(o, k + 1, N)
  <2>2. p \in Seq(Group) /\ Len(p) = N - k /\ \A i \in 1..(N - k) : p[i] = o[k + i] BY <1>0, <1>k, <2>1
  <2> HIDE DEF p
  <2>3. DOMAIN p = 1..(N - k) BY <2>2
  <2> QED BY <1>4, <2>2, <2>3 DEF p
<1> DEFINE K == R!Listed(t.kept)
           O == R!Listed(t.omitted)
<1>9. K = Heads(o, k)
  BY <1>7 DEF R!Listed, Heads
<1>10. O = UNION {o[j].muts : j \in (k + 1)..N}
  <2>1. \A j \in (k + 1)..N : j - k \in 1..(N - k) /\ k + (j - k) = j BY <1>0, <1>k
  <2>2. \A i \in 1..(N - k) : k + i \in (k + 1)..N BY <1>0, <1>k
  <2>3. O = UNION {o[k + i].muts : i \in 1..(N - k)} BY <1>8 DEF R!Listed
  <2> HIDE DEF O
  <2>4. ASSUME NEW j \in (k + 1)..N PROVE o[j].muts \subseteq O BY <2>1, <2>3
  <2>5. ASSUME NEW s \in O PROVE \E j \in (k + 1)..N : s \in o[j].muts BY <2>2, <2>3
  <2> QED BY <2>4, <2>5
<1> HIDE DEF K, O
<1>11. K \cup O = V /\ K \cap O = {}
  <2>1. \A i \in 1..k : i \in 1..N BY <1>0, <1>k
  <2>2. \A j \in (k + 1)..N : j \in 1..N BY <1>0, <1>k
  <2>3. \A i \in 1..N : i \in 1..k \/ i \in (k + 1)..N BY <1>0, <1>k
  <2>4. \A i \in 1..k, j \in (k + 1)..N : i # j BY <1>0, <1>k
  <2>5. \A s : s \in K <=> \E i \in 1..k : s \in o[i].muts BY <1>9 DEF Heads
  <2>6. \A s : s \in O <=> \E j \in (k + 1)..N : s \in o[j].muts BY <1>10
  <2>7. K \subseteq V BY <1>g, <2>1, <2>5
  <2>8. O \subseteq V BY <1>g, <2>2, <2>6
  <2>9. V \subseteq K \cup O BY <1>g, <2>3, <2>5, <2>6
  <2>10. ASSUME NEW s \in K, s \in O PROVE FALSE
    <3>1. PICK i \in 1..k : s \in o[i].muts BY <2>5
    <3>2. PICK j \in (k + 1)..N : s \in o[j].muts BY <2>6, <2>10
    <3>3. i \in 1..N /\ j \in 1..N /\ i # j BY <2>1, <2>2, <2>4
    <3> QED BY <1>g, <3>1, <3>2, <3>3
  <2> QED BY <2>7, <2>8, <2>9, <2>10
<1>12. IsFiniteSet(K) /\ Cardinality(K) \in Nat /\ h[k] = Cardinality(K) BY <1>2, <1>9, <1>k
<1>13. t.bud = [left |-> L - Cardinality(K), listed |-> C + Cardinality(K)] BY <1>4, <1>12
<1>14. ASSUME NEW i \in DOMAIN t.kept, NEW j \in DOMAIN t.omitted
       PROVE  Cardinality(t.kept[i].muts) >= Cardinality(t.omitted[j].muts)
  <2>1. i \in 1..k /\ j \in 1..(N - k) BY <1>7, <1>8
  <2>2. i \in 1..N /\ k + j \in 1..N /\ i < k + j BY <1>0, <1>k, <2>1
  <2>3. t.kept[i] = o[i] /\ t.omitted[j] = o[k + j] BY <1>7, <1>8, <2>1
  <2>4. c(i) >= c(k + j)
    <3> DEFINE m == k + j
    <3>1. m \in 1..N /\ i < m BY <2>2
    <3> HIDE DEF m, c
    <3>2. c(i) >= c(m) BY <1>g, <2>2, <3>1
    <3> QED BY <3>2 DEF m
  <2> QED BY <2>3, <2>4
<1>15. \A i \in 0..N : i > 0 => Heads(o, i) # {} /\ h[i] # 0
  <2> SUFFICES ASSUME NEW i \in 0..N, i > 0 PROVE Heads(o, i) # {} /\ h[i] # 0 OBVIOUS
  <2>1. 1 \in 1..i /\ 1 \in 1..N BY <1>0
  <2>2. o[1].muts # {} BY <1>g, <2>1
  <2>3. Heads(o, i) # {} BY <2>1, <2>2 DEF Heads
  <2>4. Cardinality(Heads(o, i)) # 0 BY <1>2, <2>3, FS_EmptySet
  <2> QED BY <1>2, <2>3, <2>4
<1>16. Len(t.kept) = 0 <=> K = {}
  <2>1. CASE k = 0
    <3>1. K = {} BY <1>9, <2>1 DEF Heads
    <3> QED BY <1>7, <2>1, <3>1
  <2>2. CASE k # 0
    <3>1. k > 0 BY <1>0, <1>k, <2>2
    <3>2. K # {} BY <1>9, <1>15, <1>k, <3>1
    <3> QED BY <1>7, <2>2, <3>2
  <2> QED BY <2>1, <2>2
<1>17. ASSUME C = 0, V # {} PROVE K # {}
  <2>1. N # 0
    <3>1. PICK i \in 1..N : TRUE BY <1>g, <1>17
    <3> QED BY <1>0, <3>1
  <2>2. ~halt(0) BY <1>1, <1>17, <2>1
  <2>3. k # 0
    <3> HIDE DEF halt
    <3> QED BY <1>6, <2>2
  <2> QED BY <1>7, <1>16, <2>3
<1>18. L - Cardinality(K) >= 0 \/ Len(t.kept) = 0 \/ (C = 0 /\ Len(t.kept) = 1)
  <2> SUFFICES ASSUME k # 0 PROVE L - h[k] >= 0 \/ (C = 0 /\ k = 1) BY <1>7, <1>12
  <2> DEFINE j == k - 1
  <2>1. j \in 0..(k - 1) /\ j \in 0..N /\ k \in 1..N /\ j + 1 = k BY <1>0, <1>k
  <2>2. ~halt(j)
    <3> HIDE DEF halt, j
    <3> QED BY <1>6, <2>1
  <2>3. h[k] = h[j] + c(k) BY <1>1, <2>1
  <2>4. c(k) <= L - h[j] \/ C + h[j] = 0
    <3> HIDE DEF j
    <3> QED BY <2>1, <2>2
  <2>5. h[j] \in Nat BY <1>2, <2>1
  <2>6. h[k] \in Nat BY <1>12
  <2>c. c(k) \in Nat
    <3> DEFINE m == o[k].muts
    <3>1. o[k] \in Group BY <1>0, <1>l, <2>1
    <3>2. m \in SUBSET DOMAIN FuncOf BY <3>1 DEF Group
    <3> HIDE DEF m
    <3>3. IsFiniteSet(m) BY <3>2, MutantsAssumption, FS_Subset
    <3>4. Cardinality(m) \in Nat BY <3>3, FS_CardinalityType
    <3> QED BY <3>4 DEF m
  <2>7. j > 0 => h[j] # 0 BY <1>15, <2>1
  <2>8. CASE c(k) <= L - h[j]
    <3> HIDE DEF j, c
    <3> QED BY <2>3, <2>5, <2>c, <2>8
  <2>9. CASE C + h[j] = 0
    <3>1. C = 0 /\ h[j] = 0
      <4> HIDE DEF j
      <4> QED BY <2>5, <2>9
    <3>2. ~(j > 0) BY <2>7, <3>1
    <3>3. k = 1 BY <1>0, <1>k, <2>1, <3>2
    <3> QED BY <3>1, <3>3
  <2> QED BY <2>4, <2>8, <2>9
<1>19. Taken(t, V, L, C)
  BY <1>7, <1>8, <1>11, <1>12, <1>13, <1>14, <1>16, <1>17, <1>18 DEF Taken, K, O
<1> QED BY <1>19 DEF t

\* The mutants the tests missed are those that survived and those that no
\* test covers.
LEMMA UnkilledSplit ==
  /\ With(ToJudge, "survived") \cup With(ToJudge, "not_covered") = Unkilled
  /\ With(ToJudge, "survived") \cap With(ToJudge, "not_covered") = {}
<1>1. \A s \in ToJudge : /\ Result(s, FALSE).status \in {"not_covered", "timeout", "killed", "survived"}
                         /\ Detected(s) <=> Result(s, FALSE).status \in {"killed", "timeout"}
  BY ResultOf
<1>2. \A s \in ToJudge : ~Detected(s) <=> Result(s, FALSE).status \in {"survived", "not_covered"}
  BY <1>1
<1> QED BY <1>2 DEF With, Unkilled

\* A score below a --min-score of at most 100 leaves a mutant unkilled.
LEMMA LowScore ==
  ASSUME NEW min \in 0..100, 100 * Cardinality(ToJudge \ Unkilled) < min * Cardinality(ToJudge)
  PROVE  Unkilled # {}
<1> SUFFICES ASSUME Unkilled = {} PROVE FALSE OBVIOUS
<1> DEFINE n == Cardinality(ToJudge)
<1>1. n \in Nat BY ToJudgeFinite
<1>2. ToJudge \ Unkilled = ToJudge OBVIOUS
<1>3. 100 * n < min * n BY <1>2
<1> HIDE DEF n
<1>4. min * n <= 100 * n BY <1>1
<1> QED BY <1>1, <1>3, <1>4

\* What the brief of WriteLLM says of the mutants to judge.
LEMMA BriefRead ==
  ASSUME NEW b, R!WriteLLM(b, Judged(ToJudge), Limit), Unkilled # {}
  PROVE  LET kept == b.live \o b.uncovered
             left == R!Listed(b.omittedLive) \cup R!Listed(b.omittedUncovered)
         IN /\ b.refs \cup left = Unkilled /\ b.refs \cap left = {} /\ b.refs # {}
            /\ Cardinality(b.refs) <= Limit \/ Len(kept) = 1
            /\ \A i \in DOMAIN b.live, j \in DOMAIN b.omittedLive :
                 Cardinality(b.live[i].muts) >= Cardinality(b.omittedLive[j].muts)
<1> DEFINE V1 == With(ToJudge, "survived")
           V2 == With(ToJudge, "not_covered")
           live == R!Take([left |-> Limit, listed |-> 0], R!groupByFunction(Judged(ToJudge), "survived"), Limit)
           rest == R!Take(live.bud, R!groupByFunction(Judged(ToJudge), "not_covered"), Limit)
           K1 == R!Listed(live.kept)
           K2 == R!Listed(rest.kept)
           O1 == R!Listed(live.omitted)
           O2 == R!Listed(rest.omitted)
           k1 == Len(live.kept)
           k2 == Len(rest.kept)
<1>0. Limit \in Nat \ {0} BY LimitAssumption
<1>1. /\ b.live = live.kept /\ b.omittedLive = live.omitted
      /\ b.uncovered = rest.kept /\ b.omittedUncovered = rest.omitted /\ b.refs = K1 \cup K2
  <2>1. b = [kind |-> "llm", live |-> live.kept, omittedLive |-> live.omitted,
             uncovered |-> rest.kept, omittedUncovered |-> rest.omitted, refs |-> K1 \cup K2]
    BY DEF R!WriteLLM
  <2> HIDE DEF live, rest, K1, K2
  <2> QED BY <2>1
<1>2. V1 \cup V2 = Unkilled /\ V1 \cap V2 = {} BY UnkilledSplit
<1>3. ToJudge \in SUBSET DOMAIN FuncOf BY DEF ToJudge, Sites
<1>4. Taken(live, V1, Limit, 0) BY <1>0, <1>3, GroupsRead, TakeRead
<1> HIDE DEF live, V1, V2
<1>5. /\ K1 \cup O1 = V1 /\ K1 \cap O1 = {}
      /\ live.kept \in Seq(Group) /\ live.omitted \in Seq(Group)
      /\ live.bud = [left |-> Limit - Cardinality(K1), listed |-> 0 + Cardinality(K1)]
      /\ IsFiniteSet(K1) /\ Cardinality(K1) \in Nat
      /\ \A i \in DOMAIN live.kept, j \in DOMAIN live.omitted :
           Cardinality(live.kept[i].muts) >= Cardinality(live.omitted[j].muts)
      /\ k1 = 0 <=> K1 = {}
      /\ V1 # {} => K1 # {}
      /\ Limit - Cardinality(K1) >= 0 \/ k1 = 0 \/ k1 = 1
  BY <1>4 DEF Taken
<1> DEFINE L == Limit - Cardinality(K1)
           C == Cardinality(K1)
<1>6. live.bud = [left |-> L, listed |-> C] /\ L \in Int /\ C \in Nat BY <1>0, <1>5
<1> HIDE DEF L, C
<1>7. Taken(rest, V2, L, C)
  <2>1. Grouped(R!groupByFunction(Judged(ToJudge), "not_covered"), V2) BY <1>3, GroupsRead DEF V2
  <2> QED BY <1>0, <1>6, <2>1, TakeRead
<1> HIDE DEF rest
<1>8. /\ K2 \cup O2 = V2 /\ K2 \cap O2 = {}
      /\ rest.kept \in Seq(Group)
      /\ IsFiniteSet(K2) /\ Cardinality(K2) \in Nat
      /\ k2 = 0 <=> K2 = {}
      /\ (C = 0 /\ V2 # {}) => K2 # {}
      /\ L - Cardinality(K2) >= 0 \/ k2 = 0 \/ (C = 0 /\ k2 = 1)
  BY <1>7 DEF Taken
<1>n. Len(live.kept \o rest.kept) = k1 + k2 /\ k1 \in Nat /\ k2 \in Nat BY <1>5, <1>8
<1> HIDE DEF K1, K2, O1, O2, k1, k2
<1>9. C = 0 <=> K1 = {}
  <2>1. Cardinality({}) = 0 BY FS_EmptySet
  <2>2. Cardinality(K1) = 0 => K1 = {} BY <1>5, FS_EmptySet
  <2> QED BY <2>1, <2>2 DEF C
<1>10. K1 \cup K2 # {} BY <1>2, <1>5, <1>8, <1>9
<1>11. Cardinality(K1 \cup K2) = Cardinality(K1) + Cardinality(K2)
  <2>1. K1 \cap K2 = {} BY <1>2, <1>5, <1>8
  <2>2. Cardinality(K1 \cup K2) = Cardinality(K1) + Cardinality(K2) - Cardinality(K1 \cap K2)
    BY <1>5, <1>8, FS_Union
  <2>3. Cardinality(K1 \cap K2) = 0 BY <2>1, FS_EmptySet
  <2> QED BY <1>5, <1>8, <2>2, <2>3
<1>12. Cardinality(K1 \cup K2) <= Limit \/ k1 + k2 = 1
  <2>e. K2 = {} => Cardinality(K2) = 0 BY FS_EmptySet
  <2>1. CASE L - Cardinality(K2) >= 0 BY <1>0, <1>5, <1>8, <1>11, <2>1 DEF L
  <2>2. CASE k2 = 0
    <3>1. Cardinality(K1 \cup K2) = Cardinality(K1) BY <1>5, <1>8, <1>11, <2>2, <2>e
    <3>2. k1 = 0 => Cardinality(K1) = 0 BY <1>5, <1>9 DEF C
    <3> QED BY <1>0, <1>5, <1>n, <2>2, <3>1, <3>2
  <2>3. CASE C = 0 /\ k2 = 1
    <3>1. k1 = 0 BY <1>5, <1>9, <2>3
    <3> QED BY <1>n, <2>3, <3>1
  <2> QED BY <1>8, <2>1, <2>2, <2>3
<1>13. (K1 \cup K2) \cup (O1 \cup O2) = Unkilled /\ (K1 \cup K2) \cap (O1 \cup O2) = {}
  BY <1>2, <1>5, <1>8
<1>14. Len(b.live \o b.uncovered) = k1 + k2 BY <1>1, <1>n
<1>15. /\ R!Listed(b.omittedLive) = O1 /\ R!Listed(b.omittedUncovered) = O2 BY <1>1 DEF O1, O2
<1>16. \A i \in DOMAIN b.live, j \in DOMAIN b.omittedLive :
         Cardinality(b.live[i].muts) >= Cardinality(b.omittedLive[j].muts)
  BY <1>1, <1>5
<1> QED BY <1>1, <1>10, <1>12, <1>13, <1>14, <1>15, <1>16

\* The brief of a block accounts for every mutant the tests missed, once:
\* listed with a re-run command or counted as left out; it lists at least
\* one, the largest functions first, and goes over the limit only by a single
\* function that is larger than the limit (WriteLLM, llmBudget.take).
THEOREM BriefCompleteAlways == Spec => BriefComplete
<1> DEFINE A == (Decides /\ decision' = "block" /\ \A f \in Files : ~Misread(f)) =>
                  LET b == out'
                      kept == b.live \o b.uncovered
                      left == R!Listed(b.omittedLive) \cup R!Listed(b.omittedUncovered)
                  IN /\ b.refs \cup left = Unkilled /\ b.refs \cap left = {} /\ b.refs # {}
                     /\ Cardinality(b.refs) <= Limit \/ Len(kept) = 1
                     /\ \A i \in DOMAIN b.live, j \in DOMAIN b.omittedLive :
                          Cardinality(b.live[i].muts) >= Cardinality(b.omittedLive[j].muts)
<1>1. LoopInv /\ [Next]_vars => [A]_vars
  <2> SUFFICES ASSUME LoopInv, Next, Decides, decision' = "block", Read PROVE A
    BY DEF Read
  <2>1. HookRun BY DecidesInHookRun
  <2> DEFINE low == /\ ToJudge # {}
                    /\ 100 * Cardinality(ToJudge \ Unkilled) < lastInit * Cardinality(ToJudge)
  <2>2. /\ Testable /\ low => R!WriteLLM(out', Judged(ToJudge), Limit)
        /\ Testable /\ ~low => decision' = "allow"
        /\ ~Testable => decision' = "error"
        /\ lastInit \in Mins
    BY <2>1, HookRunRead
  <2>3. low /\ R!WriteLLM(out', Judged(ToJudge), Limit)
    <3> HIDE DEF low
    <3> QED BY <2>2
  <2>4. lastInit \in 0..100 BY <2>2, MinsAssumption
  <2>5. Unkilled # {} BY <2>3, <2>4, LowScore
  <2> QED BY <2>3, <2>5, BriefRead
<1>2. Spec => [][A]_vars
  <2> HIDE DEF A
  <2> QED BY <1>1, LoopInvAlways, PTL DEF Spec
<1> QED BY <1>2 DEF BriefComplete

-----------------------------------------------------------------------------
(* The test views *)

\* What ZeroKillHonest says of one run, and the inventory run hands to the report.
ViewHonest(rs, stats) ==
  \A n \in R!ZeroKillTests(stats), r \in rs : n \notin {R!Qualified(r.pkg, k) : k \in r.killers}
Inventory(rs) == [p \in {r.pkg : r \in rs} |-> {t \in Tests : TestPkg[t] = p}]

\* The results of a run without --cross-package name tests of the mutated
\* package only.
LEMMA OwnNames ==
  ASSUME NEW pkgs, NEW lines, NEW r \in Results(pkgs, lines, FALSE), NEW k \in r.killers
  PROVE  \E t : k = <<Own, t>>
<1>1. PICK s : r = Result(s, FALSE) BY DEF Results
<1> DEFINE kill == {t \in {u \in Judges(s, FALSE) : s \in covers[u]} : s \in kills[t]}
<1>2. r.killers = IF s \in Looping THEN {} ELSE {NameIn(s, t) : t \in kill} BY <1>1 DEF Result
<1>3. PICK t \in kill : k = NameIn(s, t) BY <1>2
<1>4. TestPkg[t] = PkgOf[s[1]] BY DEF Judges
<1> QED BY <1>3, <1>4 DEF NameIn

\* The disagreement that ZeroKillHonest shows comes from --cross-package alone:
\* without it, no test that the report lists as having killed nothing is named
\* as a killer by a result of the run (report.go:789), for any tests and
\* mutants.
THEOREM ZeroKillHonestInPackage ==
  ASSUME NEW pkgs, NEW lines
  PROVE  LET rs == Results(pkgs, lines, FALSE) IN ViewHonest(rs, R!TestStats(rs, Inventory(rs)))
<1> DEFINE rs == Results(pkgs, lines, FALSE)
           inv == Inventory(rs)
           stats == R!TestStats(rs, inv)
<1> SUFFICES ASSUME NEW n \in R!ZeroKillTests(stats), NEW r \in rs, NEW k \in r.killers,
                    n = R!Qualified(r.pkg, k)
             PROVE  FALSE
  BY DEF ViewHonest
<1>1. \A x \in rs : \A j \in x.killers : \E t : j = <<Own, t>> BY OwnNames
<1>2. PICK key \in DOMAIN stats : stats[key] = {} /\ n = R!Qualified(key[1], key[2])
  BY DEF R!ZeroKillTests
<1>3. /\ DOMAIN stats = R!StatKeys(rs, inv)
      /\ \A x \in DOMAIN stats :
           stats[x] = {y.site : y \in {z \in rs : z.pkg = x[1] /\ x[2] \in z.killers}}
  BY DEF R!TestStats
<1> HIDE DEF stats, rs, inv
<1>4. \E p, t : key = <<p, <<Own, t>>>>
  <2>0. key \in R!StatKeys(rs, inv) BY <1>2, <1>3
  <2> DEFINE listed == UNION {{<<p, <<Own, t>>>> : t \in inv[p]} : p \in DOMAIN inv}
             killing == UNION {{<<x.pkg, j>> : j \in x.killers} : x \in rs}
  <2>d. R!StatKeys(rs, inv) = listed \cup killing BY DEF R!StatKeys
  <2>1. key \in listed \/ key \in killing
    <3> HIDE DEF listed, killing
    <3> QED BY <2>0, <2>d
  <2>2. CASE key \in listed BY <2>2
  <2>3. CASE key \in killing
    <3>1. PICK x \in rs : \E j \in x.killers : key = <<x.pkg, j>> BY <2>3
    <3>2. PICK j \in x.killers : key = <<x.pkg, j>> BY <3>1
    <3> QED BY <1>1, <3>2
  <2> HIDE DEF listed, killing
  <2> QED BY <2>1, <2>2, <2>3
<1>5. PICK p, t : key = <<p, <<Own, t>>>> BY <1>4
<1>6. PICK u : k = <<Own, u>> BY <1>1
<1>7. n = <<p, t>> BY <1>2, <1>5 DEF R!Qualified
<1>8. n = <<r.pkg, u>> BY <1>6 DEF R!Qualified
<1>9. r.pkg = key[1] /\ key[2] \in r.killers BY <1>5, <1>6, <1>7, <1>8
<1>10. r.site \in stats[key] BY <1>2, <1>3, <1>9
<1> QED BY <1>2, <1>10
=============================================================================
