--------------------------- MODULE AgentSettings ----------------------------
(***************************************************************************)
(* kanly init --agent=claude (cmd/kanly/agent.go): what it does to the     *)
(* skill and to the Stop hooks of the agent's settings.json, between the   *)
(* changes a developer makes to both.  A command is a pair <<tool, arg>>;  *)
(* of the settings only the shape of hooks and hooks.Stop and the hook     *)
(* commands are kept, everything else is copied through.                   *)
(***************************************************************************)
EXTENDS Integers, Sequences

CONSTANTS
  Mins,       \* values of --min-score
  Others,     \* stop hooks of other tools
  Alike,      \* those whose command contains " hook stop", as Kanly's does
  MaxSetup    \* bound on the steps taken

VARIABLES
  settings,   \* settings.json: [hooks, stop, groups]; a group is a sequence of commands
  skill,      \* SKILL.md: "none", "generated" or "edited"
  lastInit,   \* --min-score of the last init that registered the hook, or None
  added,      \* history: the other tools' hooks the developer put in
  byHand,     \* history: the places <<group, hook>> the developer wrote
  edited,     \* history: the developer took the skill over
  setups      \* steps taken

setupVars == <<settings, skill, lastInit, added, byHand, edited, setups>>

None == -1

\* runInit refuses a --min-score outside 0 to 100.
ASSUME MinsAssumption == Mins \subseteq 0..100
ASSUME OthersAssumption == Alike \subseteq Others /\ \A o \in Others : o[1] # "kanly"

-----------------------------------------------------------------------------

\* isKanlyStopHook: the command contains " hook stop".  Every one init writes
\* does; another tool's may.
isKanlyStopHook(c) == c[1] = "kanly" \/ c \in Alike

Commands(groups) == UNION {{groups[i][j] : j \in DOMAIN groups[i]} : i \in DOMAIN groups}

\* The hooks that run Kanly
Registered(groups) == {c \in Commands(groups) : c[1] = "kanly"}

\* The places of the hooks that addStopHook takes for Kanly's
KanlyPlaces(groups) ==
  UNION {{<<i, j>> : j \in {k \in DOMAIN groups[i] : isKanlyStopHook(groups[i][k])}} : i \in DOMAIN groups}

\* writeSkill: a file without the marker line is the developer's.
writeSkill == skill' = IF skill = "edited" THEN "edited" ELSE "generated"

\* Mutant: the hook is added without looking for one that is there.
AppendAlways(groups, entry) == Append(groups, <<entry>>)

\* addStopHook on the groups of hooks.Stop: every hook taken for Kanly's becomes
\* the new entry; without one, a group of its own is added.
ReplaceOrAppend(groups, entry) ==
  IF KanlyPlaces(groups) = {} THEN Append(groups, <<entry>>)
  ELSE [i \in DOMAIN groups |->
          [j \in DOMAIN groups[i] |-> IF isKanlyStopHook(groups[i][j]) THEN entry ELSE groups[i][j]]]

\* addStopHook: settings of another shape are an error and stay as they are.
addStopHook(min) ==
  IF settings.hooks = "other" \/ settings.stop = "other"
  THEN UNCHANGED <<settings, lastInit>>
  ELSE /\ settings' = [hooks |-> "object", stop |-> "array",
                       groups |-> ReplaceOrAppend(settings.groups, <<"kanly", min>>)]
       /\ lastInit' = min

\* runInit: the skill first, then the hook, unless --no-hook is given (None).
InitCommand == \E min \in Mins \cup {None} :
  /\ writeSkill
  /\ IF min = None THEN UNCHANGED <<settings, lastInit>> ELSE addStopHook(min)
  /\ UNCHANGED <<added, byHand, edited>>

\* The developer adds another tool's hook, to a group or as its own,
AddHook == \E o \in Others \ added :
  /\ settings.hooks # "other" /\ settings.stop # "other"
  /\ added' = added \cup {o}
  /\ \/ /\ settings' = [hooks |-> "object", stop |-> "array", groups |-> Append(settings.groups, <<o>>)]
        /\ byHand' = byHand \cup {<<Len(settings.groups) + 1, 1>>}
     \/ \E i \in DOMAIN settings.groups :
          /\ settings' = [settings EXCEPT !.groups[i] = Append(@, o)]
          /\ byHand' = byHand \cup {<<i, Len(settings.groups[i]) + 1>>}
  /\ UNCHANGED <<skill, lastInit, edited>>

\* copies a group,
CopyGroup == \E i \in DOMAIN settings.groups :
  /\ settings' = [settings EXCEPT !.groups = Append(@, settings.groups[i])]
  /\ byHand' = byHand \cup {<<Len(settings.groups) + 1, j>> : j \in DOMAIN settings.groups[i]}
  /\ UNCHANGED <<skill, lastInit, added, edited>>

\* or edits the skill and drops its marker.
EditSkill ==
  /\ skill = "generated" /\ skill' = "edited" /\ edited' = TRUE
  /\ UNCHANGED <<settings, lastInit, added, byHand>>

SetupInit ==
  /\ settings \in {[hooks |-> "absent", stop |-> "absent", groups |-> << >>],
                  [hooks |-> "other", stop |-> "absent", groups |-> << >>],
                  [hooks |-> "object", stop |-> "other", groups |-> << >>]}
  /\ skill = "none" /\ lastInit = None /\ added = {} /\ byHand = {} /\ edited = FALSE /\ setups = 0

SetupNext ==
  /\ setups < MaxSetup /\ setups' = setups + 1
  /\ InitCommand \/ AddHook \/ CopyGroup \/ EditSkill

SetupSpec == SetupInit /\ [][SetupNext]_setupVars

\* However often init runs and whatever the developer does to the settings in
\* between: an edited skill stays; so do the hooks of other tools, except those
\* that isKanlyStopHook takes for Kanly's; every hook that runs Kanly has the score
\* of the last init that succeeded; and "re-running init updates the command
\* instead of adding another": of the hooks taken for Kanly's at most one was not
\* put in, or copied, by the developer.
SettingsKept ==
  /\ edited => skill = "edited"
  /\ added \ Alike \subseteq Commands(settings.groups)
  /\ lastInit # None => Registered(settings.groups) = {<<"kanly", lastInit>>}
  /\ \A p, q \in KanlyPlaces(settings.groups) \ byHand : p = q
=============================================================================
