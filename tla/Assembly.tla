------------------------------- MODULE Assembly -------------------------------
(***************************************************************************)
(* How a harness is put together: Build (core/harness.go) initialises the  *)
(* plugins and then takes their tools and hooks into the pools             *)
(* (core/plugin/pool.go) and the hook runner; the skill plugin             *)
(* (plugins/skill) looks for skills on disk when it is initialised, and    *)
(* gives its tool and its hook those that are enabled when they are taken. *)
(*                                                                         *)
(* A tool's name is a pair of a namespace and a name, a hook a record of   *)
(* its plugin, name and priority.  A directory of skills is the set of the *)
(* names with a valid SKILL.md: an invalid one is skipped with a warning.  *)
(***************************************************************************)
EXTENDS Naturals, Sequences, FiniteSets, SequencesExt, Lists

CONSTANTS
    Plugins,    (* the plugins, in the order they were registered          *)
    ToolNames,  (* the tools each plugin has                               *)
    HookList,   (* the hooks each plugin has, as priorities in order       *)
    Paths,      (* search paths for skills, first one first                *)
    Skills,
    ToolLists,  (* the tool patterns of the agents                         *)
    MaxBuilds   (* bound: calls of Build                                   *)

VARIABLES
    builds, built,
    toolPool,   (* the plugin whose tool has a name, for the names taken   *)
    hooks,      (* the runner's hooks, in the order they were registered   *)
    disk,       (* the skills under each path                              *)
    found,      (* the path each skill was found under, or "none"          *)
    enabled,    (* enabledSkills                                           *)
    offered,    (* the skills in the tool and in the hook                  *)
    agent,      (* the tools of the agent created last                     *)
    ran         (* the hooks the last point has run, in order              *)

pools == <<toolPool, hooks>>
skillVars == <<found, enabled, offered>>
vars == <<builds, built, pools, disk, skillVars, agent, ran>>

ThePlugins == ToSet(Plugins)
AllTools == UNION {ToolNames[p] : p \in ThePlugins}
Hook == UNION {{[plugin |-> p, number |-> i, priority |-> HookList[p][i]] :
                   i \in DOMAIN HookList[p]} : p \in ThePlugins}

AssemblyTypeOK ==
    /\ builds \in 0 .. MaxBuilds /\ built \in BOOLEAN
    /\ toolPool \in [AllTools -> ThePlugins \cup {"none"}]
    /\ hooks \in Seq(Hook)
    /\ disk \in [DOMAIN Paths -> SUBSET Skills]
    /\ found \in [Skills -> DOMAIN Paths \cup {0}]
    /\ enabled \subseteq Skills /\ offered \subseteq Skills
    /\ agent \subseteq AllTools
    /\ ran \in Seq(Hook)

NoTools == [t \in AllTools |-> "none"]

Init ==
    /\ builds = 0 /\ built = FALSE
    /\ toolPool = NoTools /\ hooks = <<>>
    /\ disk = [i \in DOMAIN Paths |-> Skills]
    /\ found = [s \in Skills |-> 0]
    /\ enabled = {} /\ offered = {}
    /\ agent = {} /\ ran = <<>>

-----------------------------------------------------------------------------
(* Somebody edits the files of skills.                                     *)
EditSkills(i, s) ==
    /\ disk' = [disk EXCEPT ![i] = IF s \in @ THEN @ \ {s} ELSE @ \cup {s}]
    /\ UNCHANGED <<builds, built, pools, skillVars, agent, ran>>

(* Discover: the first path that has a skill of a name wins.               *)
Discover ==
    [s \in Skills |->
        LET at == {i \in DOMAIN Paths : s \in disk[i]} IN
        IF at = {} THEN 0 ELSE CHOOSE i \in at : \A j \in at : i <= j]

(* Register: a later tool of the same name takes the place of an earlier.  *)
LastWith(t, n) ==
    LET at == {i \in 1 .. n : t \in ToolNames[Plugins[i]]} IN
    IF at = {} THEN "none" ELSE Plugins[CHOOSE i \in at : \A j \in at : j <= i]

HooksOf(p) == [i \in DOMAIN HookList[p] |->
                  [plugin |-> p, number |-> i, priority |-> HookList[p][i]]]
AllHooks(n) == FlattenSeq([i \in 1 .. n |-> HooksOf(Plugins[i])])

(* Variant: each plugin's tools and hooks are taken when it is initialised.*)
BuildOneByOne(n) ==
    /\ builds < MaxBuilds
    /\ builds' = builds + 1
    /\ IF built THEN UNCHANGED <<built, pools, skillVars>>
       ELSE /\ built' = (n = Len(Plugins))
            /\ toolPool' = [t \in AllTools |-> LastWith(t, n)]
            /\ hooks' = AllHooks(n)
            /\ IF "skill" \in {Plugins[i] : i \in 1 .. n}
               THEN /\ found' = Discover
                    /\ enabled' = {s \in Skills : Discover[s] # 0}
                    /\ offered' = enabled'
               ELSE UNCHANGED skillVars
    /\ UNCHANGED <<disk, agent, ran>>

(* Build: not twice; the pools are new.  Plugin n + 1 fails to initialise, *)
(* which leaves the pools empty and the plugins before it initialised; or  *)
(* none fails, and all tools and hooks are taken.                          *)
Build(n) ==
    LET all == n = Len(Plugins) IN
    /\ builds < MaxBuilds
    /\ builds' = builds + 1
    /\ IF built THEN UNCHANGED <<built, pools, skillVars>>
       ELSE /\ built' = all
            /\ toolPool' = IF all THEN [t \in AllTools |-> LastWith(t, n)] ELSE NoTools
            /\ hooks' = IF all THEN AllHooks(n) ELSE <<>>
            /\ IF "skill" \in {Plugins[i] : i \in 1 .. n}
               THEN /\ found' = Discover
                    /\ enabled' = {s \in Skills : Discover[s] # 0}
                    /\ offered' = IF all THEN enabled' ELSE offered
               ELSE UNCHANGED skillVars
    /\ UNCHANGED <<disk, agent, ran>>

-----------------------------------------------------------------------------
(* EnableSkill and DisableSkill: 404 unless the plugin knows the skill.    *)
SetSkillEnabled(s, flag) ==
    /\ found[s] # 0
    /\ enabled' = IF flag THEN enabled \cup {s} ELSE enabled \ {s}
    /\ UNCHANGED <<builds, built, pools, disk, found, offered, agent, ran>>

(* Select: "*", all of a namespace, or one name.                           *)
Matches(pattern, t) ==
    \/ pattern = <<"*">>
    \/ Len(pattern) = 2 /\ pattern[1] = t[1] /\ pattern[2] \in {"*", t[2]}

Select(patterns) ==
    {t \in AllTools : toolPool[t] # "none" /\ \E p \in patterns : Matches(p, t)}

(* The factory of makePluginAgentFactory, when a chat starts.              *)
CreateAgent(patterns) ==
    /\ built
    /\ agent' = Select(patterns)
    /\ UNCHANGED <<builds, built, pools, disk, skillVars, ran>>

(* Run: the hooks of the point, sorted by priority, highest first, and     *)
(* then by the time they were registered.                                  *)
Position(h) == CHOOSE i \in DOMAIN hooks : hooks[i] = h

RunBefore(g, h) ==
    \/ g.priority > h.priority
    \/ g.priority = h.priority /\ Position(g) < Position(h)

RunHooks(S) ==
    /\ built
    /\ ran' = Sorted(S \cap ToSet(hooks), RunBefore)
    /\ UNCHANGED <<builds, built, pools, disk, skillVars, agent>>

Next ==
    \/ \E i \in DOMAIN Paths, s \in Skills : EditSkills(i, s)
    \/ \E n \in 0 .. Len(Plugins) : Build(n)
    \/ \E s \in Skills, flag \in BOOLEAN : SetSkillEnabled(s, flag)
    \/ \E patterns \in ToolLists : CreateAgent(patterns)
    \/ \E S \in SUBSET Hook : RunHooks(S)

Spec == Init /\ [][Next]_vars

-----------------------------------------------------------------------------
(* A harness is whole or empty: after any number of builds that failed     *)
(* half-way, one that succeeds has every tool and every hook, each hook    *)
(* once; before that there is nothing an agent could use (harness.go:186). *)
BuiltWhole ==
    IF built
    THEN /\ \A t \in AllTools : t \in ToolNames[toolPool[t]]
         /\ ToSet(hooks) = Hook /\ IsInjective(hooks)
    ELSE toolPool = NoTools /\ hooks = <<>> /\ agent = {} /\ ran = <<>>

(* Hooks of one point are run in the order of their priorities, and among  *)
(* those of one priority in the order of registration (runner.go:107).     *)
OrderKept ==
    \A i, j \in DOMAIN ran : i < j =>
        \/ ran[i].priority > ran[j].priority
        \/ /\ ran[i].priority = ran[j].priority
           /\ Position(ran[i]) < Position(ran[j])

(* A harness is built whole, and hooks run in order.                       *)
AssemblyConsistent == BuiltWhole /\ OrderKept

=============================================================================
