------------------------------- MODULE Skills -------------------------------
(***************************************************************************)
(* Skills and plugins of the AI agents                                     *)
(* (lib/actions/ai_skills_action.py, ai_skills_state.py): what each        *)
(* agent's own records say of a home, and what dasik asks its installers   *)
(* for.  The installers are external, modelled from what the code knows of *)
(* them.                                                                   *)
(***************************************************************************)
EXTENDS McpServers

CONSTANT AgyName            \* source -> the name its repository gives the plugin

VARIABLE homes              \* user -> what the agents keep there, see EmptyHome

\* claude, codex: plugins on record, the marketplaces (name -> source), and what of
\* the two is really on disk, for claude with the repository it came from; agy: the
\* same for its plugins.  canonical, locked: the shared copies and what the lock says
\* of them; links, copies: what the agents' own directories hold.
EmptyHome(agents) ==
    [agents |-> agents, claude |-> {}, claudeFiles |-> <<>>, claudeMarkets |-> <<>>, claudeClones |-> <<>>,
     codex |-> {}, codexMarkets |-> <<>>, codexCache |-> {}, codexRemote |-> {}, signedIn |-> TRUE,
     agy |-> {}, agyFiles |-> {},
     canonical |-> {}, locked |-> <<>>, links |-> {}, copies |-> {}]

PluginName(plugin, market) == [plugin |-> plugin, market |-> market]
Id(item) == PluginName(item.name, item.market)
Curated == ""               \* a marketplace codex serves itself has no source

Shared == {"antigravity", "antigravity-cli"}
UniversalAgents == {"codex"} \cup Shared
SkillDir(agent) == IF agent \in Shared THEN "gemini" ELSE agent
CanonicalDir == "canonical"

-----------------------------------------------------------------------------
(* What is there: ai_skills_state *)

\* Mutant: the registry is taken at its word.
TrustRegistry(h) == h.claude

\* `_payload_present': the registry outlives the files it names.
ClaudePlugins(h) == h.claude \cap DOMAIN h.claudeFiles

AgyPlugins(h) == h.agy \cap h.agyFiles

\* A link to a copy that is gone is no skill.
OwnDir(h, dir) == {c.skill : c \in {x \in h.copies : x.dir = dir}}
                    \cup {l.skill : l \in {x \in h.links : x.dir = dir /\ x.skill \in h.canonical}}
PerAgent(h, agent) == OwnDir(h, SkillDir(agent))
AllSkills(h) == h.canonical \cup UNION {OwnDir(h, dir) : dir \in {"claude-code", "codex", "gemini"}}
Sources(h) == Restrict(h.locked, DOMAIN h.locked \cap AllSkills(h))

Carries(h, agent, skill) ==
    \/ skill \in PerAgent(h, agent)
    \/ agent \in UniversalAgents /\ skill \in h.canonical

-----------------------------------------------------------------------------
(* Desired *)

\* The items of one entry, with what installs them.
EntryItems(user, e) ==
    CASE e.method = "antigravity-plugin" ->
            {[source |-> e.source, method |-> e.method, item |-> PluginItem(user, "antigravity", e.name, Curated)]}
      [] e.method \in {"claude-code", "codex"} ->
            {[source |-> e.source, method |-> e.method, item |-> PluginItem(user, e.method, e.name, e.market)]}
            \cup IF e.source = Curated THEN {}
                 ELSE {[source |-> e.source, method |-> e.method, item |-> Item(user, e.method, "marketplace", e.market)]}
      [] e.method \in {"skills", "tool"} ->
            {[source |-> e.source, method |-> e.method, item |-> Item(user, agent, "skill", e.name)] : agent \in e.agents}

Specs(block) ==
    UNION {UNION {EntryItems(user, e) : user \in EntryUsers(block, e)} : e \in block.entries}
DesiredSkills(block) == {s.item : s \in Specs(block)}
SpecIn(block, item) == CHOOSE s \in Specs(block) : s.item = item

StillWanted(block, user, skill) ==
    \E item \in DesiredSkills(block) : item.kind = "skill" /\ item.user = user /\ item.name = skill
SkillAgents(block, user) ==
    {item.agent : item \in {i \in DesiredSkills(block) : i.kind = "skill" /\ i.user = user}}

-----------------------------------------------------------------------------
(* Actual and the plan *)

\* Mutant: config.toml is all there is to know.
RegistryOnly(block, user, h) == h.codex

\* A plugin of codex's own catalog is in no file: codex is asked, when any is declared.
CodexPlugins(block, user, h) ==
    h.codex \cup (IF \E i \in DesiredSkills(block) :
                        i.user = user /\ i.agent = "codex" /\ i.kind = "plugin"
                  THEN h.codexRemote ELSE {})

\* A marketplace codex says it cannot load is not there.
CodexMarkets(h) == DOMAIN h.codexMarkets \cap h.codexCache

Scan(block, user) ==
    LET h == homes[user]
        Of(agent, kind, names) == {Item(user, agent, kind, n) : n \in names}
        Plugins(agent, ids) == {PluginItem(user, agent, p.plugin, p.market) : p \in ids}
    IN Plugins("claude-code", ClaudePlugins(h))
         \cup Of("claude-code", "marketplace", DOMAIN h.claudeMarkets)
         \cup Plugins("codex", CodexPlugins(block, user, h))
         \cup Of("codex", "marketplace", CodexMarkets(h))
         \cup Plugins("antigravity", {PluginName(n, Curated) : n \in AgyPlugins(h)})
         \cup UNION {Of(agent, "skill", {s \in AllSkills(h) : Carries(h, agent, s)})
                       : agent \in SkillAgents(block, user)}
ActualSkills(block) == UNION {Scan(block, user) : user \in BlockUsers(block)}

MarketSource(item) ==
    LET h == homes[item.user]
    IN IF item.agent = "codex" THEN h.codexMarkets[item.name] ELSE h.claudeMarkets[item.name]

\* Mutant: a marketplace is known by its name.
KnownByName(block) == {}

\* A marketplace registered from another repository than the declared one.
MarketDrifts(block) ==
    {item \in DesiredSkills(block) \cap ActualSkills(block) :
        item.kind = "marketplace" /\ MarketSource(item) # SpecIn(block, item).source}

PlanSkills(block, owned) ==
    PlanItems(DesiredSkills(block), owned, ActualSkills(block), MarketDrifts(block))

OfKind(items, kind) == {item \in items : item.kind = kind}

\* A marketplace before its plugins, and after them on the way out.
SkillChanges(plan) ==
    Changes("create", OfKind(plan.add, "marketplace")) \o Changes("create", OfKind(plan.add, "plugin"))
      \o Changes("create", OfKind(plan.add, "skill")) \o Changes("modify", plan.modify)
      \o Changes("delete", OfKind(plan.drop, "skill")) \o Changes("delete", OfKind(plan.drop, "plugin"))
      \o Changes("delete", OfKind(plan.drop, "marketplace"))

-----------------------------------------------------------------------------
(* What a change runs: _command_for *)

\* Mutant: nobody but the document has a say.
NobodyDeclaresIt(block, user, skill, deleting) == ~StillWanted(block, user, skill)

\* Every agent with a copy or a link of its own is one this apply takes it from.
OnlyDasikIsLeaving(block, user, skill, deleting) ==
    /\ ~StillWanted(block, user, skill)
    /\ \A agent \in UniversalAgents \cup {"claude-code"} :
         skill \in PerAgent(homes[user], agent) => Item(user, agent, "skill", skill) \in deleting

\* `_removal_for_skill': how, by where the skill is.  `gone' is what this apply has
\* removed everywhere, or from a shared directory, already.
RemovalForSkill(block, item, deleting, gone) ==
    LET h == homes[item.user]
        Rm(dir) == Command("rm", item, dir)
    IN IF item.name \in h.canonical /\ item.name \in DOMAIN Sources(h)
       THEN IF ~OnlyDasikIsLeaving(block, item.user, item.name, deleting)
            THEN <<Command("skills remove agent", item, "")>>
            ELSE IF <<item.user, item.name, "everywhere">> \in gone THEN <<>>
                 ELSE <<Command("skills remove all", item, "")>>
       ELSE IF item.agent \notin Shared THEN <<Rm(SkillDir(item.agent))>>
       ELSE IF StillWanted(block, item.user, item.name) THEN <<>>
       ELSE LET There(dir) == /\ <<item.user, item.name, dir>> \notin gone
                              /\ \/ dir = "gemini" /\ item.name \in OwnDir(h, dir)
                                 \/ dir = CanonicalDir /\ item.name \in h.canonical
            IN (IF There("gemini") THEN <<Rm("gemini")>> ELSE <<>>)
                 \o (IF There(CanonicalDir) THEN <<Rm(CanonicalDir)>> ELSE <<>>)

\* What the rest of this apply takes as done, whether or not it will succeed.
Marked(commands) ==
    LET everywhere == {c \in Range(commands) : c.verb = "skills remove all"}
        directories == {c \in Range(commands) : c.verb = "rm" /\ c.item.agent \in Shared}
    IN {<<c.item.user, c.item.name, "everywhere">> : c \in everywhere}
         \cup {<<c.item.user, c.item.name, c.arg>> : c \in directories}

SkillCommands(block, change, deleting, gone) ==
    LET item == change.item
        Add(verb) == <<Command(verb, item, SpecIn(block, item).source)>>
        Take(verb) == <<Command(verb, item, "")>>
    IN CASE item.kind = "marketplace" ->
              (CASE change.op = "create" -> Add("market add")
                 [] change.op = "modify" -> Take("market remove") \o Add("market add")
                 [] change.op = "delete" -> Take("market remove"))
         [] item.kind = "plugin" ->
              IF change.op = "delete" THEN Take("plugin remove") ELSE Add("plugin install")
         [] item.kind = "skill" ->
              IF change.op = "delete" THEN RemovalForSkill(block, item, deleting, gone)
              ELSE Add(IF SpecIn(block, item).method = "tool" THEN "tool install" ELSE "skills add")
=============================================================================
