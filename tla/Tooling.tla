------------------------------ MODULE Tooling ------------------------------
(***************************************************************************)
(* The AI tooling of a machine: uv_tools, ai_skills and mcp_servers in     *)
(* apply, sync and upgrade.  The plan of the three is made first; then     *)
(* every change runs the command of somebody else's installer as the user. *)
(* A command that fails is tolerated and its item left out of the manifest,*)
(* or, with `failure_policy: abort', ends the apply.                       *)
(***************************************************************************)
EXTENDS Installers

CONSTANTS Scenarios, MaxCuts, MaxApplies, MaxHands

VARIABLES
    docs, doc,
    owned,                  \* the items of the manifest, of the three domains
    todo,                   \* the changes or the upgrade steps left
    commands,               \* what is left of the change that runs
    deleting, gone,         \* the skills this apply removes, and has removed
    failed,                 \* the items whose installer failed
    pc,
    settled,                \* the last apply ended, and nothing happened since
    moved,                  \* it registered a marketplace of claude anew
    outdated,               \* items older than where they come from
    claimed,                \* what the last upgrade said is up to date
    synced,                 \* sync captured a machine whose plan was silent, and nothing happened since
    cuts, applies, hands

counters == <<cuts, applies, hands>>
machine == <<venvs, homes, servers>>
running == <<todo, commands, deleting, gone, failed, pc>>
ghosts == <<settled, moved, claimed, synced>>
vars == <<machine, running, docs, doc, owned, outdated, ghosts, counters>>

-----------------------------------------------------------------------------
(* The three domains together *)

DomainOf(item) == CASE item.kind = "tool" -> "uv" [] item.kind = "server" -> "mcp" [] OTHER -> "skills"
In(items, domain) == {item \in items : DomainOf(item) = domain}

Desired(d) == DesiredTools(d.uv) \cup DesiredSkills(d.skills) \cup DesiredServers(d.mcp)
Actual(d) == ActualTools(d.uv) \cup ActualSkills(d.skills) \cup ActualServers(d.mcp)

Planned(d) ==
    [uv     |-> PlanTools(d.uv, In(owned, "uv")),
     skills |-> PlanSkills(d.skills, In(owned, "skills")),
     mcp    |-> PlanServers(d.mcp, In(owned, "mcp"))]
Silent(d) == \A domain \in DOMAIN Planned(d) : \A part \in Range(Planned(d)[domain]) : part = {}

\* A tool before the skill it installs.
AllChanges(plan) == ToolChanges(plan.uv) \o SkillChanges(plan.skills) \o ServerChanges(plan.mcp)

\* An owned item is on the machine, whoever's block it was in.
There(item) ==
    CASE DomainOf(item) = "uv" -> HasTool(item)
      [] DomainOf(item) = "mcp" -> Registered(item)
      [] item.kind = "marketplace" -> HasMarket(item)
      [] item.kind = "plugin" -> HasPlugin(item)
      [] item.kind = "skill" -> Carries(Home(item), item.agent, item.name)

-----------------------------------------------------------------------------
(* apply *)

StartApply ==
    /\ pc = "idle" /\ applies < MaxApplies /\ ~Silent(doc)
    /\ pc' = "apply" /\ applies' = applies + 1
    /\ todo' = AllChanges(Planned(doc))
    /\ deleting' = Planned(doc).skills.drop /\ gone' = {} /\ failed' = {} /\ commands' = <<>>
    /\ settled' = FALSE /\ moved' = FALSE /\ synced' = FALSE /\ claimed' = {}
    /\ UNCHANGED <<machine, docs, doc, owned, outdated, cuts, hands>>

CommandsOf(change) ==
    CASE DomainOf(change.item) = "uv" -> ToolCommands(doc.uv, change)
      [] DomainOf(change.item) = "skills" -> SkillCommands(doc.skills, change, deleting, gone)
      [] DomainOf(change.item) = "mcp" -> ServerCommands(doc.mcp, change)

\* What a change runs is decided when its turn comes.
NextChange ==
    /\ pc = "apply" /\ commands = <<>> /\ todo # <<>>
    /\ commands' = CommandsOf(Head(todo)) /\ todo' = Tail(todo)
    /\ gone' = gone \cup Marked(commands')
    /\ moved' = (moved \/ LET c == Head(todo)
                          IN c.op = "modify" /\ c.item.kind = "marketplace" /\ c.item.agent = "claude-code")
    /\ UNCHANGED <<machine, deleting, failed, pc, docs, doc, owned, outdated, settled, claimed, synced,
                   counters>>

\* A plugin is as old as the marketplace it is taken from, a skill of a tool as the tool.
OriginOutdated(item) ==
    \E other \in outdated :
        /\ other.user = item.user
        /\ \/ /\ item.kind = "plugin" /\ other.kind = "marketplace" /\ other.agent = item.agent
              /\ other.name = item.market
           \/ item.kind = "skill" /\ other.kind = "tool" /\ other.name \in {s.source : s \in
                    {x \in Specs(doc.skills) : x.item = item /\ x.method = "tool"}}
Refreshed(item) == IF OriginOutdated(item) THEN outdated \cup {item} ELSE outdated \ {item}

Adds == {"uv install", "uv install --force", "market add", "plugin install", "skills add",
         "tool install", "mcp add"}

\* _build_new_manifest: what completed owns what it declares, the rest keeps what it had.
Record(done) ==
    owned' = UNION {IF domain \in done THEN ManagedItems(In(Desired(doc), domain), failed')
                    ELSE In(owned, domain) : domain \in {"uv", "skills", "mcp"}}

Stopped == /\ pc' = "idle" /\ todo' = <<>> /\ commands' = <<>> /\ deleting' = {} /\ gone' = {}

Completed(domain) ==
    CASE domain = "uv" -> {} [] domain = "skills" -> {"uv"} [] domain = "mcp" -> {"uv", "skills"}

Policy(item) ==
    CASE DomainOf(item) = "uv" -> doc.uv.policy [] DomainOf(item) = "skills" -> doc.skills.policy
      [] DomainOf(item) = "mcp" -> doc.mcp.policy

\* `_fail': the item is remembered and its other commands are not run, or the
\* apply is over.
CommandFailed(item) ==
    IF Policy(item) = "abort"
    THEN Stopped /\ failed' = failed /\ Record(Completed(DomainOf(item)))
    ELSE /\ failed' = failed \cup {item} /\ commands' = <<>>
         /\ UNCHANGED <<todo, deleting, gone, pc, owned>>

CommandWorked ==
    commands' = Tail(commands) /\ UNCHANGED <<todo, deleting, gone, failed, pc, owned>>

Current == Head(commands)
InCommand == pc = "apply" /\ commands # <<>> /\ UNCHANGED <<docs, doc, settled, moved, claimed, synced, applies, hands>>

\* An install that succeeded under another name is not the declared plugin.
InstalledAsDeclared(c) ==
    c.verb = "plugin install" /\ c.item.agent = "antigravity" =>
        c.item.name \in AgyPlugins(homes'[c.item.user])

RunInstaller ==
    /\ InCommand /\ DomainOf(Current.item) = "skills" /\ UNCHANGED <<venvs, servers, cuts>>
    /\ Works(Current)
    /\ homes' = [homes EXCEPT ![Current.item.user] = After(Current)]
    /\ outdated' = IF Current.verb \in Adds THEN Refreshed(Current.item) ELSE outdated
    /\ IF InstalledAsDeclared(Current) THEN CommandWorked ELSE CommandFailed(Current.item)

RunUv ==
    /\ InCommand /\ DomainOf(Current.item) = "uv" /\ UNCHANGED <<homes, servers, cuts>>
    /\ outdated' = outdated \ {Current.item}
    /\ \/ Current.verb = "uv install" /\ UvInstall(Current.item, Current.arg)
       \/ Current.verb = "uv install --force" /\ UvForce(Current.item, Current.arg)
       \/ Current.verb = "uv uninstall" /\ UvUninstall(Current.item)
    /\ CommandWorked

RunMcp ==
    /\ InCommand /\ DomainOf(Current.item) = "mcp" /\ UNCHANGED <<venvs, homes, outdated, cuts>>
    /\ \/ Current.verb = "mcp remove" /\ McpRemove(Current.item) /\ CommandWorked
       \/ /\ Current.verb = "mcp add" /\ McpAdd(Current.item, Current.arg)
          /\ IF LoginFollows(Current) => ReadsBack(Current.item, Current.arg)
             THEN CommandWorked ELSE CommandFailed(Current.item)

\* `_heal_stale_marketplace': the registration is dropped, and the add tried once more.
IsHealed(c) == c.verb = "market add" /\ IsStale(c.item, c.arg)

Heal ==
    /\ InCommand /\ IsHealed(Current)
    /\ commands' = <<Command("market forget", Current.item, ""), Current>> \o Tail(commands)
    /\ UNCHANGED <<machine, todo, deleting, gone, failed, pc, owned, outdated, cuts>>

CannotWork(c) ==
    CASE DomainOf(c.item) = "uv" -> c.verb = "uv uninstall" /\ ~HasTool(c.item)
      [] DomainOf(c.item) = "mcp" -> c.verb = "mcp remove" /\ ~Known(c.item)
      [] DomainOf(c.item) = "skills" -> ~Works(c) /\ ~IsHealed(c)

\* No network, a name nobody knows: the command did nothing and said so.
CommandFails ==
    /\ InCommand /\ Current.verb # "market forget"
    /\ IF CannotWork(Current) THEN UNCHANGED cuts ELSE cuts < MaxCuts /\ cuts' = cuts + 1
    /\ UNCHANGED <<machine, outdated>>
    /\ CommandFailed(Current.item)

Die ==
    /\ pc # "idle" /\ cuts < MaxCuts /\ cuts' = cuts + 1
    /\ Stopped
    /\ UNCHANGED <<machine, failed, docs, doc, owned, outdated, ghosts, applies, hands>>

Finish ==
    /\ pc = "apply" /\ commands = <<>> /\ todo = <<>>
    /\ UNCHANGED <<machine, failed, docs, doc, outdated, moved, claimed, synced, counters>>
    /\ Record({"uv", "skills", "mcp"}) /\ Stopped
    /\ settled' = TRUE

-----------------------------------------------------------------------------
(* upgrade: upgrade_steps, upgrade/runner.py *)

\* Mutant: a plugin is updated from whatever copy of its marketplace is there.
AfterNothing(spec) == {}

\* A plugin waits for the marketplace it comes from.
AfterOf(spec) ==
    IF spec.item.kind = "plugin" /\ spec.item.agent # "antigravity"
    THEN {s.item : s \in {x \in Specs(doc.skills) :
            /\ x.item.kind = "marketplace" /\ x.item.user = spec.item.user
            /\ x.item.agent = spec.item.agent /\ x.item.name = spec.item.market}}
    ELSE {}

UpgradeVerb(spec) ==
    CASE spec.item.kind = "marketplace" -> "market update"
      [] spec.item.kind = "plugin" -> "plugin install"
      [] spec.item.kind = "skill" -> IF spec.method = "tool" THEN "tool install" ELSE "skills update"

\* What codex serves itself is skipped, and what is not there; one step for a skill
\* however many agents read it.
UpgradableSkills ==
    {s \in Specs(doc.skills) :
        /\ s.item \in ActualSkills(doc.skills)
        /\ s.item.agent = "codex" /\ s.item.kind = "plugin" => AfterOf(s) # {}}
OnePerSkill(specs) ==
    {s \in specs : s.method = "skills" =>
        s = CHOOSE x \in specs : x.method = "skills" /\ x.item.user = s.item.user /\ x.item.name = s.item.name}

SkillUpgrades ==
    LET Steps(specs) ==
            [i \in 1 .. Cardinality(specs) |->
                LET s == SetToSeq(specs)[i]
                IN [item |-> s.item, after |-> AfterOf(s), verb |-> UpgradeVerb(s), arg |-> s.source]]
        specs == OnePerSkill(UpgradableSkills)
    IN Steps({s \in specs : s.item.kind = "marketplace"}) \o Steps({s \in specs : s.item.kind # "marketplace"})

StartUpgrade ==
    /\ pc = "idle" /\ hands < MaxHands /\ hands' = hands + 1
    /\ ToolUpgrades(doc.uv) \o SkillUpgrades # <<>>
    /\ pc' = "upgrade" /\ todo' = ToolUpgrades(doc.uv) \o SkillUpgrades /\ failed' = {} /\ claimed' = {}
    /\ synced' = FALSE /\ settled' = (settled /\ failed = {})
    /\ UNCHANGED <<machine, commands, deleting, gone, docs, doc, owned, outdated, moved,
                   cuts, applies>>

InUpgrade ==
    /\ pc = "upgrade" /\ todo # <<>> /\ todo' = Tail(todo)
    /\ UNCHANGED <<servers, commands, deleting, gone, pc, docs, doc, owned, settled, moved, synced,
                   applies, hands>>

Skipped(step) == step.after \cap failed # {}
UpgradeCommand == Command(Head(todo).verb, Head(todo).item, Head(todo).arg)

\* A skipped step runs nothing and claims nothing; a failed one ends nothing.
Upgrade ==
    /\ InUpgrade
    /\ \/ Skipped(Head(todo)) /\ UNCHANGED <<venvs, homes, failed, outdated, claimed, cuts>>
       \/ /\ ~Skipped(Head(todo)) /\ UNCHANGED cuts
          /\ DomainOf(Head(todo).item) = "skills" => Works(UpgradeCommand)
          /\ claimed' = claimed \cup {Head(todo).item} /\ outdated' = Refreshed(Head(todo).item)
          /\ UNCHANGED failed
          /\ IF DomainOf(Head(todo).item) = "uv"
             THEN UvUpgrade(Head(todo).item, Head(todo).arg) /\ UNCHANGED homes
             ELSE homes' = [homes EXCEPT ![Head(todo).item.user] = After(UpgradeCommand)] /\ UNCHANGED venvs
       \/ /\ ~Skipped(Head(todo)) /\ UNCHANGED <<venvs, homes, outdated, claimed>>
          /\ IF DomainOf(Head(todo).item) = "skills" => Works(UpgradeCommand)
             THEN cuts < MaxCuts /\ cuts' = cuts + 1 ELSE UNCHANGED cuts
          /\ failed' = failed \cup {Head(todo).item}

EndUpgrade ==
    /\ pc = "upgrade" /\ todo = <<>> /\ pc' = "idle"
    /\ UNCHANGED <<machine, todo, commands, deleting, gone, failed, docs, doc, owned, outdated, ghosts, counters>>

-----------------------------------------------------------------------------
(* sync: import_state of ai_skills *)

CapturedPlugins(user) ==
    LET h == homes[user]
        SourceIn(markets, m) == IF m \in DOMAIN markets THEN markets[m] ELSE Curated
        Of(agent, plugins, markets) ==
            {[name |-> p.plugin, method |-> agent, market |-> p.market,
              source |-> SourceIn(markets, p.market), agents |-> {}] : p \in plugins}
    IN Of("claude-code", ClaudePlugins(h), h.claudeMarkets) \cup Of("codex", h.codex, h.codexMarkets)

\* agy records no source: only a declared plugin can be written down.
CapturedAgy(block, user) ==
    {[name |-> s.item.name, method |-> s.method, market |-> Curated, source |-> s.source, agents |-> {}]
        : s \in {x \in Specs(block) : /\ x.method = "antigravity-plugin" /\ x.item.user = user
                                     /\ x.item.name \in AgyPlugins(homes[user])}}

\* Mutant: every agent on the machine is taken to read it.
AllOfThem(h, agents, skill) == agents

Readers(h, agents, skill) == {a \in agents : Carries(h, a, skill)}

\* A skill its own program installed is as declared; of the others, those with a
\* source on record and an agent that reads them.
CapturedSkills(block, user) ==
    LET h == homes[user]
        Tools(skill) == {s \in Specs(block) : s.method = "tool" /\ s.item.user = user /\ s.item.name = skill}
        Entry(skill) ==
            [name |-> skill, market |-> Curated,
             method |-> IF Tools(skill) # {} THEN "tool" ELSE "skills",
             source |-> IF Tools(skill) # {} THEN (CHOOSE s \in Tools(skill) : TRUE).source
                        ELSE IF skill \in DOMAIN h.locked THEN h.locked[skill] ELSE Curated,
             agents |-> IF Tools(skill) # {} THEN Readers(h, {s.item.agent : s \in Tools(skill)}, skill)
                        ELSE Readers(h, h.agents \cup SkillAgents(block, user), skill)]
    IN {e \in {Entry(skill) : skill \in AllSkills(h)} : e.source # Curated /\ e.agents # {}}

CaptureSkills(block) ==
    LET users == BlockUsers(block)
        Found(user) == CapturedPlugins(user) \cup CapturedAgy(block, user) \cup CapturedSkills(block, user)
        keys == UNION {Found(user) : user \in users}
        Owners(key) == {user \in users : key \in Found(user)}
        all == UNION {Owners(key) : key \in keys}
        Narrowed(key) == [name |-> key.name, method |-> key.method, market |-> key.market, source |-> key.source,
                          agents |-> key.agents, users |-> IF Owners(key) = all THEN {} ELSE Owners(key)]
    IN IF keys = {} THEN EmptyBlock
       ELSE [block EXCEPT !.users = all, !.entries = {Narrowed(key) : key \in keys}]

Capture(d) == [uv |-> CaptureTools(d.uv), skills |-> CaptureSkills(d.skills), mcp |-> CaptureServers(d.mcp)]

Sync ==
    /\ pc = "idle" /\ hands < MaxHands /\ hands' = hands + 1
    /\ doc' = Capture(doc)
    /\ owned' = Actual(doc) \cap (owned \cup Desired(doc))
    /\ synced' = Silent(doc)
    /\ settled' = FALSE
    /\ UNCHANGED <<machine, running, docs, outdated, moved, claimed, cuts, applies>>

-----------------------------------------------------------------------------
(* The owner and the users, between applies *)

Idle == pc = "idle" /\ settled' = FALSE /\ synced' = FALSE
        /\ UNCHANGED <<running, docs, owned, moved, cuts, applies>>
Hand == Idle /\ hands < MaxHands /\ hands' = hands + 1 /\ UNCHANGED doc

EditDoc ==
    /\ Idle /\ doc' \in docs \ {doc} /\ claimed' = {}
    /\ UNCHANGED <<machine, outdated, hands>>

\* A home restored without the caches: the registries outlive what they name.
RestoreHome ==
    /\ Hand /\ UNCHANGED <<venvs, servers, outdated, claimed>>
    /\ \E user \in DOMAIN homes :
        /\ homes' = [homes EXCEPT ![user] =
                        [@ EXCEPT !.claudeFiles = <<>>, !.claudeClones = <<>>, !.codexCache = {}, !.agyFiles = {}]]
        /\ homes' # homes

\* A link or a copy dasik did not make.
LinkSkill ==
    /\ Hand /\ UNCHANGED <<venvs, servers, outdated, claimed>>
    /\ \E user \in DOMAIN homes, dir \in {"codex", "gemini"}, skill \in UNION {homes[u].canonical : u \in DOMAIN homes} :
        /\ skill \in homes[user].canonical /\ InDir(dir, skill) \notin homes[user].links
        /\ homes' = [homes EXCEPT ![user].links = @ \cup {InDir(dir, skill)}]

\* Another repository under the same name; a login that ran out.
ChangeHome ==
    /\ Hand /\ UNCHANGED <<venvs, servers, outdated, claimed>>
    /\ \E user \in DOMAIN homes, other \in {"theirs"} :
        \/ \E m \in DOMAIN homes[user].claudeMarkets :
             homes' = [homes EXCEPT ![user].claudeMarkets[m] = other]
        \/ \E m \in DOMAIN homes[user].codexMarkets :
             homes' = [homes EXCEPT ![user].codexMarkets[m] = other]
        \/ homes[user].signedIn /\ homes' = [homes EXCEPT ![user].signedIn = FALSE]

ChangeServer ==
    /\ Hand /\ UNCHANGED <<venvs, homes, outdated, claimed>>
    /\ \E user \in DOMAIN servers, agent \in McpAgents : \E name \in DOMAIN servers[user][agent] :
        \/ agent = "antigravity" /\ servers' = [servers EXCEPT ![user][agent][name].disabled = TRUE]
        \/ servers' = [servers EXCEPT ![user][agent][name].spec.value = "theirs"]

\* uv run by hand: a tool of another interpreter, or of one user only.
ChangeTool ==
    /\ Hand /\ UNCHANGED <<homes, servers, outdated, claimed>>
    /\ \E user \in DOMAIN venvs : \E name \in DOMAIN venvs[user] :
        LET item == ToolItem(user, name)
        IN UvUninstall(item) \/ UvForce(item, AnyPython)

\* Upstream releases something.
Publish ==
    /\ Hand /\ UNCHANGED machine /\ claimed' = {}
    /\ outdated' = Actual(doc) \cap Desired(doc) /\ outdated' # outdated

Init ==
    \E s \in Scenarios :
        /\ docs = s.docs /\ doc \in s.docs
        /\ venvs = [user \in Range(Users) |-> <<>>]
        /\ homes = [user \in Range(Users) |-> EmptyHome(s.agents)]
        /\ servers = [user \in Range(Users) |-> [agent \in McpAgents |-> <<>>]]
        /\ owned = {} /\ todo = <<>> /\ commands = <<>> /\ deleting = {} /\ gone = {} /\ failed = {}
        /\ pc = "idle" /\ settled = FALSE /\ moved = FALSE /\ outdated = {} /\ claimed = {} /\ synced = FALSE
        /\ cuts = 0 /\ applies = 0 /\ hands = 0

Next ==
    \/ StartApply \/ NextChange \/ RunInstaller \/ RunUv \/ RunMcp \/ Heal \/ CommandFails \/ Die \/ Finish
    \/ StartUpgrade \/ Upgrade \/ EndUpgrade \/ Sync
    \/ EditDoc \/ RestoreHome \/ LinkSkill \/ ChangeHome \/ ChangeServer \/ ChangeTool \/ Publish

Spec == Init /\ [][Next]_vars

-----------------------------------------------------------------------------
(* Properties *)

(* An apply in which nothing failed leaves nothing for the next plan,      *)
(* whatever spelling, registry or directory the installer chose - but for  *)
(* the plugins claude drops when a marketplace is registered anew.         *)
SecondPlanIsSilent == settled /\ failed = {} /\ ~moved => Silent(doc)

\* What claude and agy load of a plugin, and from where claude has it.
Loads(spec) ==
    LET h == Home(spec.item)
        id == Id(spec.item)
    IN CASE spec.method = "claude-code" ->
              /\ id \in DOMAIN h.claudeFiles /\ id.market \in DOMAIN h.claudeClones
              /\ spec.source # Curated => {h.claudeFiles[id], h.claudeClones[id.market]} = {spec.source}
         [] spec.method = "antigravity-plugin" -> spec.item.name \in h.agyFiles
Plugins(block) ==
    {s \in Specs(block) : s.item.kind = "plugin" /\ s.method \in {"claude-code", "antigravity-plugin"}}

(* After an apply in which nothing failed, and that registered no          *)
(* marketplace of claude anew, the agents can load the declared plugins,   *)
(* in a home restored without its caches and under a marketplace that was  *)
(* another repository's before: the files are there, so is the clone of    *)
(* the marketplace, which no plan looks at (ai_skills_state.py:139-146     *)
(* says why it need not), and both come from the declared repository,      *)
(* which a plan compares for the registration only.  Of codex's plugins    *)
(* config.toml is believed; nothing is said of their files.                *)
AppliedIsLoadable ==
    settled /\ failed = {} /\ ~moved => \A spec \in Plugins(doc.skills) : Loads(spec)

(* What an apply that ended claims in the manifest is on the machine: a    *)
(* command that failed, also one that exits well and installed something   *)
(* else, claims nothing.                                                   *)
OwnedIsInstalled == settled /\ ~moved => \A item \in owned : There(item)

Places(h) == h.links \cup h.copies
ReadersOf(user, place) ==
    {Item(user, agent, "skill", place.skill) : agent \in {a \in UniversalAgents \cup {"claude-code"} :
                                                            SkillDir(a) = place.dir}}

(* No step of an apply takes a skill out of an agent's own directory       *)
(* unless dasik owns it for an agent that reads it there and the document  *)
(* no longer declares it, and none takes a skill from an agent that        *)
(* declares it: neither the other agents of a shared directory, nor a link *)
(* somebody made by hand, go with it.                                      *)
OthersKeepTheirSkills ==
    [][pc = "apply" => \A user \in DOMAIN homes :
        /\ \A place \in Places(homes[user]) \ Places(homes'[user]) :
              ReadersOf(user, place) \cap (owned \ Desired(doc)) # {}
        /\ \A item \in {i \in Desired(doc) : i.kind = "skill" /\ i.user = user} :
              Carries(homes[user], item.agent, item.name) => Carries(homes'[user], item.agent, item.name)]_vars

(* What an upgrade says is up to date is as new as its source: a plugin is *)
(* not called current because the copy of its marketplace is old too.      *)
ClaimedIsLatest ==
    pc = "idle" => \A item \in claimed \cap outdated : item.kind = "skill"

\* What import_state does not see as the plan sees it: it reads codex's file only.
CodexAsInItsFile(h) == h.codexRemote = {} /\ DOMAIN h.codexMarkets \subseteq h.codexCache

\* The document has one list of tools for all users: whoever has any has them all.
ToolsAlike ==
    \A u, v \in DOMAIN venvs : DOMAIN venvs[u] \in {{}, DOMAIN venvs[v]} \/ DOMAIN venvs[v] = {}

(* What sync wrote down of a machine whose plan was silent is silent too   *)
(* ("sync -> check -> plan must end in silence", docs/wiki/Sync.md:27) -   *)
(* but for codex, of which import_state reads the file alone: a plugin of  *)
(* codex's own catalog is lost from the document and its removal planned;  *)
(* and but for users with different uv tools, each of which sync writes    *)
(* down for all of them.                                                   *)
SyncedPlanIsSilent ==
    synced /\ ToolsAlike /\ (\A user \in DOMAIN homes : CodexAsInItsFile(homes[user])) => Silent(doc)

(* plan, apply, plan and plan, sync, plan both end in silence. *)
PlansEndSilent == SecondPlanIsSilent /\ SyncedPlanIsSilent

(* Neither the manifest nor the list of an upgrade says more than is true. *)
ClaimsAreTrue == OwnedIsInstalled /\ ClaimedIsLatest
=============================================================================
