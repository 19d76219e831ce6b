----------------------------- MODULE Installers -----------------------------
(***************************************************************************)
(* The commands ai_skills runs as the user: the plugin managers of claude, *)
(* codex and agy, the `skills' CLI, and the programs that install a skill  *)
(* of their own.  None of them is in the repository: this is what the code *)
(* says it measured of them.  Works(command) says whether it can succeed,  *)
(* After(command) what the home is like when it has.                       *)
(***************************************************************************)
EXTENDS Skills

Home(item) == homes[item.user]
With(map, key, value) == [k \in DOMAIN map \cup {key} |-> IF k = key THEN value ELSE map[k]]
Without(map, key) == Restrict(map, DOMAIN map \ {key})

\* codex: a registration whose cache is gone, or that names another source.
IsStale(item, source) ==
    LET h == Home(item)
    IN /\ item.agent = "codex" /\ item.name \in DOMAIN h.codexMarkets
       /\ item.name \notin h.codexCache \/ h.codexMarkets[item.name] # source

\* A marketplace claude has on record stays what it is, whatever is added, and
\* its clone as gone as it was.
MarketAdded(item, source) ==
    LET h == Home(item)
    IN IF item.agent = "codex"
       THEN [h EXCEPT !.codexMarkets = With(@, item.name, source), !.codexCache = @ \cup {item.name}]
       ELSE IF item.name \in DOMAIN h.claudeMarkets THEN h
       ELSE [h EXCEPT !.claudeMarkets = With(@, item.name, source), !.claudeClones = With(@, item.name, source)]

\* claude forgets the plugins of a marketplace with it.
MarketRemoved(item) ==
    LET h == Home(item)
        OfOthers == {p \in h.claude \cup DOMAIN h.claudeFiles : p.market # item.name}
    IN IF item.agent = "codex"
       THEN [h EXCEPT !.codexMarkets = Without(@, item.name), !.codexCache = @ \ {item.name}]
       ELSE [h EXCEPT !.claudeMarkets = Without(@, item.name), !.claudeClones = Without(@, item.name),
                      !.claude = @ \cap OfOthers, !.claudeFiles = Restrict(@, DOMAIN @ \cap OfOthers)]

\* claude takes a plugin from the clone of its marketplace, and clones that again
\* when it is gone; agy names a plugin after its repository, not after the config.
PluginInstalled(item, source) ==
    LET h == Home(item)
        clone == IF item.market \in DOMAIN h.claudeClones THEN h.claudeClones[item.market]
                 ELSE h.claudeMarkets[item.market]
    IN CASE item.agent = "claude-code" ->
              [h EXCEPT !.claude = @ \cup {Id(item)}, !.claudeFiles = With(@, Id(item), clone),
                        !.claudeClones = With(@, item.market, clone)]
         [] item.agent = "codex" ->
              IF item.market \in CodexMarkets(h) THEN [h EXCEPT !.codex = @ \cup {Id(item)}]
              ELSE [h EXCEPT !.codexRemote = @ \cup {Id(item)}]
         [] item.agent = "antigravity" ->
              [h EXCEPT !.agy = @ \cup {AgyName[source]}, !.agyFiles = @ \cup {AgyName[source]}]

CanInstallPlugin(item) ==
    LET h == Home(item)
    IN CASE item.agent = "claude-code" -> item.market \in DOMAIN h.claudeMarkets
         [] item.agent = "codex" ->
              IF item.market \in DOMAIN h.codexMarkets THEN item.market \in h.codexCache
              ELSE item.market = "curated" /\ h.signedIn
         [] item.agent = "antigravity" -> TRUE

PluginRemoved(item) ==
    LET h == Home(item)
    IN CASE item.agent = "claude-code" -> [h EXCEPT !.claude = @ \ {Id(item)}, !.claudeFiles = Without(@, Id(item))]
         [] item.agent = "codex" -> [h EXCEPT !.codex = @ \ {Id(item)}, !.codexRemote = @ \ {Id(item)}]
         [] item.agent = "antigravity" ->
              [h EXCEPT !.agy = @ \ {item.name}, !.agyFiles = @ \ {item.name}]

HasPlugin(item) ==
    LET h == Home(item)
    IN CASE item.agent = "claude-code" -> Id(item) \in h.claude
         [] item.agent = "codex" -> Id(item) \in h.codex \cup h.codexRemote
         [] item.agent = "antigravity" -> item.name \in h.agy

InDir(dir, skill) == [dir |-> dir, skill |-> skill]
NotOf(places, skill) == {p \in places : p.skill # skill}

\* One copy for everybody, recorded, and a link for the agent that reads its own.
SkillAdded(item, source) ==
    LET h == Home(item)
        own == IF item.agent \in UniversalAgents THEN {} ELSE {InDir(SkillDir(item.agent), item.name)}
    IN [h EXCEPT !.canonical = @ \cup {item.name}, !.locked = With(@, item.name, source),
                 !.links = @ \cup own, !.copies = @ \ own]

\* The copy stays while another universal agent is on the machine, or a link.
RemovedForAgent(item) ==
    LET h == Home(item)
        links == h.links \ {InDir(SkillDir(item.agent), item.name)}
        stays == \/ UniversalAgents \cap (h.agents \ {item.agent}) # {}
                 \/ \E l \in links : l.skill = item.name
    IN IF stays THEN [h EXCEPT !.links = links]
       ELSE [h EXCEPT !.links = links, !.canonical = @ \ {item.name}, !.locked = Without(@, item.name)]

RemovedForAll(item) ==
    [Home(item) EXCEPT !.canonical = @ \ {item.name}, !.locked = Without(@, item.name),
                       !.links = NotOf(@, item.name), !.copies = NotOf(@, item.name)]

ToolSkillInstalled(item) == [Home(item) EXCEPT !.copies = @ \cup {InDir(SkillDir(item.agent), item.name)}]

DirectoryGone(item, dir) ==
    IF dir = CanonicalDir THEN [Home(item) EXCEPT !.canonical = @ \ {item.name}]
    ELSE [Home(item) EXCEPT !.copies = @ \ {InDir(dir, item.name)}, !.links = @ \ {InDir(dir, item.name)}]

HasMarket(item) ==
    item.name \in DOMAIN (IF item.agent = "codex" THEN Home(item).codexMarkets ELSE Home(item).claudeMarkets)

Works(c) ==
    CASE c.verb = "market add" -> ~IsStale(c.item, c.arg)
      [] c.verb = "market remove" -> HasMarket(c.item)
      [] c.verb = "plugin install" -> CanInstallPlugin(c.item)
      [] c.verb = "plugin remove" -> HasPlugin(c.item)
      [] c.verb = "tool install" -> c.arg \in DOMAIN venvs[c.item.user]
      [] OTHER -> TRUE

After(c) ==
    CASE c.verb = "market add" -> MarketAdded(c.item, c.arg)
      [] c.verb \in {"market remove", "market forget"} -> MarketRemoved(c.item)
      [] c.verb = "plugin install" -> PluginInstalled(c.item, c.arg)
      [] c.verb = "plugin remove" -> PluginRemoved(c.item)
      [] c.verb = "skills add" -> SkillAdded(c.item, c.arg)
      [] c.verb = "skills remove agent" -> RemovedForAgent(c.item)
      [] c.verb = "skills remove all" -> RemovedForAll(c.item)
      [] c.verb = "tool install" -> ToolSkillInstalled(c.item)
      [] c.verb = "rm" -> DirectoryGone(c.item, c.arg)
      [] c.verb \in {"market update", "skills update"} -> Home(c.item)
=============================================================================
