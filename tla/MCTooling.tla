------------------------------ MODULE MCTooling ------------------------------
(* One or two users, and the documents their machine goes through. *)
EXTENDS Tooling

TwoUsers == <<"ann", "bob">>
Names == "repo/a" :> "a" @@ "repo/b" :> "other"

Block(entries) == [EmptyBlock EXCEPT !.entries = entries, !.users = {"ann"}]
D(uv, skills, mcp) == [uv |-> Block(uv), skills |-> Block(skills), mcp |-> Block(mcp)]
Aborts(d) == [d EXCEPT !.uv.policy = "abort", !.skills.policy = "abort", !.mcp.policy = "abort"]
ForBoth(d) == [d EXCEPT !.uv.users = {}, !.skills.users = {}, !.mcp.users = {}]
For(users, entry) == [entry EXCEPT !.users = users]
Nothing == D({}, {}, {})

Tool(name, python) == [name |-> name, python |-> python]
Skill(method, name, source, agents) ==
    [name |-> name, method |-> method, market |-> Curated, source |-> source, agents |-> agents, users |-> {}]
Plugin(agent, name, market, source) ==
    [name |-> name, method |-> agent, market |-> market, source |-> source, agents |-> {}, users |-> {}]
Agy(name, source) == Plugin("antigravity-plugin", name, Curated, source)
Server(name, transport, value, agents) ==
    [name |-> name, spec |-> [transport |-> transport, value |-> value], agents |-> agents, users |-> {}]

Graphify(agents) == Skill("tool", "graphify", "graphifyy", agents)
Superpowers(agents) == Skill("skills", "superpowers", "obra", agents)

Scenario(ds, as) == [docs |-> ds, agents |-> as]
Both == {"claude-code", "codex"}
Gemini == {"antigravity", "antigravity-cli"}

Tools == Scenario({D({Tool("graphifyy", AnyPython)}, {Graphify({"claude-code", "antigravity"})}, {}),
                   D({Tool("graphifyy", "3.12")}, {Graphify(Gemini)}, {}),
                   D({Tool("graphifyy", AnyPython)}, {Graphify({"antigravity-cli"})}, {}),
                   Nothing}, Both)
ClaudeMarkets == Scenario({D({}, {Plugin("claude-code", "p", "m", "repo/m")}, {}),
                           D({}, {Plugin("claude-code", "p", "m", "repo/n"), Plugin("claude-code", "q", "m", "repo/n")}, {}),
                           Nothing}, Both)
Codex == Scenario({D({}, {Plugin("codex", "p", "m", "repo/m"), Plugin("codex", "c", "curated", Curated)}, {}),
                   Aborts(D({}, {Plugin("codex", "p", "m", "repo/m")}, {})),
                   Nothing}, Both)
AgyPluginsOf == Scenario({D({}, {Agy("a", "repo/a")}, {}), D({}, {Agy("a", "repo/a"), Agy("b", "repo/b")}, {}),
                          Nothing}, {"antigravity"})
Skills2 == Scenario({D({}, {Superpowers(Both)}, {}), D({}, {Superpowers({"claude-code"})}, {}), Nothing}, Both)
Skills3 == Scenario({D({}, {Superpowers({"codex"})}, {}), Nothing}, {"claude-code", "codex", "antigravity"})
Mcp == Scenario({D({}, {}, {Server("s", "stdio", "npx s", McpAgents)}),
                 Aborts(D({}, {}, {Server("s", "http", "https://s", {"codex", "antigravity"})})),
                 Nothing}, Both)

Family == Scenario({ForBoth(D({Tool("semgrep", AnyPython)}, {For({"bob"}, Superpowers({"codex"}))},
                              {For({"ann"}, Server("s", "stdio", "npx s", {"codex"}))})),
                    D({Tool("semgrep", AnyPython)}, {Superpowers({"codex"})}, {})}, {"codex"})

MCScenarios == {Tools, ClaudeMarkets, Codex, AgyPluginsOf, Skills2, Skills3, Mcp, Family}
=============================================================================
