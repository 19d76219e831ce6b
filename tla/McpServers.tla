----------------------------- MODULE McpServers -----------------------------
(***************************************************************************)
(* MCP servers, registered through each agent's own command                *)
(* (lib/actions/mcp_servers_action.py, mcp_servers_state.py).  What a      *)
(* registration says is one value, its transport and the rest of it.       *)
(***************************************************************************)
EXTENDS UvTools

VARIABLE servers            \* user -> agent -> server -> what is registered

McpAgents == {"claude-code", "codex", "antigravity"}

NoSpec == [transport |-> "", value |-> ""]

ServerItem(user, agent, name) == Item(user, agent, "server", name)

-----------------------------------------------------------------------------
(* Desired and actual *)

DesiredServers(block) ==
    UNION {{ServerItem(user, agent, e.name) : user \in EntryUsers(block, e), agent \in e.agents}
              : e \in block.entries}
DeclaredSpec(block, item) ==
    (CHOOSE e \in block.entries :
        e.name = item.name /\ item.agent \in e.agents /\ item.user \in EntryUsers(block, e)).spec

\* A disabled server is reported as absent.
ReadServers(user, agent) ==
    {name \in DOMAIN servers[user][agent] : ~servers[user][agent][name].disabled}

Registered(item) == item.name \in ReadServers(item.user, item.agent)
SpecOf(item) == servers[item.user][item.agent][item.name].spec

ActualServers(block) ==
    UNION {{ServerItem(user, agent, name) : name \in ReadServers(user, agent)}
              : user \in BlockUsers(block), agent \in McpAgents}

\* `_same_registration': the transport, the command and the authentication.
ServerDrifts(block) ==
    {item \in DesiredServers(block) \cap ActualServers(block) :
        SpecOf(item) # DeclaredSpec(block, item)}

PlanServers(block, owned) ==
    PlanItems(DesiredServers(block), owned, ActualServers(block), ServerDrifts(block))
ServerChanges(plan) ==
    Changes("create", plan.add) \o Changes("modify", plan.modify) \o Changes("delete", plan.drop)

\* `agy mcp add' replaces; the others do not rewrite what they have.
ServerCommands(block, change) ==
    LET remove == <<Command("mcp remove", change.item, NoSpec)>>
        add == <<Command("mcp add", change.item, DeclaredSpec(block, change.item))>>
    IN CASE change.op = "create" -> add
         [] change.op = "delete" -> remove
         [] change.op = "modify" -> IF change.item.agent = "antigravity" THEN add ELSE remove \o add

-----------------------------------------------------------------------------
(* The agents' commands *)

Known(item) == item.name \in DOMAIN servers[item.user][item.agent]
Put(item, spec) ==
    servers' = [servers EXCEPT ![item.user][item.agent] =
        [name \in DOMAIN @ \cup {item.name} |->
            IF name = item.name THEN [spec |-> spec, disabled |-> FALSE] ELSE @[name]]]

McpAdd(item, spec) ==
    IF Known(item) /\ item.agent # "antigravity" THEN UNCHANGED servers ELSE Put(item, spec)
McpRemove(item) ==
    /\ Known(item)
    /\ servers' = [servers EXCEPT ![item.user][item.agent] = Restrict(@, DOMAIN @ \ {item.name})]

\* codex writes a web server down and then asks for a login nobody gives: the
\* exit status says nothing, and the registration is read back.
LoginFollows(command) == command.item.agent = "codex" /\ command.arg.transport = "http"
ReadsBack(item, spec) ==
    /\ item.name \in DOMAIN servers'[item.user][item.agent]
    /\ servers'[item.user][item.agent][item.name] = [spec |-> spec, disabled |-> FALSE]

-----------------------------------------------------------------------------
(* sync *)

\* Two users share an entry only when the registration and the agents match.
CaptureServers(block) ==
    LET users == BlockUsers(block)
        all == {i.user : i \in ActualServers(block)}
        Agents(user, name, spec) ==
            {a \in McpAgents : name \in ReadServers(user, a) /\ servers[user][a][name].spec = spec}
        keys == {[name |-> i.name, spec |-> SpecOf(i), agents |-> Agents(i.user, i.name, SpecOf(i))]
                    : i \in ActualServers(block)}
        Owners(key) == {u \in users : Agents(u, key.name, key.spec) = key.agents}
    IN IF keys = {} THEN EmptyBlock
       ELSE [block EXCEPT !.users = all,
                     !.entries = {[name |-> k.name, spec |-> k.spec, agents |-> k.agents,
                                   users |-> IF Owners(k) = all THEN {} ELSE Owners(k)] : k \in keys}]
=============================================================================
