------------------------------ MODULE UvTools ------------------------------
(***************************************************************************)
(* Python programs installed per user with `uv tool'                       *)
(* (lib/actions/uv_tools_action.py), and what it shares with the other two *)
(* domains that run somebody else's installer in a user's home: the items, *)
(* the users of a block, the plan and the manifest.                        *)
(* A tool is named by its distribution; what else a declaration says is    *)
(* the interpreter, AnyPython when it says nothing.                              *)
(***************************************************************************)
EXTENDS Naturals, Sequences, FiniteSets, SequencesExt, FiniteSetsExt, SetMath

CONSTANTS Users,            \* the declared accounts that are not root, in order
          AnyPython,        \* no interpreter declared
          DefaultPython     \* what /usr/bin/python3 of the target is

VARIABLE venvs              \* user -> tool -> the interpreter it was built with

-----------------------------------------------------------------------------
(* Shared by the three domains *)

\* <user>:<agent>:<kind>:<name>, or <name>@<market> for a plugin.
PluginItem(user, agent, name, market) ==
    [user |-> user, agent |-> agent, kind |-> "plugin", name |-> name, market |-> market]
Item(user, agent, kind, name) ==
    [user |-> user, agent |-> agent, kind |-> kind, name |-> name, market |-> ""]

\* `_users': the block's own list, else every declared user that is not root.
BlockUsers(block) == IF block.users = {} THEN Range(Users) ELSE block.users

EmptyBlock == [users |-> {}, entries |-> {}, policy |-> "warn-and-continue"]

\* An entry may narrow the block's users, never widen them.
EntryUsers(block, entry) ==
    IF entry.users = {} THEN BlockUsers(block) ELSE BlockUsers(block) \cap entry.users

\* A block's sets in the order the code iterates: by name.
FirstUser(users) == SelectSeq(Users, LAMBDA user : user \in users)[1]

PlanItems(desired, owned, actual, drifted) ==
    LET changes == ComputeChanges(desired, owned, actual, {})
    IN [add |-> changes.add, modify |-> drifted, drop |-> changes.drop]

Changes(op, items) == [i \in 1 .. Cardinality(items) |-> [op |-> op, item |-> SetToSeq(items)[i]]]

\* Mutant: what could not be installed is claimed all the same.
ClaimsFailures(desired, failedItems) == desired

\* `managed_keys': the declared items, minus what an installer could not do.
ManagedItems(desired, failedItems) == desired \ failedItems

Command(verb, item, arg) == [verb |-> verb, item |-> item, arg |-> arg]

-----------------------------------------------------------------------------
(* Desired and actual *)

ToolItem(user, name) == Item(user, "uv", "tool", name)

DesiredTools(block) == {ToolItem(user, e.name) : user \in BlockUsers(block), e \in block.entries}
Pin(block, item) == (CHOOSE e \in block.entries : e.name = item.name).python

HasTool(item) == item.name \in DOMAIN venvs[item.user]
ActualTools(block) ==
    UNION {{ToolItem(user, name) : name \in DOMAIN venvs[user]} : user \in BlockUsers(block)}

\* A tool built on another interpreter than the declared one.
PinDrifts(block) ==
    {item \in DesiredTools(block) \cap ActualTools(block) :
        Pin(block, item) # AnyPython /\ venvs[item.user][item.name] # Pin(block, item)}

PlanTools(block, owned) ==
    PlanItems(DesiredTools(block), owned, ActualTools(block), PinDrifts(block))

\* The installs and the removals, then the pins.
ToolChanges(plan) ==
    Changes("create", plan.add) \o Changes("delete", plan.drop) \o Changes("modify", plan.modify)

ToolCommands(block, change) ==
    IF change.op = "delete" THEN <<Command("uv uninstall", change.item, AnyPython)>>
    ELSE <<Command(IF change.op = "modify" /\ Pin(block, change.item) # AnyPython
                   THEN "uv install --force" ELSE "uv install",
                   change.item, Pin(block, change.item))>>

-----------------------------------------------------------------------------
(* uv itself *)

Built(python) == IF python = AnyPython THEN DefaultPython ELSE python
WithTool(item, python) ==
    [venvs EXCEPT ![item.user] =
        [name \in DOMAIN @ \cup {item.name} |-> IF name = item.name THEN Built(python) ELSE @[name]]]

\* An environment that is there already is left alone unless it is forced.
UvInstall(item, python) == venvs' = IF HasTool(item) THEN venvs ELSE WithTool(item, python)
UvForce(item, python) == venvs' = WithTool(item, python)
UvUninstall(item) ==
    HasTool(item) /\ venvs' = [venvs EXCEPT ![item.user] = Restrict(@, DOMAIN @ \ {item.name})]
UvUpgrade(item, python) == venvs' = IF python = AnyPython THEN venvs ELSE WithTool(item, python)

\* `upgrade_steps': what is not there is skipped, and so is an exact pin of the version.
ToolUpgrades(block) ==
    LET items == SetToSeq(DesiredTools(block) \cap ActualTools(block))
    IN [i \in DOMAIN items |->
            [item |-> items[i], after |-> {}, verb |-> "uv upgrade", arg |-> Pin(block, items[i])]]

-----------------------------------------------------------------------------
(* sync *)

\* `_captured': an interpreter that is not the default's is written down.
Captured(block, name, users) ==
    LET built == venvs[FirstUser({u \in users : name \in DOMAIN venvs[u]})][name]
        declared == {e \in block.entries : e.name = name}
    IN IF built # DefaultPython THEN [name |-> name, python |-> built]
       ELSE IF declared # {} THEN CHOOSE e \in declared : TRUE
       ELSE [name |-> name, python |-> AnyPython]

\* One list of users and one of tools.
CaptureTools(block) ==
    LET users == {u \in BlockUsers(block) : DOMAIN venvs[u] # {}}
        names == UNION {DOMAIN venvs[u] : u \in users}
    IN IF names = {} THEN EmptyBlock
       ELSE [block EXCEPT !.users = users, !.entries = {Captured(block, n, users) : n \in names}]
=============================================================================
