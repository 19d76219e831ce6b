------------------------------ MODULE Firewall ------------------------------
(***************************************************************************)
(* The firewall of a machine (lib/actions/firewall_action.py): firewalld's *)
(* zone files and the daemon that read them at some time, or the rules ufw *)
(* keeps.  One backend at a time is planned for; which one is decided when *)
(* the plan is made and the apply keeps to it.                             *)
(*                                                                         *)
(* What a zone allows, services and rich rules alike, is a set of names;   *)
(* the order of the lines does not count.                                  *)
(***************************************************************************)
EXTENDS FiniteSets, Functions

CONSTANT UfwRules       \* the rules a document can write for ufw: "allow 22/tcp"

VARIABLES
    installed,          \* the packages of the two services on the machine
    zones,              \* zone -> what its file in /etc/firewalld/zones says
    runtime,            \* zone -> what the running daemon enforces
    daemon,             \* is firewalld running
    userRules, ufwOn,   \* the rules ufw keeps, and whether it enforces them
    ownedFirewall,      \* the manifest: the rules or zones dasik owns
    recorded,           \* the manifest's action_state: the backend, or "none"
    pending,            \* this apply could not reload, and will try once more
    refused             \* the last reload that was tried failed

firewallDisk == <<zones, runtime, daemon, userRules, ufwOn>>
firewallVars == <<installed, firewallDisk, ownedFirewall, recorded, pending, refused>>

-----------------------------------------------------------------------------
(* What a block asks for.  A block that is gone is Absent, whose backend   *)
(* is the default.                                                         *)

Absent == [present |-> FALSE, enable |-> FALSE, backend |-> "firewalld",
           allowed |-> {}, removed |-> {}, zones |-> <<>>, rules |-> {}]

DefaultServices == {"dhcpv6-client", "ssh"}

\* An extra zone's list is the whole list; public's is a difference.
DesiredXml(f, zone) ==
    IF zone = "public" THEN (DefaultServices \ f.removed) \cup f.allowed ELSE f.zones[zone]

DeclaredZones(f) == {"public"} \cup DOMAIN f.zones

\* _desired_ufw_rules; `allowed' holds rules here, one per profile.
DesiredUfwRules(f) == f.rules \cup f.allowed

\* managed_keys
ManagedFirewall(f) ==
    CASE ~f.enable -> {}
      [] f.enable /\ f.backend = "ufw" -> DesiredUfwRules(f)
      [] f.enable /\ f.backend = "firewalld" -> DeclaredZones(f)

-----------------------------------------------------------------------------
(* What the machine says *)

\* A ufw that is missing or off shows no rules.
LiveUfwRules == IF "ufw" \in installed /\ ufwOn THEN userRules ELSE {}

CustomisedZones == DOMAIN zones

LooksLikeUfwItems(items) == items # {} /\ items \subseteq UfwRules

\* Mutant: a block that is gone is taken at its default.
DeclaredBackend(f, items) == f.backend

\* _resolved_backend: what a disabled block says of its backend is worth
\* something only when it says ufw.
ResolvedBackend(f, items) ==
    CASE f.enable \/ f.backend = "ufw" -> f.backend
      [] ~(f.enable \/ f.backend = "ufw") /\ recorded # "none" -> recorded
      [] ~(f.enable \/ f.backend = "ufw") /\ recorded = "none" ->
            IF LooksLikeUfwItems(items) THEN "ufw" ELSE "firewalld"

\* actual(), for sync: without a word on the backend, both.
ActualFirewall(f) ==
    LET backend == IF f.enable \/ f.backend = "ufw" THEN f.backend ELSE recorded
    IN (IF backend # "firewalld" THEN LiveUfwRules ELSE {})
         \cup (IF backend # "ufw" THEN CustomisedZones ELSE {})

SameZone(f, zone) == zone \in DOMAIN zones /\ zones[zone] = DesiredXml(f, zone)

-----------------------------------------------------------------------------
(* Plan: INSTALL or MODIFY in `add', REMOVE in `drop' *)

PlanUfw(f, managed) ==
    LET desired == IF f.enable THEN DesiredUfwRules(f) ELSE {}
    IN [backend |-> "ufw", add |-> desired \ LiveUfwRules,
        drop |-> (managed \ desired) \cap LiveUfwRules]

PlanFirewalldDisabled(managed) ==
    [backend |-> "firewalld", add |-> {}, drop |-> managed \cap CustomisedZones]

PlanFirewall(f) ==
    CASE ResolvedBackend(f, ownedFirewall) = "ufw" -> PlanUfw(f, ownedFirewall)
      [] ResolvedBackend(f, ownedFirewall) = "firewalld" /\ ~f.enable ->
            PlanFirewalldDisabled(ownedFirewall)
      [] ResolvedBackend(f, ownedFirewall) = "firewalld" /\ f.enable ->
            [backend |-> "firewalld", add |-> {z \in DeclaredZones(f) : ~SameZone(f, z)},
             drop |-> (ownedFirewall \ DeclaredZones(f)) \cap CustomisedZones]

-----------------------------------------------------------------------------
(* The steps of an apply *)

WriteZone(f, zone) ==
    zones' = [z \in DOMAIN zones \cup {zone} |->
                IF z = zone THEN DesiredXml(f, zone) ELSE zones[z]]

RemoveZone(zone) == zones' = Restrict(zones, DOMAIN zones \ {zone})

\* What firewalld makes of its files: public is there without one.
Enforced == [z \in DOMAIN zones \cup {"public"} |->
                IF z \in DOMAIN zones THEN zones[z] ELSE DefaultServices]

\* The package is gone, and the process it started is still there.
BinaryMissing == daemon /\ "firewalld" \notin installed

\* _reload_firewalld, after the zone files of an apply.
ReloadFirewalld ==
    \/ ~daemon /\ UNCHANGED <<pending, refused, runtime>>
    \/ BinaryMissing /\ pending' = TRUE /\ UNCHANGED <<refused, runtime>>
    \/ /\ daemon /\ ~BinaryMissing /\ UNCHANGED pending
       /\ \/ runtime' = Enforced /\ refused' = FALSE
          \/ refused' = TRUE /\ UNCHANGED runtime

\* Mutant: nobody tries again.
NoRetry == UNCHANGED <<refused, runtime>>

\* finalize_apply: a restart, of a daemon that runs.
RetryReload ==
    \/ (~pending \/ ~daemon) /\ UNCHANGED <<refused, runtime>>
    \/ pending /\ daemon /\ ~BinaryMissing /\ runtime' = Enforced /\ refused' = FALSE
    \/ pending /\ daemon /\ refused' = TRUE /\ UNCHANGED runtime

InstallUfw == installed' = installed \cup {"ufw"}

SetUfwRule(rule, delete) ==
    userRules' = IF delete THEN userRules \ {rule} ELSE userRules \cup {rule}

UfwEnable == ufwOn' = TRUE

-----------------------------------------------------------------------------
(* Sync *)

\* _import_firewalld, from what the files say.
ImportFirewalld ==
    LET public == IF "public" \in DOMAIN zones THEN zones["public"] ELSE DefaultServices
    IN [Absent EXCEPT !.present = TRUE, !.enable = TRUE, !.allowed = public \ DefaultServices,
                      !.removed = DefaultServices \ public,
                      !.zones = Restrict(zones, DOMAIN zones \ {"public"})]

\* import_state; `answers': firewall-offline-cmd could be asked.
ImportFirewall(f, answers) ==
    CASE LiveUfwRules # {} ->
            [Absent EXCEPT !.present = TRUE, !.enable = TRUE, !.backend = "ufw", !.rules = LiveUfwRules]
      [] LiveUfwRules = {} /\ answers -> ImportFirewalld
      [] LiveUfwRules = {} /\ ~answers -> f
=============================================================================
