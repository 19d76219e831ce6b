------------------------------ MODULE Services ------------------------------
(***************************************************************************)
(* Snapper and the firewall in one apply, with the packages and units      *)
(* their blocks bring (lib/expand/toggles.py).  Both actions run before    *)
(* Packages, which installs what they need and takes away what they no     *)
(* longer need, and Systemd, which enables a unit without starting it.     *)
(* The plan is made before the first step; a step that fails ends the      *)
(* apply with a partial manifest, and the process may die between any two. *)
(***************************************************************************)
EXTENDS Firewall, Snapper

CONSTANTS Scenarios,        \* a machine, and the documents its owner writes
          MaxCuts,          \* how often the process may die or a step fail
          MaxApplies, MaxHands

(* A rule is told from a zone by its shape (_looks_like_ufw_items).        *)
ASSUME RuleAssumption == "allow 9/tcp" \in UfwRules /\ {"public", "theirs"} \cap UfwRules = {}

(* Documents and machines are finite, and a config is for one of the       *)
(* subvolumes.                                                             *)
DocumentOK(d) ==
    /\ d.firewall.enable \in BOOLEAN /\ d.firewall.backend \in {"ufw", "firewalld"}
    /\ IsFiniteSet(ManagedFirewall(d.firewall))
    /\ IsFiniteSet(DOMAIN d.snapper) /\ Range(d.snapper) \subseteq Subvolumes

ASSUME ScenarioAssumption ==
    \A s \in Scenarios :
        /\ IsFiniteSet(s.owned) /\ IsFiniteSet(s.rules) /\ IsFiniteSet(DOMAIN s.zones)
        /\ \A d \in s.docs : DocumentOK(d)

VARIABLES
    docs, doc,              \* the documents, and the one in force
    units,                  \* the units that are enabled
    ownedPackages, ownedUnits,
    backend,                \* what this apply decided when it planned
    todo, pc,
    settled,                \* the last apply ended well, nothing happened since
    everOwned,              \* the rules and zones a manifest named and that stayed since
    interrupted,            \* an apply did not end well since the last boot
    createCut,              \* a config was made and the mount not put back
    cuts, applies, hands

counters == <<cuts, applies, hands>>
ghosts == <<everOwned, interrupted, createCut>>
systemVars == <<units, ownedPackages, ownedUnits>>
vars == <<firewallVars, snapperVars, systemVars, docs, doc, backend, todo, pc, settled, ghosts, counters>>

-----------------------------------------------------------------------------
(* What the blocks bring, and the plan *)

\* expand_snapper, expand_firewall: one firewall, never both.
WantedUnits(d) == IF d.firewall.enable THEN {d.firewall.backend} ELSE {}
WantedPackages(d) == WantedUnits(d) \cup (IF d.snapper = <<>> THEN {} ELSE {"snapper"})

PlanOwned(wanted, owned, actual) == [add |-> wanted \ actual, drop |-> owned \ wanted]

Planned(d) ==
    [snapper  |-> PlanSnapper(d.snapper),
     firewall |-> PlanFirewall(d.firewall),
     packages |-> PlanOwned(WantedPackages(d), ownedPackages, installed),
     units    |-> PlanOwned(WantedUnits(d), ownedUnits, units)]

Empty(part) == part.add = {} /\ part.drop = {}
Nothing(p) == \A domain \in DOMAIN p : Empty(p[domain])

-----------------------------------------------------------------------------
(* The steps of an apply *)

Step(action, do, arg) == [action |-> action, do |-> do, arg |-> arg]
When(condition, steps) == IF condition THEN steps ELSE <<>>
DoEach(action, do, args) ==
    [i \in 1 .. Cardinality(args) |-> Step(action, do, SetToSeq(args)[i])]

FirewallSteps(p) ==
    IF p.backend = "ufw"
    THEN When(p.add # {}, <<Step("firewall", "install-ufw", "")>>)
           \o DoEach("firewall", "allow", p.add) \o DoEach("firewall", "delete", p.drop)
           \o When(p.add # {}, <<Step("firewall", "ufw-enable", "")>>)
    ELSE DoEach("firewall", "write-zone", p.add) \o DoEach("firewall", "remove-zone", p.drop)
           \o When(~Empty(p), <<Step("firewall", "reload", "")>>)

StepsOf(p) ==
    When(~Empty(p.snapper), <<Step("snapper", "install-snapper", "")>>)
        \o DoEach("snapper", "create", p.snapper.add) \o DoEach("snapper", "remove", p.snapper.drop)
        \o FirewallSteps(p.firewall)
        \o When(~Empty(p.packages), <<Step("packages", "packages", "")>>)
        \o When(~Empty(p.units), <<Step("units", "units", "")>>)

Completed(action) == CASE action = "snapper" -> {} [] action = "firewall" -> {"snapper"}
                       [] action = "packages" -> {"snapper", "firewall"}
                       [] action = "units" -> {"snapper", "firewall", "packages"}

\* An action whose block is gone and that owns nothing takes no part.
FirewallTakesPart == doc.firewall.present \/ ownedFirewall # {}

StillThere(items) == {item \in items : item \in userRules \cup CustomisedZones}

\* _build_new_manifest; an action that did not complete keeps what it had.
Record(done, partial) ==
    /\ ownedSnapper' = IF "snapper" \in done THEN DOMAIN doc.snapper ELSE ownedSnapper
    /\ ownedFirewall' = IF "firewall" \in done THEN ManagedFirewall(doc.firewall) ELSE ownedFirewall
    /\ recorded' = CASE "firewall" \in done /\ FirewallTakesPart -> backend
                     [] "firewall" \in done /\ ~FirewallTakesPart -> IF partial THEN recorded ELSE "none"
                     [] "firewall" \notin done -> recorded
    /\ ownedPackages' = IF "packages" \in done THEN WantedPackages(doc) ELSE ownedPackages
    /\ ownedUnits' = IF "units" \in done THEN WantedUnits(doc) ELSE ownedUnits
    /\ everOwned' = StillThere(everOwned \cup ownedFirewall')

StartApply ==
    /\ pc = "idle" /\ applies < MaxApplies /\ ~Nothing(Planned(doc))
    /\ pc' = "running" /\ applies' = applies + 1 /\ settled' = FALSE
    /\ todo' = StepsOf(Planned(doc)) /\ backend' = Planned(doc).firewall.backend
    /\ pending' = FALSE
    /\ UNCHANGED <<installed, firewallDisk, refused, ownedFirewall, recorded, snapperVars, systemVars,
                   docs, doc, ghosts, cuts, hands>>

\* The manifest is saved, then the reload that failed is tried again.
Finish ==
    /\ pc = "running" /\ todo = <<>>
    /\ Record({"snapper", "firewall", "packages", "units"}, FALSE)
    /\ RetryReload
    /\ pc' = "idle" /\ settled' = TRUE /\ pending' = FALSE
    /\ UNCHANGED <<installed, zones, daemon, userRules, ufwOn, snapperDisk, units,
                   docs, doc, backend, todo, interrupted, createCut, counters>>

Now(do) == pc = "running" /\ todo # <<>> /\ Head(todo).do = do
Proceed == todo' = Tail(todo)

InsideCreate ==
    LET step == Head(todo)
    IN /\ step.do \in {"rmdir", "create-config", "delete-nested", "mkdir", "mount"}
       /\ step.subvolume \in OwnSnapshots \ ownMounted

Stop ==
    /\ pc' = "idle" /\ todo' = <<>> /\ interrupted' = TRUE
    /\ createCut' = (createCut \/ InsideCreate)
    /\ UNCHANGED <<installed, firewallDisk, pending, refused, snapperDisk, units, docs, doc,
                   backend, settled, applies, hands>>

MayFail == {"install-snapper", "create-config", "delete-snapshot", "rmtree", "delete-container",
            "install-ufw", "allow", "delete", "ufw-enable", "packages"}

\* A config in the way, or a file that does not say which subvolume.
MustFail ==
    \/ Head(todo).do = "create-config" /\ Refuses(Head(todo).arg, Head(todo).subvolume)
    \/ Head(todo).do = "remove" /\ ReadSubvolume(Head(todo).arg) = Unreadable

Fail ==
    /\ pc = "running" /\ todo # <<>>
    /\ IF MustFail THEN UNCHANGED cuts
       ELSE Head(todo).do \in MayFail /\ cuts < MaxCuts /\ cuts' = cuts + 1
    /\ Record(Completed(Head(todo).action), TRUE) /\ Stop

Die ==
    /\ pc = "running" /\ todo # <<>> /\ cuts < MaxCuts /\ cuts' = cuts + 1
    /\ Stop
    /\ UNCHANGED <<ownedFirewall, recorded, ownedSnapper, ownedPackages, ownedUnits, everOwned>>

-----------------------------------------------------------------------------
(* Each step, on the machine it finds *)

Same == UNCHANGED <<docs, doc, backend, pc, settled, ghosts, counters, systemVars,
                    ownedFirewall, recorded, ownedSnapper>>
SnapperOnly == Same /\ UNCHANGED <<installed, firewallDisk, pending, refused>>
FirewallOnly == Same /\ UNCHANGED snapperDisk

InstallSnapper ==
    /\ Now("install-snapper") /\ Proceed /\ installed' = installed \cup {"snapper"}
    /\ Same /\ UNCHANGED <<firewallDisk, pending, refused, snapperDisk>>

Create ==
    /\ Now("create") /\ SnapperOnly /\ UNCHANGED snapperDisk
    /\ todo' = CreateSteps(Head(todo).arg, doc.snapper[Head(todo).arg]) \o Tail(todo)

RemoveUndeclared ==
    /\ Now("remove") /\ SnapperOnly /\ UNCHANGED snapperDisk
    /\ ReadSubvolume(Head(todo).arg) # Unreadable
    /\ todo' = DeleteSteps(Head(todo).arg, ReadSubvolume(Head(todo).arg)) \o Tail(todo)

SnapperCommand ==
    /\ pc = "running" /\ todo # <<>> /\ Proceed /\ SnapperOnly
    /\ LET step == Head(todo)
       IN \/ step.do = "umount" /\ Umount(step.subvolume)
          \/ step.do = "rmdir" /\ Rmdir(step.subvolume)
          \/ step.do = "create-config" /\ CreateConfig(step.arg, step.subvolume)
          \/ step.do = "delete-nested" /\ DeleteNested(step.subvolume)
          \/ step.do = "mkdir" /\ Mkdir(step.subvolume)
          \/ step.do = "mount" /\ Mount(step.subvolume)
          \/ step.do = "delete-snapshot" /\ DeleteSnapshot(step.subvolume, step.number)
          \/ step.do = "rmtree" /\ Rmtree(step.subvolume, step.number)
          \/ step.do = "delete-container" /\ DeleteContainer(step.subvolume)
          \/ step.do = "remove-config" /\ RemoveConfig(step.arg)
          \/ step.do = "unlist" /\ Unlist(step.arg)

Zone ==
    /\ pc = "running" /\ todo # <<>> /\ Proceed /\ FirewallOnly
    /\ \/ Now("write-zone") /\ WriteZone(doc.firewall, Head(todo).arg)
       \/ Now("remove-zone") /\ RemoveZone(Head(todo).arg)
    /\ UNCHANGED <<installed, runtime, daemon, userRules, ufwOn, pending, refused>>

Reload ==
    /\ Now("reload") /\ Proceed /\ FirewallOnly /\ ReloadFirewalld
    /\ UNCHANGED <<installed, zones, daemon, userRules, ufwOn>>

Ufw ==
    /\ pc = "running" /\ todo # <<>> /\ Proceed /\ FirewallOnly
    /\ \/ Now("install-ufw") /\ InstallUfw /\ UNCHANGED <<userRules, ufwOn>>
       \/ Now("allow") /\ SetUfwRule(Head(todo).arg, FALSE) /\ UNCHANGED <<installed, ufwOn>>
       \/ Now("delete") /\ SetUfwRule(Head(todo).arg, TRUE) /\ UNCHANGED <<installed, ufwOn>>
       \/ Now("ufw-enable") /\ UfwEnable /\ UNCHANGED <<installed, userRules>>
    /\ UNCHANGED <<zones, runtime, daemon, pending, refused>>

\* pacman -S, then -Rns: what ufw keeps may go with it; a daemon stays up.
Packages ==
    /\ Now("packages") /\ Proceed /\ UNCHANGED snapperDisk /\ Same
    /\ installed' = (installed \cup WantedPackages(doc)) \ (ownedPackages \ WantedPackages(doc))
    /\ userRules' \in {userRules} \cup (IF "ufw" \in installed \ installed' THEN {{}} ELSE {})
    /\ UNCHANGED <<zones, runtime, daemon, ufwOn, pending, refused>>

Units ==
    /\ Now("units") /\ Proceed
    /\ units' = (units \cup WantedUnits(doc)) \ (ownedUnits \ WantedUnits(doc))
    /\ UNCHANGED <<firewallVars, snapperVars, ownedPackages, ownedUnits, docs, doc, backend, pc,
                   settled, ghosts, counters>>

-----------------------------------------------------------------------------
(* The owner and the machine, between applies *)

Idle == pc = "idle" /\ UNCHANGED <<backend, todo, pc, pending, docs, cuts, applies>>
ManifestStays == UNCHANGED <<ownedFirewall, recorded, ownedSnapper, ownedPackages, ownedUnits, everOwned>>

EditDoc ==
    /\ Idle /\ doc' \in docs \ {doc} /\ settled' = FALSE /\ ManifestStays
    /\ UNCHANGED <<refused, installed, firewallDisk, snapperDisk, units, interrupted, createCut, hands>>

OwnedAfterSync(owned, declared, actual) == actual \cap (owned \cup declared)

\* sync: the blocks captured, and what dasik owns as far as it is there.
Sync ==
    /\ Idle /\ settled' = FALSE /\ hands < MaxHands /\ hands' = hands + 1
    /\ \E answers \in {FALSE, "firewalld" \in installed} :
        doc' = [firewall |-> ImportFirewall(doc.firewall, answers),
                snapper  |-> IF ReadableConfigs = <<>> THEN doc.snapper ELSE ReadableConfigs]
    /\ ownedFirewall' = OwnedAfterSync(ownedFirewall, ManagedFirewall(doc.firewall), ActualFirewall(doc.firewall))
    /\ ownedSnapper' = OwnedAfterSync(ownedSnapper, DOMAIN doc.snapper, DOMAIN configs)
    /\ ownedPackages' = OwnedAfterSync(ownedPackages, WantedPackages(doc), installed)
    /\ ownedUnits' = OwnedAfterSync(ownedUnits, WantedUnits(doc), units)
    /\ everOwned' = StillThere(everOwned \cup ownedFirewall')
    /\ UNCHANGED <<installed, firewallDisk, refused, recorded, snapperDisk, units, interrupted, createCut>>

\* Somebody else's zone or rule, a package taken away, a file cut off.
Hand ==
    /\ Idle /\ settled' = FALSE /\ hands < MaxHands /\ hands' = hands + 1 /\ ManifestStays
    /\ UNCHANGED <<doc, refused, units, interrupted, createCut, daemon>>
    /\ \/ /\ "theirs" \notin DOMAIN zones /\ "firewalld" \in installed
          /\ zones' = [z \in DOMAIN zones \cup {"theirs"} |-> IF z = "theirs" THEN {"ssh"} ELSE zones[z]]
          /\ runtime' = IF daemon THEN [z \in DOMAIN runtime \cup {"theirs"} |->
                                            IF z = "theirs" THEN {"ssh"} ELSE runtime[z]]
                        ELSE runtime
          /\ UNCHANGED <<installed, userRules, ufwOn, snapperDisk>>
       \/ /\ LiveUfwRules # {} /\ userRules' = userRules \cup {"allow 9/tcp"}
          /\ UNCHANGED <<installed, zones, runtime, ufwOn, snapperDisk>>
       \/ /\ "firewalld" \in installed /\ installed' = installed \ {"firewalld"}
          /\ UNCHANGED <<zones, runtime, userRules, ufwOn, snapperDisk>>
       \/ /\ \E name \in DOMAIN configs : configs' = [configs EXCEPT ![name] = Unreadable]
          /\ UNCHANGED <<installed, zones, runtime, userRules, ufwOn, listed, btrfs>>

Snapshot ==
    /\ Idle /\ TakeSnapshot
    /\ UNCHANGED <<installed, firewallDisk, refused, ownedFirewall, recorded, systemVars, doc, settled,
                   ghosts, hands>>

Reboot ==
    /\ Idle /\ MountFstab /\ interrupted' = FALSE /\ refused' = FALSE /\ ManifestStays
    /\ daemon' = ("firewalld" \in units \cap installed)
    /\ runtime' = IF daemon' THEN Enforced ELSE <<>>
    /\ UNCHANGED <<installed, zones, userRules, ufwOn, configs, listed, snapshots, records, units,
                   doc, settled, createCut, hands>>

Init ==
    \E s \in Scenarios :
        /\ docs = s.docs /\ doc \in s.docs
        /\ installed = s.installed /\ units = s.units
        /\ zones = s.zones /\ daemon = ("firewalld" \in s.installed \cap s.units)
        /\ runtime = IF daemon THEN Enforced ELSE <<>>
        /\ userRules = s.rules /\ ufwOn = (s.rules # {})
        /\ ownedFirewall = s.owned /\ recorded = "none"
        /\ ownedPackages = s.installed /\ ownedUnits = s.units
        /\ pending = FALSE /\ refused = FALSE
        /\ configs = <<>> /\ listed = {} /\ ownedSnapper = {}
        /\ snapshots = [v \in Subvolumes |-> [w \in Where |-> {}]] /\ records = snapshots
        /\ under = [v \in Subvolumes |-> IF v \in OwnSnapshots THEN "dir" ELSE "none"]
        /\ ownMounted = OwnSnapshots
        /\ backend = "firewalld" /\ todo = <<>> /\ pc = "idle" /\ settled = FALSE
        /\ everOwned = s.owned /\ interrupted = FALSE /\ createCut = FALSE
        /\ cuts = 0 /\ applies = 0 /\ hands = 0

Next ==
    \/ StartApply \/ Finish \/ Fail \/ Die
    \/ InstallSnapper \/ Create \/ RemoveUndeclared \/ SnapperCommand
    \/ Zone \/ Reload \/ Ufw \/ Packages \/ Units
    \/ EditDoc \/ Sync \/ Hand \/ Snapshot \/ Reboot

Spec == Init /\ [][Next]_vars

-----------------------------------------------------------------------------
(* Properties *)

\* What a document says of a rule or a zone.
Declares(f, item) == f.enable /\ item \in ManagedFirewall(f)
IsLive(item) == IF item \in UfwRules THEN item \in LiveUfwRules ELSE item \in CustomisedZones

(* A rule or a zone dasik has owned does not outlive its declaration: once *)
(* an apply ended well, what is left of them is declared, whatever way the *)
(* block went, with a sync in between, or a manifest of an old dasik that  *)
(* does not say which backend it was.                                      *)
UndeclaredIsClosed ==
    settled => \A item \in everOwned : IsLive(item) => Declares(doc.firewall, item)

(* The documents of a machine are for one firewall, a block that is off    *)
(* too, and the machine starts with nothing of the other one's.            *)
ForUfw(f) == (f.present \/ f.enable => f.backend = "ufw") /\ ManagedFirewall(f) \subseteq UfwRules
ForFirewalld(f) == f.backend = "firewalld" /\ ManagedFirewall(f) \cap UfwRules = {}
ScenariosKeepFirewall ==
    \A s \in Scenarios :
        \/ /\ \A d \in s.docs : ForUfw(d.firewall)
           /\ DOMAIN s.zones = {} /\ "firewalld" \notin s.installed
           /\ s.owned \cup s.rules \subseteq UfwRules
           /\ (s.owned # {} => s.rules # {}) /\ (s.rules # {} => "ufw" \in s.installed)
        \/ /\ \A d \in s.docs : ForFirewalld(d.firewall)
           /\ s.rules = {} /\ (s.owned \cup DOMAIN s.zones) \cap UfwRules = {}

(* After an apply that ended well the running daemon enforces what its     *)
(* files say, also where the reload found no firewall-cmd because the same *)
(* apply was to bring it back - unless firewalld refused, or an earlier    *)
(* apply died between its files and its reload.                            *)
DaemonEnforcesFiles ==
    settled /\ daemon /\ ~refused /\ ~interrupted => runtime = Enforced

(* Snapshots in sight are in sight of snapper: the config that owns them   *)
(* is still registered, also when the removal was interrupted.  An         *)
(* interrupted create leaves snapshots on the wrong side of a mount.       *)
NoOrphanedSnapshots ==
    pc = "idle" /\ ~createCut =>
        \A v \in Subvolumes : snapshots[v][Side(v)] # {} /\ Exists(v) =>
            \E name \in DOMAIN configs : configs[name] \in {v, Unreadable}

(* The documents of a machine agree on which config is for which subvolume. *)
ScenariosAgree ==
    \A s \in Scenarios : \A d, e \in s.docs :
        \A n \in DOMAIN d.snapper, m \in DOMAIN e.snapper :
            d.snapper[n] = e.snapper[m] <=> n = m

(* No step of an apply deletes a snapshot of a subvolume the document      *)
(* still wants snapshots of.                                               *)
DeclaredSnapshotsStay ==
    [][\A v \in Subvolumes, w \in Where :
            ~(snapshots[v][w] \subseteq snapshots'[v][w]) => v \notin Range(doc.snapper)]_vars
=============================================================================
