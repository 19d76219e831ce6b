------------------------------- MODULE Blocks -------------------------------
(***************************************************************************)
(* A document with feature blocks, in apply and sync.  The plan and the    *)
(* manifest are made from the expanded document, so that what a block      *)
(* stands for is installed, owned and taken back like what is written by   *)
(* hand; sync captures into the raw one, where some blocks are rebuilt     *)
(* from the machine and what the blocks of the old document contribute is  *)
(* left out of the rest.                                                   *)
(***************************************************************************)
EXTENDS Contributions, TLC, SequencesExt

CONSTANTS Scenarios, MaxCuts, MaxApplies, MaxHands

VARIABLES
    docs, doc, hand,
    packages, files, known,     \* installed, with their files (path -> content) and groups
    enabled,                    \* the links of enabled units
    accounts, subids,           \* login -> groups, and who has an id map
    homes, params,              \* files of homes, parameters of the boot entry
    owned, todo, failed, pc,
    settled,                    \* the last apply ended well, and nothing happened since
    synced,                     \* sync captured a machine that was as declared - with another block, or not
    derived,                    \* what a manifest named and a block alone accounted for
    cuts, applies, hands

machine == <<packages, files, known, enabled, accounts, subids, homes, params>>
counters == <<cuts, applies, hands>>
vars == <<machine, docs, doc, hand, owned, todo, failed, pc, settled, synced, derived, counters>>

-----------------------------------------------------------------------------
(* What the packages of the distribution bring (external) *)

UnitsOf(package) ==
    CASE package = "docker" -> {"docker.service", "docker.socket"}
      [] package = "podman" -> {"podman.socket"}
      [] package = "libvirt" -> {"libvirtd.service", "virtlogd.service"}
      [] package = "networkmanager" -> {"NetworkManager.service"}
      [] package = "reflector" -> {"reflector.timer"}
      [] package = "cpupower" -> {"cpupower.service"}
      [] package = "power-profiles-daemon" -> {"power-profiles-daemon.service"}
      [] package = "apparmor" -> {"apparmor.service"}
      [] package = "audit" -> {"auditd.service"}
      [] package = "wireguard-tools" -> {"wg-quick@"}
      [] package = "config-saver" -> {"config-saver@"}
      [] package = "systemd" -> {"fstrim.timer", "systemd-networkd.service", "systemd-resolved.service"}
      [] OTHER -> {}
GroupsWith(package) == {package} \cap {"docker", "libvirt"}
StockFiles(package) ==
    CASE package = "reflector" -> ReflectorConf :> <<"stock", "worldwide">>
      [] package = "plymouth" -> PlymouthConf :> <<"stock", "none">>
      [] package = "cpupower" -> CpupowerConf :> <<"stock", "none">>
      [] OTHER -> <<>>
PackageFile(path) == \E p \in packages : path \in DOMAIN StockFiles(p)

\* A link to a unit nothing provides is in no listing.
Provided(unit) == \E p \in packages \cup {"systemd"} : unit.name \in UnitsOf(p)
IsEnabled(unit) == unit \in enabled /\ Provided(unit)
ByName(name) == [kind |-> "unit", name |-> name]

-----------------------------------------------------------------------------
(* Declared, actual and planned: an item of the manifest names a file by   *)
(* its path.                                                               *)

FileId(path) == [kind |-> "file", path |-> path]
Account(user) == [kind |-> "user", name |-> user]
IdMap(user) == [kind |-> "subid", name |-> user]
Tunnel(name) == [kind |-> "tunnel", name |-> name]

Ids(items) == {IF i.kind = "file" THEN FileId(i.path) ELSE i : i \in items}

\* _rootless_users: root needs no id map.
RootlessUsers(d) ==
    IF \E c \in d.containers : c.runtime = "podman" /\ c.rootless THEN DOMAIN d.users \ {"root"} ELSE {}
Converted(d) == {t \in d.wireguard : WantsConversion(t)}

Desired(d) ==
    Ids(Expanded(d).base) \cup {Account(user) : user \in DOMAIN d.users}
        \cup {IdMap(user) : user \in RootlessUsers(d)} \cup {Tunnel(t.name) : t \in Converted(d)}
        \cup Parameters(d)

DesiredContent(d, path) ==
    (CHOOSE f \in Kind(Expanded(d).base, "file") : f.path = path).content

\* Mutant: the listing is all there is to know of what is enabled.
ListedUnits(wanted) == {u \in enabled : u.kind = "unit" /\ Provided(u)}

\* The listing does not see the instances of a template: `is-enabled' is
\* asked about each declared unit it does not name.
ActualUnits(wanted) ==
    {u \in enabled : Provided(u) /\ (u.kind = "instance" => u \in wanted)}

Actual(d) ==
    LET wanted == Desired(d)
    IN Packages(packages) \cup ActualUnits(wanted) \cup {IdMap(user) : user \in subids} \cup params
           \cup {Account(user) : user \in DOMAIN accounts} \cup (homes \cap wanted)
           \cup {FileId(path) : path \in {p \in DOMAIN files : FileId(p) \in wanted}}
           \cup {Tunnel(t.name) : t \in {x \in Converted(d) : KeyfilePath(x.name) \in DOMAIN files}}

\* Without nmcli there is nothing to compare a keyfile with: only one that is
\* missing is due.
KeyfileIsDue(t) ==
    \/ KeyfilePath(t.name) \notin DOMAIN files
    \/ "networkmanager" \in packages /\ files[KeyfilePath(t.name)] # <<"keyfile", t.body>>

Plan(d) ==
    LET missing == Desired(d) \ Actual(d)
        present == Desired(d) \cap Actual(d)
    IN [add |-> {i \in missing : i.kind # "tunnel"},
        change |-> {i \in Kind(present, "file") : files[i.path] # DesiredContent(d, i.path)}
                       \cup {i \in Kind(present, "user") : accounts[i.name] # Expanded(d).users[i.name]}
                       \cup {Tunnel(t.name) : t \in {x \in Converted(d) : KeyfileIsDue(x)}},
        drop |-> {i \in owned \ Desired(d) :
                    /\ i.kind # "tunnel" /\ (i.kind = "package" => i.name \in packages)}]
Silent(d) == Plan(d).add \cup Plan(d).change \cup Plan(d).drop = {}

-----------------------------------------------------------------------------
(* apply: the actions in their order, in each the additions first *)

Domains == <<"package", "user", "home", "unit", "file", "subid", "tunnel", "param">>
DomainOf(item) == IF item.kind = "instance" THEN "unit" ELSE item.kind
In(items, domain) == {i \in items : DomainOf(i) = domain}

\* One transaction, one rewritten file or boot entry; and one command for
\* each account, unit or file of its own.
AtOnce == {"package", "subid", "param"}
Steps(domain, op, items) ==
    LET Step(some) == [domain |-> domain, op |-> op, items |-> some]
    IN IF items = {} THEN <<>>
       ELSE IF domain \in AtOnce THEN <<Step(items)>>
       ELSE [n \in 1 .. Cardinality(items) |-> Step({SetToSeq(items)[n]})]

AllSteps(plan) ==
    FlattenSeq([n \in DOMAIN Domains |->
        Steps(Domains[n], "add", In(plan.add, Domains[n]))
            \o Steps(Domains[n], "change", In(plan.change, Domains[n]))
            \o Steps(Domains[n], "drop", In(plan.drop, Domains[n]))])

StartApply ==
    /\ pc = "idle" /\ applies < MaxApplies /\ Accepted(doc) /\ ~Silent(doc)
    /\ pc' = "apply" /\ applies' = applies + 1 /\ todo' = AllSteps(Plan(doc)) /\ failed' = ""
    /\ settled' = FALSE /\ synced' = "no"
    /\ UNCHANGED <<machine, docs, doc, hand, owned, derived, cuts, hands>>

Step == Head(todo)
Item == CHOOSE i \in Step.items : TRUE
Names(items) == {i.name : i \in items}
Adding == Step.op # "drop"

\* A unit nobody ships, a group nobody made, a converter that is not there.
CannotRun ==
    CASE Step.domain = "unit" -> Adding /\ ~Provided(Item)
      [] Step.domain = "user" -> Adding /\ ~(Expanded(doc).users[Item.name] \subseteq known)
      [] Step.domain = "home" -> Adding /\ Item.user \notin DOMAIN accounts
      [] Step.domain = "tunnel" -> "networkmanager" \notin packages
      [] OTHER -> FALSE

Transaction ==
    /\ Step.domain = "package" /\ UNCHANGED <<enabled, accounts, subids, homes, params>>
    /\ IF Adding
       THEN /\ packages' = packages \cup Names(Step.items)
            /\ files' = FoldSet(LAMBDA p, f : f @@ StockFiles(p), files, Names(Step.items))
            /\ known' = known \cup UNION {GroupsWith(p) : p \in Names(Step.items)}
       ELSE /\ packages' = packages \ Names(Step.items)
            /\ files' = [path \in {x \in DOMAIN files :
                            \A p \in Names(Step.items) : x \notin DOMAIN StockFiles(p)} |-> files[path]]
            /\ UNCHANGED known

\* `-G' is the exact set of groups; useradd reserves an id map, userdel gives it back.
Login ==
    /\ Step.domain = "user" /\ UNCHANGED <<packages, files, known, enabled, homes, params>>
    /\ IF Adding
       THEN /\ accounts' = Item.name :> Expanded(doc).users[Item.name] @@ accounts
            /\ subids' = IF Step.op = "add" THEN subids \cup {Item.name} ELSE subids
       ELSE /\ accounts' = [user \in DOMAIN accounts \ {Item.name} |-> accounts[user]]
            /\ subids' = subids \ {Item.name}

HomeEntry ==
    /\ Step.domain = "home" /\ UNCHANGED <<packages, files, known, enabled, accounts, subids, params>>
    /\ homes' = IF Adding THEN homes \cup Step.items ELSE homes \ Step.items

Systemctl ==
    /\ Step.domain = "unit" /\ UNCHANGED <<packages, files, known, accounts, subids, homes, params>>
    /\ enabled' = IF Adding THEN enabled \cup Step.items ELSE enabled \ Step.items

\* A file of a package is left in place.
EtcFile ==
    /\ Step.domain = "file" /\ UNCHANGED <<packages, known, enabled, accounts, subids, homes, params>>
    /\ files' = IF Adding THEN Item.path :> DesiredContent(doc, Item.path) @@ files
                ELSE IF PackageFile(Item.path) THEN files
                ELSE [path \in DOMAIN files \ {Item.path} |-> files[path]]

IdMaps ==
    /\ Step.domain = "subid" /\ UNCHANGED <<packages, files, known, enabled, accounts, homes, params>>
    /\ subids' = IF Adding THEN subids \cup Names(Step.items) ELSE subids \ Names(Step.items)

\* `nmcli --offline' writes the keyfile.
Convert ==
    /\ Step.domain = "tunnel" /\ UNCHANGED <<packages, known, enabled, accounts, subids, homes, params>>
    /\ \E t \in Converted(doc) :
        /\ t.name = Item.name
        /\ files' = KeyfilePath(t.name) :> <<"keyfile", t.body>> @@ files

BootEntry ==
    /\ Step.domain = "param" /\ UNCHANGED <<packages, files, known, enabled, accounts, subids, homes>>
    /\ params' = IF Adding THEN params \cup Step.items ELSE params \ Step.items

Running == pc = "apply" /\ todo # <<>> /\ failed \in {"", Step.domain}
           /\ UNCHANGED <<docs, doc, hand, settled, synced, applies, hands>>

RunStep ==
    /\ Running /\ ~CannotRun /\ todo' = Tail(todo) /\ UNCHANGED <<failed, pc, owned, derived, cuts>>
    /\ \/ Transaction \/ Login \/ HomeEntry \/ Systemctl \/ EtcFile \/ IdMaps \/ Convert \/ BootEntry

\* _build_new_manifest: what completed owns what it declares, the rest keeps what it had.
Record(done) ==
    LET names == UNION {IF domain \in done THEN In(Desired(doc), domain) ELSE In(owned, domain)
                            : domain \in Range(Domains)}
    IN /\ owned' = names
       /\ derived' = derived \cup {i \in names \cap Desired(doc) : i.kind # "user" /\ i \notin Ids(doc.base)}

Before(domain) == {Domains[n] : n \in 1 .. (SelectInSeq(Domains, LAMBDA x : x = domain) - 1)}
Stop == pc' = "idle" /\ todo' = <<>> /\ failed' = ""

\* Every account and every unit is attempted, and the failures raised
\* together; anything else ends the apply where it is.
StepFails ==
    /\ Running /\ UNCHANGED machine
    /\ IF CannotRun THEN UNCHANGED cuts ELSE cuts < MaxCuts /\ cuts' = cuts + 1
    /\ IF Step.domain \in {"user", "unit"}
       THEN failed' = Step.domain /\ todo' = Tail(todo) /\ UNCHANGED <<pc, owned, derived>>
       ELSE Stop /\ Record(Before(Step.domain))

Raise ==
    /\ pc = "apply" /\ failed # "" /\ (todo # <<>> => Step.domain # failed)
    /\ Stop /\ Record(Before(failed))
    /\ UNCHANGED <<machine, docs, doc, hand, settled, synced, counters>>

Die ==
    /\ pc = "apply" /\ cuts < MaxCuts /\ cuts' = cuts + 1
    /\ Stop
    /\ UNCHANGED <<machine, docs, doc, hand, owned, settled, synced, derived, applies, hands>>

Finish ==
    /\ pc = "apply" /\ failed = "" /\ todo = <<>>
    /\ Stop /\ Record(Range(Domains)) /\ settled' = TRUE
    /\ UNCHANGED <<machine, docs, doc, hand, synced, counters>>

-----------------------------------------------------------------------------
(* sync: the blocks that are rebuilt from the machine *)

Kept(found, declared) == IF found # {} THEN found ELSE declared

\* Whichever of the two the machine starts, NetworkManager first.
CaptureNetwork(d) ==
    IF IsEnabled(ByName("NetworkManager.service")) THEN {"NetworkManager"}
    ELSE IF IsEnabled(ByName("systemd-networkd.service")) THEN {"systemd-networkd"}
    ELSE d.network

\* The runtime whose binary is there, docker first.
CaptureContainers(d) ==
    LET runtime == IF "docker" \in packages THEN {"docker"} ELSE {"podman"} \cap packages
        Podman == [runtime |-> "podman", compose |-> "podman-compose" \in packages,
                   compat |-> "podman-docker" \in packages, api |-> IsEnabled(ByName("podman.socket")),
                   rootless |-> subids # {}, daemon |-> "none"]
        Docker == [runtime |-> "docker", compose |-> "docker-compose" \in packages, compat |-> FALSE,
                   api |-> IsEnabled(ByName("docker.socket")), rootless |-> TRUE,
                   daemon |-> IF <<"docker", "daemon.json">> \in DOMAIN files
                              THEN files[<<"docker", "daemon.json">>][2] ELSE "none"]
    IN Kept({IF r = "docker" THEN Docker ELSE Podman : r \in runtime}, d.containers)

Said(path) == IF path \in DOMAIN files THEN files[path][2] ELSE "none"

\* A policy to describe is a driver's parameter or a governor.
CaptureCpu(d) ==
    LET drivers == {p.name : p \in params} \cap {"amd_pstate", "intel_pstate"}
        driver == IF drivers = {} THEN "none" ELSE CHOOSE x \in drivers : TRUE
    IN Kept(When(driver # "none" \/ Said(CpupowerConf) # "none",
                 {[driver |-> driver, governor |-> Said(CpupowerConf),
                   ppd |-> IsEnabled(ByName("power-profiles-daemon.service"))]}), d.cpu)

CaptureReflector(d) == Kept({Said(ReflectorConf)} \ {"none"}, d.reflector)
CapturePlymouth(d) == Kept(When("plymouth" \in packages, {Said(PlymouthConf)}), d.plymouth)

\* Mutant: what is installed is taken to be on.
InstalledIsActive(d) ==
    Kept(When("apparmor" \in packages,
              {[enable |-> TRUE, audit |-> "audit" \in packages, notify |-> homes # {},
                profiles |-> {path[2] : path \in {x \in DOMAIN files : x[1] = "apparmor.d"}}]}), d.apparmor)

\* It is on when the kernel was told so; the audit is the daemon and the parameter.
CaptureApparmor(d) ==
    Kept(When("apparmor" \in packages,
              {[enable |-> Param("lsm") \in params,
                audit |-> "audit" \in packages /\ Param("audit") \in params,
                notify |-> \E h \in homes : h.name = NotifyAutostart /\ h.user \in DOMAIN accounts,
                profiles |-> {path[2] : path \in {x \in DOMAIN files : x[1] = "apparmor.d"}}]}), d.apparmor)

CaptureWireguard(d) ==
    Kept({[name |-> path[2], format |-> "conf", backend |-> "wg-quick", body |-> files[path][2],
           enable |-> IsEnabled(Instance("wg-quick@", path[2]))]
             : path \in {x \in DOMAIN files : x[1] = "wireguard"}}
         \cup {[name |-> path[2], format |-> "keyfile", backend |-> "networkmanager", body |-> files[path][2],
                enable |-> TRUE] : path \in {x \in DOMAIN files : x[1] = "system-connections"}},
         d.wireguard)

\* Undeclared files are looked for in these directories alone.
Discovered(d) ==
    {File(path, files[path]) : path \in {x \in DOMAIN files :
        /\ x[1] \in {"modprobe.d", "tmpfiles.d"} /\ ~PackageFile(x)
        /\ \A f \in Kind(d.base, "file") : f.path # x}}

CaptureBase(d) ==
    Kind(d.base, "package") \cup Packages(packages)
        \cup {i \in d.base : i.kind \in {"unit", "instance"}} \cup ActualUnits(d.base)
        \cup {IF f.path \in DOMAIN files THEN File(f.path, files[f.path]) ELSE f : f \in Kind(d.base, "file")}
        \cup Discovered(d)
        \cup ((Kind(d.base, "home") \cup owned) \cap homes)

CaptureUsers(d) ==
    [user \in DOMAIN d.users \cup DOMAIN accounts |->
        IF user \in DOMAIN accounts THEN accounts[user] ELSE d.users[user]]

Capture(d) ==
    [d EXCEPT !.base = CaptureBase(d), !.users = CaptureUsers(d), !.network = CaptureNetwork(d),
              !.containers = CaptureContainers(d), !.cpu = CaptureCpu(d), !.reflector = CaptureReflector(d),
              !.plymouth = CapturePlymouth(d), !.apparmor = CaptureApparmor(d),
              !.wireguard = CaptureWireguard(d)]

\* Mutant: the manifest is made from the document as it is written.
OwnedOfRaw(d) == Actual(d) \cap (Ids(d.base) \cup {Account(user) : user \in DOMAIN d.users})

\* _owned_after_sync, of the expanded document.
OwnedAfterSync(d) == Actual(d) \cap (owned \cup Desired(d))

\* What the machine has and the document does not account for: sync writes it
\* into a block, or turns a block into another one.
OnMachine ==
    Packages(packages) \cup enabled \cup homes \cup params
        \cup {Account(user) : user \in DOMAIN accounts} \cup {FileId(path) : path \in DOMAIN files}
Undeclared(d) ==
    {i \in OnMachine \ Desired(d) :
        i.kind = "file" => ~PackageFile(i.path) /\ \A t \in Converted(d) : i.path # KeyfilePath(t.name)}

Blocks == {"wireguard", "cpu", "reflector", "plymouth", "apparmor", "containers", "network"}

Sync ==
    /\ pc = "idle" /\ hands < MaxHands /\ hands' = hands + 1
    /\ doc' = Subtract(Capture(doc), doc)
    /\ owned' = OwnedAfterSync(doc)
    /\ synced' = IF ~Accepted(doc) \/ ~Silent(doc) \/ Undeclared(doc) # {} THEN "no"
                 ELSE IF \E block \in Blocks : doc[block] = {} /\ doc'[block] # {} THEN "adopted" ELSE "yes"
    /\ derived' = IF Silent(doc) THEN derived
                  ELSE {i \in derived \cap owned' : i \in Desired(doc') /\ i \notin Ids(doc'.base)}
    /\ settled' = FALSE
    /\ UNCHANGED <<machine, docs, hand, todo, failed, pc, cuts, applies>>

-----------------------------------------------------------------------------
(* The owner, between applies *)

Idle == pc = "idle" /\ settled' = FALSE /\ synced' = "no"
        /\ UNCHANGED <<docs, hand, todo, failed, pc, owned, cuts, applies>>

EditDoc ==
    /\ Idle /\ doc' \in docs \ {doc}
    /\ derived' = derived \ Ids(doc'.base)
    /\ UNCHANGED <<machine, hands>>

\* A block is taken out of the document as sync left it.
TurnOff ==
    /\ Idle /\ hands < MaxHands /\ hands' = hands + 1
    /\ \E block \in Blocks : doc[block] # {} /\ doc' = [doc EXCEPT ![block] = {}]
    /\ UNCHANGED <<machine, derived>>

Hand == Idle /\ hands < MaxHands /\ hands' = hands + 1 /\ UNCHANGED doc

InstallByHand ==
    /\ Hand /\ UNCHANGED <<enabled, accounts, subids, homes, params>>
    /\ \E p \in Names(Kind(hand, "package")) \ packages :
        /\ packages' = packages \cup {p} /\ known' = known \cup GroupsWith(p)
        /\ files' = files @@ StockFiles(p)
        /\ derived' = derived \ Packages({p})

EnableByHand ==
    /\ Hand /\ UNCHANGED <<packages, files, known, accounts, subids, homes, params>>
    /\ \E u \in Kind(hand, "unit") :
        \/ Provided(u) /\ u \notin enabled /\ enabled' = enabled \cup {u} /\ derived' = derived \ {u}
        \/ u \in enabled /\ enabled' = enabled \ {u} /\ UNCHANGED derived

AddByHand ==
    /\ Hand /\ UNCHANGED <<packages, files, known, enabled, homes, params, derived>>
    /\ \E user \in Names(Kind(hand, "user")) \ DOMAIN accounts :
        accounts' = user :> {} @@ accounts /\ subids' = subids \cup {user}

Init ==
    \E s \in Scenarios :
        /\ docs = s.docs /\ hand = s.hand /\ doc \in s.docs
        /\ packages = {} /\ files = <<>> /\ known = {"wheel", "adm"} /\ enabled = {} /\ accounts = <<>>
        /\ subids = {} /\ homes = {} /\ params = {} /\ owned = {} /\ todo = <<>> /\ failed = "" /\ pc = "idle"
        /\ settled = FALSE /\ synced = "no" /\ derived = {} /\ cuts = 0 /\ applies = 0 /\ hands = 0

Next ==
    \/ StartApply \/ RunStep \/ StepFails \/ Raise \/ Die \/ Finish \/ Sync
    \/ EditDoc \/ TurnOff \/ InstallByHand \/ EnableByHand \/ AddByHand

Spec == Init /\ [][Next]_vars

-----------------------------------------------------------------------------
(* Properties *)

\* A keyfile the manifest has as a file, of a tunnel now converted: one action
\* deletes it, and the other found it there.
BothOwn == {Tunnel(t.name) : t \in {x \in Converted(doc) : KeyfilePath(x.name) \notin DOMAIN files}}

(* An apply of an accepted document that ends well leaves nothing to plan: *)
(* neither what a block contributes to a list, a file or a group the       *)
(* document has by hand as well, nor an instance no listing shows.         *)
SecondPlanIsSilent == settled => Plan(doc).add \cup Plan(doc).drop \cup (Plan(doc).change \ BothOwn) = {}

There(id) ==
    CASE id.kind = "package" -> id.name \in packages
      [] id.kind \in {"unit", "instance"} -> id \in enabled
      [] id.kind = "file" -> id.path \in DOMAIN files /\ ~PackageFile(id.path)
      [] id.kind = "home" -> id \in homes
      [] id.kind = "subid" -> id.name \in subids
      [] id.kind = "param" -> id \in params
      [] id.kind = "tunnel" -> KeyfilePath(id.name) \in DOMAIN files

StillStandsFor(id) == id \in Desired(doc) /\ id \notin Ids(doc.base)

(* What dasik put on the machine for a block and for nothing else goes     *)
(* when no block stands for it any more, also after a sync in between: the *)
(* capture neither disowns it nor writes it into the document a second     *)
(* time (expand/__init__.py:7-9) - but for the audit's tmpfiles entry, and *)
(* the keyfile of a converted tunnel.                                      *)
TurnedOffIsTakenBack ==
    settled => \A id \in derived \ {FileId(AuditTmpfiles)} :
        id.kind # "tunnel" /\ There(id) => StillStandsFor(id)

(* What sync wrote down of a machine that is as declared is silent too,    *)
(* the blocks it rebuilt included - unless it found one the document does  *)
(* not have.                                                               *)
SyncedPlanIsSilent == synced = "yes" => Silent(doc)
=============================================================================
