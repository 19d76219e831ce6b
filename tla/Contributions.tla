--------------------------- MODULE Contributions ---------------------------
(***************************************************************************)
(* lib/expand: what the feature blocks of a document stand for.  A toggle  *)
(* is a function from the document to the items it contributes; an item is *)
(* a package, a unit, an instance of a template unit, a file, a file of a  *)
(* home, or a group every declared user joins.  A path is a directory and  *)
(* a name, a content who formatted it and what it says.                    *)
(*                                                                         *)
(* A document has `base', the items written by hand; `users', the groups   *)
(* of each declared user; `flags', the blocks that are only on or off; and *)
(* for every other block a set that holds it, or is empty.                 *)
(***************************************************************************)
EXTENDS Naturals, Sequences, FiniteSets

Packages(names) == {[kind |-> "package", name |-> n] : n \in names}
Units(names) == {[kind |-> "unit", name |-> n] : n \in names}
Instance(template, of) == [kind |-> "instance", name |-> template, of |-> of]
File(path, content) == [kind |-> "file", path |-> path, content |-> content]
HomeFile(user, name) == [kind |-> "home", user |-> user, name |-> name]
Groups(names) == {[kind |-> "group", name |-> n] : n \in names}
Param(name) == [kind |-> "param", name |-> name]

Kind(items, kind) == {i \in items : i.kind = kind}
When(condition, items) == IF condition THEN items ELSE {}

EmptyDocument ==
    [base |-> {}, users |-> <<>>, flags |-> {}, drivers |-> {}, bluetooth |-> {}, firewall |-> {},
     wireguard |-> {}, cpu |-> {}, reflector |-> {}, plymouth |-> {}, apparmor |-> {}, pam |-> {},
     configSaver |-> {}, containers |-> {}, tailscale |-> {}, network |-> {}]

-----------------------------------------------------------------------------
(* The toggles *)

ExpandBluetooth(d) ==
    UNION {Packages({package, "bluez-utils"}) \cup Units({"bluetooth.service"}) : package \in d.bluetooth}
ExpandCups(d) == When("cups" \in d.flags, Packages({"cups", "sane"}) \cup Units({"cups.socket"}))
ExpandTrim(d) == When("enable_trim" \in d.flags, Units({"fstrim.timer"}))

NestedVirt == <<"modprobe.d", "dasik-nested-virt.conf">>
ExpandKvm(d) ==
    When("kvm" \in d.flags,
         Packages({"qemu-full", "libvirt", "dnsmasq"}) \cup Units({"libvirtd.service", "virtlogd.service"})
             \cup {File(NestedVirt, <<"dasik", "nested">>)} \cup Groups({"libvirt"}))

\* A keyfile is read by NetworkManager alone; a wg-quick conf can be made into one.
BackendMismatch(tunnel) == tunnel.format = "keyfile" /\ tunnel.backend = "wg-quick"
ResolvedBackend(tunnel) ==
    IF tunnel.backend = "auto"
    THEN IF tunnel.format = "keyfile" THEN "networkmanager" ELSE "wg-quick"
    ELSE tunnel.backend
WantsConversion(tunnel) == tunnel.backend = "networkmanager" /\ tunnel.format = "conf"

ConfPath(name) == <<"wireguard", name>>
KeyfilePath(name) == <<"system-connections", name>>
ExpandWireguard(d) ==
    UNION {IF ResolvedBackend(t) = "networkmanager"
           THEN Packages({"networkmanager"})
                \cup When(~WantsConversion(t), {File(KeyfilePath(t.name), <<"keyfile", t.body>>)})
           ELSE Packages({"wireguard-tools"}) \cup {File(ConfPath(t.name), <<"conf", t.body>>)}
                \cup When(t.enable, {Instance("wg-quick@", t.name)}) : t \in d.wireguard}

ExpandSnapper(d) ==
    When("snapper" \in d.flags,
         Packages({"snapper", "snap-pac"}) \cup Units({"snapper-timeline.timer", "snapper-cleanup.timer"}))

ExpandFirewall(d) ==
    UNION {IF backend = "ufw" THEN Packages({"ufw"}) \cup Units({"ufw.service"})
           ELSE Packages({"firewalld"}) \cup Units({"firewalld.service"}) : backend \in d.firewall}

\* Acceleration of the drivers the document names.
HwaccelPackages(driver) ==
    CASE driver = "nvidia" -> {"libva-nvidia-driver", "nvtop"}
      [] driver = "intel" -> {"intel-media-driver", "intel-gpu-tools"}
      [] driver = "amd" -> {"mesa"}
      [] OTHER -> {}
ExpandHwaccel(d) ==
    When("hardware_acceleration" \in d.flags,
         Packages({"libva-utils"} \cup UNION {HwaccelPackages(driver) : driver \in d.drivers}))

DriverPackages(driver) ==
    CASE driver \in {"nvidia", "nvidia-open"} -> [base |-> {"nvidia-open", "nvidia-utils"}, lib32 |-> {"lib32-nvidia-utils"}]
      [] driver = "nouveau" -> [base |-> {"mesa", "vulkan-nouveau"}, lib32 |-> {"lib32-mesa"}]
      [] driver = "intel" -> [base |-> {"mesa", "intel-media-driver"}, lib32 |-> {"lib32-mesa"}]
      [] driver = "amd" -> [base |-> {"mesa", "vulkan-radeon"}, lib32 |-> {"lib32-mesa"}]
      [] OTHER -> [base |-> {}, lib32 |-> {}]
ExpandDrivers(d) ==
    Packages(UNION {DriverPackages(driver).base : driver \in d.drivers}
                 \cup When("multilib" \in d.flags, UNION {DriverPackages(driver).lib32 : driver \in d.drivers}))

ExpandInitramfs(d) == When("dracut" \in d.flags, Packages({"dracut"}))
ExpandZram(d) == When("zram" \in d.flags, Packages({"zram-generator"}))

TailscaleDefaults == <<"default", "tailscaled">>
ExpandTailscale(d) ==
    UNION {Packages({"tailscale"}) \cup Units({"tailscaled.service"})
               \cup {File(TailscaleDefaults, <<"dasik", port>>)} : port \in d.tailscale}

ExpandOomd(d) == When("oomd" \in d.flags, Units({"systemd-oomd.service"}))

CpupowerConf == <<"default", "cpupower">>
ExpandCpu(d) ==
    UNION {When(cpu.ppd, Packages({"power-profiles-daemon"}) \cup Units({"power-profiles-daemon.service"}))
           \cup When(cpu.governor # "none",
                     Packages({"cpupower"}) \cup Units({"cpupower.service"})
                         \cup {File(CpupowerConf, <<"dasik", cpu.governor>>)}) : cpu \in d.cpu}

ReflectorConf == <<"reflector", "reflector.conf">>
ExpandReflector(d) ==
    UNION {Packages({"reflector"}) \cup Units({"reflector.timer"})
               \cup {File(ReflectorConf, <<"dasik", options>>)} : options \in d.reflector}

PlymouthConf == <<"plymouth", "plymouthd.conf">>
ExpandPlymouth(d) ==
    UNION {Packages({"plymouth"}) \cup When(theme # "none", {File(PlymouthConf, <<"dasik", theme>>)})
               : theme \in d.plymouth}

AuditTmpfiles == <<"tmpfiles.d", "audit.conf">>
NotifyAutostart == "apparmor-notify.desktop"
ExpandApparmor(d) ==
    UNION {Packages({"apparmor"}) \cup Units({"apparmor.service"})
           \cup {File(<<"apparmor.d", profile>>, <<"local", profile>>) : profile \in a.profiles}
           \cup When(a.audit, Packages({"audit"}) \cup Units({"auditd.service"}) \cup Groups({"adm"})
                                  \cup {File(AuditTmpfiles, <<"dasik", "audit">>)})
           \cup When(a.notify, Packages({"python-notify2"})
                                   \cup {HomeFile(user, NotifyAutostart) : user \in DOMAIN d.users \ {"root"}})
               : a \in {x \in d.apparmor : x.enable}}

PolkitHelper == <<"systemd", "10-dasik-faillock.conf">>
ExpandPam(d) ==
    UNION {When(pam.pwquality, Packages({"libpwquality"}))
           \cup When(pam.faillock # "none", {File(PolkitHelper, <<"dasik", pam.faillock>>)}) : pam \in d.pam}

ExpandConfigSaver(d) ==
    UNION {Packages({"config-saver"})
           \cup {File(<<"config-saver", name>>, <<"dasik", name>>) : name \in c.configs}
           \cup {Instance("config-saver@", user) : user \in c.timers} : c \in d.configSaver}

ExpandContainers(d) ==
    UNION {Packages({c.runtime} \cup When(c.compose, {IF c.runtime = "podman" THEN "podman-compose"
                                                      ELSE "docker-compose"}))
           \cup IF c.runtime = "podman"
                THEN When(c.compat, Packages({"podman-docker"})) \cup When(c.api, Units({"podman.socket"}))
                ELSE Units({IF c.api THEN "docker.socket" ELSE "docker.service"}) \cup Groups({"docker"})
                         \cup When(c.daemon # "none", {File(<<"docker", "daemon.json">>, <<"dasik", c.daemon>>)})
               : c \in d.containers}

\* networkd starts and matches nothing without a .network file of somebody.
NetworkdProfile == <<"network", "20-dasik-dhcp.network">>
ExpandNetwork(d) ==
    UNION {IF type = "NetworkManager"
           THEN Packages({"networkmanager"}) \cup Units({"NetworkManager.service"})
           ELSE Units({"systemd-networkd.service", "systemd-resolved.service"})
                \cup When(\A f \in Kind(d.base, "file") : f.path[1] # "network",
                          {File(NetworkdProfile, <<"dasik", "dhcp">>)}) : type \in d.network}

ExpandSdbootUpdate(d) == When("sd-boot" \in d.flags, Units({"systemd-boot-update.service"}))

Contributions(d) ==
    ExpandBluetooth(d) \cup ExpandCups(d) \cup ExpandTrim(d) \cup ExpandKvm(d) \cup ExpandWireguard(d)
        \cup ExpandFirewall(d) \cup ExpandHwaccel(d) \cup ExpandSnapper(d) \cup ExpandDrivers(d)
        \cup ExpandInitramfs(d) \cup ExpandZram(d) \cup ExpandOomd(d) \cup ExpandCpu(d)
        \cup ExpandSdbootUpdate(d) \cup ExpandReflector(d) \cup ExpandPlymouth(d) \cup ExpandApparmor(d)
        \cup ExpandPam(d) \cup ExpandConfigSaver(d) \cup ExpandContainers(d) \cup ExpandTailscale(d)
        \cup ExpandNetwork(d)

-----------------------------------------------------------------------------
(* expand_config and subtract_contributions *)

GroupsOf(items) == {i.name : i \in Kind(items, "group")}

\* Of two entries for one path the later is written, and a block's comes later.
Overridden(d) ==
    {f \in Kind(d.base, "file") : \E g \in Kind(Contributions(d), "file") : g.path = f.path}
Expanded(d) ==
    [base |-> (d.base \ Overridden(d)) \cup {i \in Contributions(d) : i.kind # "group"},
     users |-> [user \in DOMAIN d.users |-> d.users[user] \cup GroupsOf(Contributions(d))]]

\* KernelCmdlineAction derives the parameters of a block itself.
Parameters(d) ==
    {Param(cpu.driver) : cpu \in {c \in d.cpu : c.driver # "none"}}
        \cup {Param("splash") : theme \in d.plymouth}
        \cup UNION {{Param("lsm")} \cup When(a.audit, {Param("audit")}) : a \in {x \in d.apparmor : x.enable}}

\* A captured file of these sections is not an entry of `files'.
Sections == {"tmpfiles.d"}
Subtractable(item) == item.kind = "file" => item.path[1] \notin Sections

Subtract(captured, original) ==
    LET theirs == Contributions(original)
        Kept(user) == IF user \in DOMAIN original.users THEN original.users[user] ELSE {}
    IN [captured EXCEPT
          !.base = {i \in @ : i \in theirs /\ Subtractable(i) => i \in original.base},
          !.users = [user \in DOMAIN @ |-> {g \in @[user] : g \in GroupsOf(theirs) => g \in Kept(user)}]]

-----------------------------------------------------------------------------
(* preflight, of the expanded document: what refuses it *)

GroupProviders == [docker |-> {"docker"}, libvirt |-> {"libvirt"}]
GroupWithoutProvider(expanded) ==
    \E user \in DOMAIN expanded.users : \E g \in expanded.users[user] \cap DOMAIN GroupProviders :
        Packages(GroupProviders[g]) \cap expanded.base = {}

FirewallConflict(d) ==
    \E backend \in d.firewall :
        Packages({IF backend = "ufw" THEN "firewalld" ELSE "ufw"}) \subseteq Expanded(d).base
PpdAndTlp(d) == (\E cpu \in d.cpu : cpu.ppd) /\ Packages({"tlp"}) \subseteq d.base

Accepted(d) ==
    /\ \A t \in d.wireguard : ~BackendMismatch(t) /\ \A u \in d.wireguard : u.name = t.name => u = t
    /\ ~GroupWithoutProvider(Expanded(d)) /\ ~FirewallConflict(d) /\ ~PpdAndTlp(d)
=============================================================================
