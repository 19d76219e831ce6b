------------------------------ MODULE MCBlocks ------------------------------
(* The documents a machine goes through, and what its owner does by hand. *)
EXTENDS Blocks

Ann == "ann" :> {"wheel"}
Doc(base) == [EmptyDocument EXCEPT !.base = base, !.users = Ann]
Scenario(ds, by) == [docs |-> ds, hand |-> by]

Podman(rootless, api) == [runtime |-> "podman", compose |-> TRUE, compat |-> FALSE, api |-> api,
                          rootless |-> rootless, daemon |-> "none"]
Docker(daemon) == [runtime |-> "docker", compose |-> FALSE, compat |-> FALSE, api |-> FALSE,
                   rootless |-> TRUE, daemon |-> daemon]
Cpu(driver, ppd, governor) == [driver |-> driver, ppd |-> ppd, governor |-> governor]
Apparmor(audit, notify, profiles) == [enable |-> TRUE, audit |-> audit, notify |-> notify, profiles |-> profiles]
WgTunnel(name, format, backend, enable) ==
    [name |-> name, format |-> format, backend |-> backend, enable |-> enable, body |-> "home"]

Containers == Scenario({[Doc({}) EXCEPT !.containers = {Podman(TRUE, TRUE)}],
                        [Doc({}) EXCEPT !.containers = {Docker("logs")}],
                        Doc(Packages({"podman"}))}, Packages({"docker"}) \cup {Account("bob")})
Kvm == Scenario({[Doc(Packages({"dnsmasq"})) EXCEPT !.flags = {"kvm", "enable_trim"}],
                 Doc({File(NestedVirt, <<"hand", "flat">>)}),
                 [Doc({}) EXCEPT !.users = "ann" :> {"libvirt"}]}, {Account("bob")})
Cpus == Scenario({[Doc({}) EXCEPT !.cpu = {Cpu("amd_pstate", TRUE, "none")}],
                  [Doc(Units({"fstrim.timer"})) EXCEPT !.cpu = {Cpu("none", FALSE, "performance")}],
                  [Doc(Packages({"tlp"})) EXCEPT !.cpu = {Cpu("none", TRUE, "none")}]},
                 Packages({"cpupower"}))
Looks == Scenario({[Doc({}) EXCEPT !.reflector = {"spain"}, !.plymouth = {"bgrt"}],
                   [Doc(Packages({"reflector"})) EXCEPT !.plymouth = {"none"}], Doc({})},
                  Packages({"reflector"}))
Armor == Scenario({[Doc({}) EXCEPT !.apparmor = {Apparmor(TRUE, TRUE, {"local"})}],
                   [Doc(Packages({"audit"})) EXCEPT !.apparmor = {Apparmor(FALSE, FALSE, {})}],
                    [Doc(Packages({"apparmor"})) EXCEPT !.apparmor = {[Apparmor(TRUE, TRUE, {}) EXCEPT !.enable = FALSE]}]},
                  Packages({"apparmor"}))
Networks == Scenario({[Doc({}) EXCEPT !.network = {"NetworkManager"}],
                      [Doc({}) EXCEPT !.network = {"systemd-networkd"}],
                      [Doc({File(<<"network", "10-own.network">>, <<"hand", "static">>)}) EXCEPT
                            !.network = {"systemd-networkd"}]},
                     Units({"systemd-networkd.service", "NetworkManager.service"}))
Tunnels == Scenario({[Doc({}) EXCEPT !.wireguard = {WgTunnel("wg0", "conf", "wg-quick", TRUE)}],
                     [Doc({}) EXCEPT !.wireguard = {WgTunnel("wg0", "conf", "networkmanager", TRUE)}],
                     [Doc({}) EXCEPT !.wireguard = {WgTunnel("wg0", "keyfile", "wg-quick", TRUE)}], Doc({})}, {})
Timers == Scenario({[Doc({}) EXCEPT !.configSaver = {[configs |-> {"daily"}, timers |-> {"ann"}]}],
                    [Doc({}) EXCEPT !.firewall = {"ufw"}, !.drivers = {"amd"}, !.pam = {[pwquality |-> TRUE,
                                                                                       faillock |-> "run"]}],
                    [Doc(Packages({"firewalld"})) EXCEPT !.firewall = {"ufw"}]}, {})

MCScenarios == {Containers, Kvm, Cpus, Looks, Armor, Networks, Tunnels, Timers}
=============================================================================
