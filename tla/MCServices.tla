----------------------------- MODULE MCServices -----------------------------
(* A machine with either firewall, and two subvolumes to take snapshots of. *)
EXTENDS Services, TLC

Fw(backendName, allowed, removed, zs, rs) ==
    [Absent EXCEPT !.present = TRUE, !.enable = TRUE, !.backend = backendName, !.allowed = allowed,
                   !.removed = removed, !.zones = zs, !.rules = rs]
Off(f) == [f EXCEPT !.enable = FALSE]
D(f, s) == [firewall |-> f, snapper |-> s]

Zoned == Fw("firewalld", {"samba"}, {"ssh"}, "home" :> {"ssh"}, {})
Public == Fw("firewalld", {"samba"}, {}, <<>>, {})
TwoRules == Fw("ufw", {"allow Syncthing"}, {}, <<>>, {"allow 22/tcp"})
OneRule == Fw("ufw", {}, {}, <<>>, {"allow 22/tcp"})

Root == "root" :> "/"
Home == "home" :> "/home"

Machine(inst, us, zs, rs, own, ds) ==
    [installed |-> inst, units |-> us, zones |-> zs, rules |-> rs, owned |-> own, docs |-> ds]

New == Machine({}, {}, <<>>, {}, {}, {})

MCScenarios ==
    {[New EXCEPT !.docs = {D(Zoned, <<>>), D(Public, <<>>), D(Absent, Root)}],
     [New EXCEPT !.docs = {D(TwoRules, <<>>), D(OneRule, <<>>), D(Absent, Root)}],
     [New EXCEPT !.docs = {D(Absent, Root @@ Home), D(Absent, Root), D(Off(Zoned), <<>>)}],
     \* Declared, applied and then dropped by a dasik that kept no record.
     Machine({"ufw"}, {"ufw"}, <<>>, {"allow 22/tcp", "allow 9/tcp"}, {"allow 22/tcp"},
             {D(Absent, <<>>), D(Off(OneRule), Root)}),
     Machine({"firewalld"}, {"firewalld"}, "home" :> {"ssh"}, {}, {"home"},
             {D(Absent, <<>>), D(Zoned, <<>>)})}

\* The theorem about snapshots is about documents that agree: here they do.
ASSUME DocumentsAgree == ScenariosAgree
\* And the one about what is closed, about machines that keep to one firewall.
ASSUME FirewallsStay == ScenariosKeepFirewall
=============================================================================
