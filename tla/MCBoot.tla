------------------------------- MODULE MCBoot -------------------------------
(* A machine on mkinitcpio: new, with GRUB, or with entries of its own. *)
EXTENDS Boot, Functions

StockHooks == <<"base", "udev", "autodetect", "modconf", "keyboard", "keymap",
                "consolefont", "block", "filesystems", "fsck">>
ResumeHooks == <<"base", "udev", "plymouth", "block", "resume", "keyboard", "autodetect">>

Stock == [gen |-> "mkinitcpio", words |-> ToSet(StockHooks), tab |-> {}, dropin |-> "none",
          beside |-> {}]
StockImages(ks) == [n \in {Main(k) : k \in ks} |-> [kver |-> 1, from |-> Stock]]

Machine(hs, images0, kernels0, ls, sel, es, grub, hand, ds) ==
    [hooks |-> hs, images |-> images0, kernels |-> kernels0, loaders |-> ls, selected |-> sel,
     entries |-> es, grub |-> grub, handBuilt |-> hand, docs |-> ds]

Document(loader, gen, ks, fs, explicit, disks) ==
    [loader |-> loader, generator |-> gen, kernels |-> ks, features |-> fs, explicit |-> explicit,
     dropin |-> "none", captured |-> {}, disks |-> disks, level |-> "zstd"]

Plain == Document("sd-boot", "mkinitcpio", {}, {}, {}, TRUE)
Luks == Document("sd-boot", "mkinitcpio", {"lts"}, {"luks", "btrfs", "plymouth", "keydev"}, {T("quiet", {})}, TRUE)
Dracut == [Document("sd-boot", "dracut", {"lts"}, {"luks", "btrfs", "tpm2", "hibernate"}, {}, TRUE)
            EXCEPT !.captured = {"data"}]
DracutDropin == [Dracut EXCEPT !.dropin = "a", !.features = @ \cup {"swap"}, !.kernels = {}]
PlainDracut == Document("sd-boot", "dracut", {}, {"btrfs", "swap"}, {}, TRUE)
Day2 == Document("sd-boot", "mkinitcpio", {}, {"apparmor"}, {T("ro", {})}, FALSE)
Grub == Document("grub", "mkinitcpio", {}, {"luks", "hibernate"}, {}, TRUE)
GrubDracut == Document("grub", "dracut", {}, {"luks", "fido2"}, {T("root", {"mine"})}, TRUE)

New == Machine(StockHooks, StockImages({"linux"}), "linux" :> 1, {}, "none", <<>>, {}, {}, {})
WithGrub == Machine(ResumeHooks, StockImages({"linux"}), "linux" :> 1, {"grub"}, "none", <<>>,
                    {T("root", {"old"})}, {}, {})
Theirs ==
    Machine(StockHooks,
            StockImages({"linux", "lts"}) @@ (Kver("6.1") :> [kver |-> 2, from |-> Stock])
                @@ (Kver("6.2") :> [kver |-> 2, from |-> Stock])
                @@ (Kver("6.3") :> [kver |-> 2, from |-> Stock]),
            ("linux" :> 1) @@ ("lts" :> 1), {"sd-boot"}, "arch",
            ("arch" :> Entry("linux", Main("linux"),
                             {T("root", {"label"}), T("rw", {}), T("rootflags", {"subvol=@", "zstd"}),
                              T("rootflags", {"subvol=@", "zstd:1"})}))
            @@ ("other" :> Entry("linux", Kver("6.1"), {T("root", {"theirs"})})),
            {}, {"6.2"}, {})

MCScenarios ==
    {[New EXCEPT !.docs = {Plain, Luks}], [New EXCEPT !.docs = {Plain, PlainDracut}],
     [New EXCEPT !.docs = {Grub, GrubDracut}],
     [WithGrub EXCEPT !.docs = {Dracut, DracutDropin}],
     [Theirs EXCEPT !.docs = {Luks, DracutDropin}],
     [Theirs EXCEPT !.docs = {Grub}, !.entries = Restrict(Theirs.entries, {"arch"}),
                    !.images = StockImages({"linux", "lts"})],
     [Theirs EXCEPT !.docs = {Day2, Plain}, !.entries["arch"].opts = {T("root", {"label"}), T("rw", {})}]}

\* Installed before there were rescue entries, and converged otherwise.
OlderDocument == Document("sd-boot", "mkinitcpio", {}, {"luks", "btrfs"}, {}, TRUE)
MCOlder ==
    {[Theirs EXCEPT !.docs = {OlderDocument}, !.entries["arch"].opts = Desired(OlderDocument)]}
=============================================================================
