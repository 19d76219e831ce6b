-------------------------------- MODULE Boot --------------------------------
(***************************************************************************)
(* What the firmware boots: the loader, its entries and the kernel command *)
(* line (lib/actions/bootloader_action.py, kernel_cmdline_action.py), over *)
(* the images of Initramfs.  The whole plan of an apply is made before its *)
(* first step; what a step reads it reads again when it runs.  A step that *)
(* fails ends the apply, and the process may die between any two.          *)
(*                                                                         *)
(* A parameter is a key and a set of words; the order of a command line is *)
(* left out, and so is who else writes to the ESP during an apply.         *)
(***************************************************************************)
EXTENDS Initramfs, SetMath

CONSTANTS Scenarios,        \* a machine, and the documents its owner writes
          HooksMayFail,     \* may pacman's hooks leave a new kernel without images
          MaxCuts,          \* how often the process may die or a step fail
          MaxApplies,       \* how many applies are started
          MaxHands          \* how often the machine is changed by hand

VARIABLES
    docs, doc,              \* the documents, and the one in force
    loaders,                \* the loaders with a marker on the ESP
    selected,               \* the entry loader.conf selects, or "none"
    entries,                \* name -> kernel, image and options
    grubFile, grubDefault,  \* /etc/default/grub: is it there, its parameters
    grubCfg,                \* the parameters in grub.cfg
    handBuilt,              \* versions of kernels outside pacman
    owned,                  \* the manifest: per domain what dasik owns
    todo,                   \* the steps of the apply still to be taken
    pc,
    settled,                \* the last apply ended well, nothing happened since
    cuts, applies, hands

esp == <<loaders, selected, entries, grubFile, grubDefault, grubCfg>>
counters == <<cuts, applies, hands>>
vars == <<initramfsVars, docs, doc, esp, handBuilt, owned, todo, pc, settled, counters>>

T(key, words) == [key |-> key, words |-> words]

-----------------------------------------------------------------------------
(* The parameters a document asks for *)

Flag(condition, tokens) == IF condition THEN tokens ELSE {}

\* _derive_from_disks, _derive_from_plymouth, _derive_from_apparmor
Derived(d) ==
    LET f == d.features
        options == Flag("tpm2" \in f, {"tpm2"}) \cup Flag("fido2" \in f, {"fido2"})
                     \cup Flag("keydev" \in f, {"keyfile-timeout"}) \cup Flag("trim" \in f, {"discard"})
    IN Flag(d.disks,
            {T("root", {IF "luks" \in f THEN "mapper" ELSE "label"}), T("rw", {})}
            \cup Flag("btrfs" \in f, {T("rootflags", {"subvol=@", d.level})})
            \cup Flag("luks" \in f, {T("rd.luks.name", {"root"})})
            \cup Flag("luks" \in f /\ f \cap {"keydev", "keyfile"} # {}, {T("rd.luks.key", {"root"})})
            \cup Flag("luks" \in f /\ options # {}, {T("rd.luks.options", options)}))
       \cup Flag("plymouth" \in f, {T("splash", {})})
       \cup Flag("apparmor" \in f, {T("lsm", {"apparmor"})})

Repeatable == {"rd.luks.name", "rd.luks.key", "rd.luks.options"}

\* rw and ro are one parameter; a repeatable one is its own identity.
KeyOf(t) == IF t.key \in Repeatable THEN t
            ELSE T(IF t.key = "ro" THEN "rw" ELSE t.key, {})

\* _merge, and the order-free part of _desired_tokens: what is written out wins.
Desired(d) ==
    d.explicit \cup {t \in Derived(d) : KeyOf(t) \notin {KeyOf(e) : e \in d.explicit}}

RootDefining == {"root", "rootflags", "rootfstype", "rw", "ro"}
RootKeyed == {"root", "rootflags", "rootfstype"}

\* The kernel fills in the level of a compression that names none.
Level(word) == IF word = "zstd" THEN "zstd:3" ELSE word
Equivalent(t, u) == {Level(w) : w \in t.words} = {Level(w) : w \in u.words}

RootFlags(tokens) == {t \in tokens : t.key = "rootflags"}

\* _desired_tokens_for_diff: only one live value can stand for the declared.
DesiredForDiff(d, live) ==
    LET same == {t \in RootFlags(Desired(d)) :
                    Cardinality(RootFlags(live)) = 1
                    /\ \A u \in RootFlags(live) : Equivalent(t, u)}
    IN (Desired(d) \ same) \cup (IF same = {} THEN {} ELSE RootFlags(live))

\* _actual_for_diff: of several, none counts as there.
ActualForDiff(live) ==
    IF Cardinality(RootFlags(live)) > 1 THEN live \ RootFlags(live) ELSE live

-----------------------------------------------------------------------------
(* What is on the ESP *)

EntryOrder == <<"arch", "arch-fallback", "lts", "lts-fallback", "other">>
FallbackOf(k) == IF k = "linux" THEN "arch-fallback" ELSE "lts-fallback"

\* _current_cmdline reads one entry: the selected one, arch.conf, or the first.
EntryRead ==
    LET order == SelectSeq(<<selected, "arch">> \o EntryOrder, LAMBDA n : n \in DOMAIN entries)
    IN order[1]

Live(d) ==
    CASE d.loader = "grub" -> IF grubFile THEN grubDefault ELSE {}
      [] d.loader # "grub" /\ DOMAIN entries = {} -> {}
      [] OTHER -> entries[EntryRead].opts

\* _our_sdboot_entries: an ESP can be shared.
OurEntries(d) ==
    DOMAIN entries \cap ({"arch", "arch-fallback", selected}
                            \cup d.kernels \cup {FallbackOf(k) : k \in d.kernels})

KernelOnEsp(k) == k \in DOMAIN kernels /\ Main(k) \in DOMAIN images

\* _declared_kernels: an installed package without an image is no kernel.
DeclaredKernels(d) == {k \in d.kernels : k \in DOMAIN kernels => KernelOnEsp(k)}

RootParam(d) ==
    T("root", {CASE d.disks /\ "luks" \in d.features -> "mapper"
                 [] d.disks /\ "luks" \notin d.features -> "label"
                 [] OTHER -> "default"})
BaseOptions(d) == {RootParam(d), T("rw", {})}

\* Under dracut the rescue image is declared; mkinitcpio's is looked for.
FallbackImage(d) ==
    IF d.generator = "dracut" \/ Fallback("linux") \in DOMAIN images
    THEN Fallback("linux") ELSE Main("linux")

LoaderItems == {"sd-boot", "grub"}
Sdboot(d) == d.loader = "sd-boot"

\* actual(): kernel entries only matter to systemd-boot.
Have(d) ==
    loaders \cup Flag("arch-fallback" \in DOMAIN entries, {"fallback-entry"})
        \cup Flag(Sdboot(d), DOMAIN entries \ {"arch", "arch-fallback", "lts-fallback"})

ManagedBoot(d) == {d.loader} \cup Flag(Sdboot(d), {"fallback-entry"} \cup DeclaredKernels(d))

-----------------------------------------------------------------------------
(* Plan *)

PlanBoot(d) ==
    LET have == Have(d)
        entryNames == {"lts", "other"}
    IN [add |-> ({d.loader} \cup Flag(Sdboot(d), {"fallback-entry"} \cup DeclaredKernels(d))) \ have,
        fix |-> Flag(/\ Sdboot(d) /\ "fallback-entry" \in have /\ d.generator = "dracut"
                     /\ entries["arch-fallback"].image # FallbackImage(d), {"fallback-entry"}),
        drop |-> Flag(Sdboot(d), ((owned.boot \cap have) \cap entryNames) \ DeclaredKernels(d))
                 \cup ((have \cap LoaderItems) \ {d.loader})
                 \cup Flag(~Sdboot(d), have \cap {"fallback-entry"})]

\* Mutant: the root is dropped like any other parameter.
PlanDropsRoot(d) ==
    ComputeChanges(DesiredForDiff(d, Live(d)), owned.cmdline, ActualForDiff(Live(d)), {})

PlanCmdline(d) ==
    LET ch == ComputeChanges(DesiredForDiff(d, Live(d)), owned.cmdline, ActualForDiff(Live(d)), {})
    IN [ch EXCEPT !.drop = {t \in ch.drop : t.key \notin RootDefining}]

Referenced == {entries[e].image : e \in DOMAIN entries}

\* A kernel dasik does not own stays.
WantedKernels(d) == {"linux"} \cup d.kernels \cup (DOMAIN kernels \ owned.kernels)

\* Each domain of an apply, in the order of the actions.
Planned(d) ==
    [packages  |-> DOMAIN kernels # WantedKernels(d) \/ neutral # (d.generator = "dracut"),
     dropin    |-> d.dropin # dropin /\ (d.dropin # "none" \/ owned.dropin),
     swap      |-> PlansSwap(d, owned.swap),
     initramfs |-> PlansInitramfs(d, owned.dropin),
     orphans   |-> Orphans(Referenced, handBuilt),
     boot      |-> PlanBoot(d),
     cmdline   |-> PlanCmdline(d)]

Nothing == [packages |-> FALSE, dropin |-> FALSE, swap |-> FALSE, initramfs |-> FALSE,
            orphans |-> {}, boot |-> [add |-> {}, fix |-> {}, drop |-> {}], cmdline |-> NoChanges]

-----------------------------------------------------------------------------
(* The steps of an apply.  `in' is the position of the action a step is    *)
(* part of; what a step needs of the plan travels with it.                 *)

Step(in, do, arg, image, line) == [in |-> in, do |-> do, arg |-> arg, image |-> image, tokens |-> line]
Do(in, do) == <<Step(in, do, "", <<>>, NoChanges)>>
DoEach(in, do, names) == [i \in 1 .. Cardinality(names) |->
                            Step(in, do, SetToSeq(names)[i], <<>>, NoChanges)]
When(condition, steps) == IF condition THEN steps ELSE <<>>

Uninstall(loader) ==
    IF loader = "grub" THEN Do(6, "grub leftovers")
    ELSE Do(6, "bootctl remove") \o Do(6, "sd-boot leftovers")

Install(d) ==
    IF Sdboot(d) THEN Do(6, "bootctl install") \o Do(6, "loader.conf")
                        \o Do(6, "arch.conf") \o Do(6, "fallback entry")
    ELSE Do(6, "grub-install") \o Do(6, "grub-mkconfig")

\* BootloaderAction.apply: the old loader goes first.
BootSteps(d, b) ==
    LET items == b.add \cup b.fix \cup b.drop
    IN FlattenSeq([i \in 1 .. Cardinality(b.drop \cap LoaderItems) |->
                        Uninstall(SetToSeq(b.drop \cap LoaderItems)[i])])
       \o When(d.loader \in items, Install(d))
       \o When("fallback-entry" \in items /\ Sdboot(d), Do(6, "fallback item"))
       \o DoEach(6, "write entry", b.add \ (LoaderItems \cup {"fallback-entry"}))
       \o DoEach(6, "remove entry", b.drop \ (LoaderItems \cup {"fallback-entry"}))

StepsOf(d, p) ==
    When(p.packages, Do(1, "packages"))
        \o When(p.dropin, Do(2, "dropin"))
        \o When(p.swap, Do(3, "swap"))
        \o When(p.initramfs, Do(4, "conf") \o Do(4, "crypttab") \o Do(4, "images"))
        \o [i \in 1 .. Cardinality(p.orphans) |->
                Step(5, "orphan", "", SetToSeq(p.orphans)[i], NoChanges)]
        \o BootSteps(d, p.boot)
        \o When(p.cmdline # NoChanges, <<Step(7, "cmdline", "", <<>>, p.cmdline)>>)

ManagedCmdline(d) == DesiredForDiff(d, Live(d))

\* _build_new_manifest: an action that did not complete keeps what it had.
OwnedAfter(d, reached) ==
    [kernels |-> IF reached > 1 THEN d.kernels ELSE owned.kernels,
     dropin  |-> IF reached > 2 THEN d.dropin # "none" ELSE owned.dropin,
     swap    |-> IF reached > 3 THEN "swap" \in d.features ELSE owned.swap,
     boot    |-> IF reached > 6 THEN ManagedBoot(d) ELSE owned.boot,
     cmdline |-> IF reached > 7 THEN ManagedCmdline(d) ELSE owned.cmdline]

StartApply ==
    /\ pc = "idle" /\ applies < MaxApplies
    /\ Planned(doc) # Nothing
    /\ pc' = "running" /\ todo' = StepsOf(doc, Planned(doc))
    /\ settled' = FALSE /\ applies' = applies + 1
    /\ UNCHANGED <<initramfsVars, docs, doc, esp, handBuilt, owned, cuts, hands>>

Finish ==
    /\ pc = "running" /\ todo = <<>>
    /\ pc' = "idle" /\ settled' = TRUE /\ owned' = OwnedAfter(doc, 8)
    /\ UNCHANGED <<initramfsVars, docs, doc, esp, handBuilt, todo, counters>>

Now(do) == pc = "running" /\ todo # <<>> /\ Head(todo).do = do
Proceed == todo' = Tail(todo)
Same == UNCHANGED <<docs, doc, handBuilt, owned, pc, settled, counters>>
EspOnly == UNCHANGED initramfsVars /\ Same
ImagesOnly == UNCHANGED esp /\ Same

\* The action raises: a partial manifest, and the rest is not done.
Fail ==
    /\ pc = "running" /\ todo # <<>> /\ cuts < MaxCuts
    /\ Head(todo).do \in {"packages", "image", "mkinitcpio -P", "bootctl install", "grub-install",
                          "grub-mkconfig"}
    /\ pc' = "idle" /\ todo' = <<>> /\ cuts' = cuts + 1
    /\ owned' = OwnedAfter(doc, Head(todo).in)
    /\ UNCHANGED <<initramfsVars, docs, doc, esp, handBuilt, settled, applies, hands>>

Die ==
    /\ pc = "running" /\ cuts < MaxCuts
    /\ pc' = "idle" /\ todo' = <<>> /\ cuts' = cuts + 1
    /\ UNCHANGED <<initramfsVars, docs, doc, esp, handBuilt, owned, settled, applies, hands>>

-----------------------------------------------------------------------------
(* The steps before the loader *)

\* PacmanHooks and Packages.  Pacman's hooks build the images of a new kernel
\* with the generator in force, and may rebuild the others.
Packages ==
    /\ Now("packages") /\ Proceed /\ ImagesOnly
    /\ neutral' = (doc.generator = "dracut")
    /\ kernels' = [k \in WantedKernels(doc) |-> IF k \in DOMAIN kernels THEN kernels[k] ELSE 1]
    /\ \E names \in {{k \in WantedKernels(doc) : k \notin DOMAIN kernels}, WantedKernels(doc)}
                        \cup (IF HooksMayFail THEN {{}} ELSE {}) :
        LET kept == {n \in DOMAIN images : n[2] = "kver" \/ n[1] \in WantedKernels(doc)}
            built == {Main(k) : k \in names}
                       \cup Flag(PresetFallback \/ doc.generator = "dracut", {Fallback(k) : k \in names})
        IN /\ images' = [n \in kept \cup built |->
                            IF n \in built THEN [kver |-> kernels'[n[1]], from |-> Inputs(doc)] ELSE images[n]]
           /\ older' = (older \cap kept) \ built
           /\ behind' = (behind \cap kept) \ built
    /\ UNCHANGED <<hooks, extras, conf, crypttab, swapline, dropin>>

DropFile == Now("dropin") /\ Proceed /\ ImagesOnly /\ WriteDropin(doc.dropin)
Swap == Now("swap") /\ Proceed /\ ImagesOnly /\ WriteSwapLines(doc)
Conf == Now("conf") /\ Proceed /\ ImagesOnly /\ WriteConf(doc)
Crypt == Now("crypttab") /\ Proceed /\ ImagesOnly /\ WriteCrypttab(doc)

\* dracut builds image after image, each kernel's own and its fallback.
Images ==
    /\ Now("images") /\ ImagesOnly /\ UNCHANGED initramfsVars
    /\ todo' = IF doc.generator = "dracut"
               THEN FlattenSeq([i \in 1 .. Cardinality(DOMAIN kernels) |->
                        LET k == SetToSeq(DOMAIN kernels)[i]
                        IN <<Step(4, "image", "", Main(k), NoChanges),
                             Step(4, "image", "", Fallback(k), NoChanges)>>]) \o Tail(todo)
               ELSE Do(4, "mkinitcpio -P") \o Tail(todo)

DracutImage ==
    /\ Now("image") /\ Proceed /\ ImagesOnly
    /\ Build(doc, {Head(todo).image}) /\ UNCHANGED <<genVars, kernels>>

Mkinitcpio ==
    /\ Now("mkinitcpio -P") /\ Proceed /\ ImagesOnly
    /\ Build(doc, MkinitcpioImages) /\ UNCHANGED <<genVars, kernels>>

Prune ==
    /\ Now("orphan") /\ Proceed /\ ImagesOnly
    /\ Delete({Head(todo).image}) /\ UNCHANGED <<genVars, kernels>>

-----------------------------------------------------------------------------
(* The loader and its entries *)

SetEntries(new) == entries' = new @@ entries
Entry(k, image, opts) == [kernel |-> k, image |-> image, opts |-> opts]

\* Without efivars bootctl fails, and that is allowed.
BootctlRemove ==
    /\ Now("bootctl remove") /\ Proceed /\ EspOnly
    /\ loaders' \in {loaders, loaders \ {"sd-boot"}}
    /\ UNCHANGED <<selected, entries, grubFile, grubDefault, grubCfg>>

\* The directory of the entries goes, whoever wrote them.
SdbootLeftovers ==
    /\ Now("sd-boot leftovers") /\ Proceed /\ EspOnly
    /\ loaders' = loaders \ {"sd-boot"} /\ entries' = <<>> /\ selected' = "none"
    /\ UNCHANGED <<grubFile, grubDefault, grubCfg>>

GrubLeftovers ==
    /\ Now("grub leftovers") /\ Proceed /\ EspOnly
    /\ loaders' = loaders \ {"grub"} /\ grubCfg' = {}
    /\ UNCHANGED <<selected, entries, grubFile, grubDefault>>

\* The marker is there before the entries are.
BootctlInstall ==
    /\ Now("bootctl install") /\ Proceed /\ EspOnly
    /\ loaders' = loaders \cup {"sd-boot"}
    /\ UNCHANGED <<selected, entries, grubFile, grubDefault, grubCfg>>

LoaderConf ==
    /\ Now("loader.conf") /\ Proceed /\ EspOnly /\ selected' = "arch"
    /\ UNCHANGED <<loaders, entries, grubFile, grubDefault, grubCfg>>

ArchEntry ==
    /\ Now("arch.conf") /\ Proceed /\ EspOnly
    /\ SetEntries("arch" :> Entry("linux", Main("linux"), BaseOptions(doc)))
    /\ UNCHANGED <<loaders, selected, grubFile, grubDefault, grubCfg>>

WriteFallback ==
    SetEntries("arch-fallback" :> Entry("linux", FallbackImage(doc), BaseOptions(doc)))

FallbackEntry ==
    /\ Now("fallback entry") /\ Proceed /\ EspOnly /\ WriteFallback
    /\ UNCHANGED <<loaders, selected, grubFile, grubDefault, grubCfg>>

\* An entry that is there keeps everything but its image.
FallbackItem ==
    /\ Now("fallback item") /\ Proceed /\ EspOnly
    /\ IF "arch-fallback" \notin DOMAIN entries THEN WriteFallback
       ELSE entries' = [entries EXCEPT !["arch-fallback"].image = FallbackImage(doc)]
    /\ UNCHANGED <<loaders, selected, grubFile, grubDefault, grubCfg>>

GrubInstall ==
    /\ Now("grub-install") /\ Proceed /\ EspOnly /\ grubFile' = TRUE
    /\ UNCHANGED <<loaders, selected, entries, grubDefault, grubCfg>>

\* grub.cfg is grub's marker, and is written last.
GrubMkconfig ==
    /\ Now("grub-mkconfig") /\ Proceed /\ EspOnly
    /\ loaders' = loaders \cup {"grub"} /\ grubCfg' = grubDefault
    /\ UNCHANGED <<selected, entries, grubFile, grubDefault>>

\* The options of arch.conf, so that the new entry boots the same root.
EntryOptions == IF "arch" \in DOMAIN entries THEN entries["arch"].opts ELSE BaseOptions(doc)

WriteEntry ==
    /\ Now("write entry") /\ Proceed /\ EspOnly
    /\ LET k == Head(todo).arg
       IN IF ~KernelOnEsp(k) THEN UNCHANGED entries
          ELSE SetEntries(
                (k :> Entry(k, Main(k), EntryOptions)) @@
                (IF Fallback(k) \in DOMAIN images
                 THEN FallbackOf(k) :> Entry(k, Fallback(k), EntryOptions) ELSE <<>>))
    /\ UNCHANGED <<loaders, selected, grubFile, grubDefault, grubCfg>>

RemoveEntry ==
    /\ Now("remove entry") /\ Proceed /\ EspOnly
    /\ LET k == Head(todo).arg
       IN entries' = [e \in DOMAIN entries \ {k, FallbackOf(k)} |-> entries[e]]
    /\ UNCHANGED <<loaders, selected, grubFile, grubDefault, grubCfg>>

-----------------------------------------------------------------------------
(* The command line *)

\* Mutant: what was there stays.
KeepsOldTokens(live, ch) == (live \ ch.drop) \cup ch.add

\* _new_tokens: a new root replaces every old one, rw replaces ro.
NewTokens(live, ch) ==
    LET keyed == {t.key : t \in ch.add} \cap RootKeyed
        flags == \E t \in ch.add : t.key \in {"rw", "ro"}
        superseded == {t \in live : t.key \in keyed \/ (flags /\ t.key \in {"rw", "ro"})}
    IN ((live \ ch.drop) \ superseded) \cup ch.add

Cmdline ==
    /\ Now("cmdline") /\ EspOnly /\ UNCHANGED esp
    /\ LET tokens == [add |-> NewTokens(Live(doc), Head(todo).tokens), drop |-> {}]
       IN todo' = (IF doc.loader = "grub"
                   THEN <<Step(7, "/etc/default/grub", "", <<>>, tokens),
                          Step(7, "grub-mkconfig, unchecked", "", <<>>, NoChanges)>>
                   ELSE [i \in 1 .. Cardinality(OurEntries(doc)) |->
                            Step(7, "options", SetToSeq(OurEntries(doc))[i], <<>>, tokens)])
                  \o Tail(todo)

\* Entry after entry gets the one line.
Options ==
    /\ Now("options") /\ Proceed /\ EspOnly
    /\ entries' = [entries EXCEPT ![Head(todo).arg].opts = Head(todo).tokens.add]
    /\ UNCHANGED <<loaders, selected, grubFile, grubDefault, grubCfg>>

GrubDefault ==
    /\ Now("/etc/default/grub") /\ Proceed /\ EspOnly
    /\ grubFile /\ grubDefault' = Head(todo).tokens.add
    /\ UNCHANGED <<loaders, selected, entries, grubFile, grubCfg>>

\* Nobody looks at how it ended.
GrubMkconfigUnchecked ==
    /\ Now("grub-mkconfig, unchecked") /\ Proceed
    /\ \/ grubCfg' = grubDefault /\ cuts' = cuts
       \/ cuts < MaxCuts /\ cuts' = cuts + 1 /\ grubCfg' = grubCfg
    /\ UNCHANGED <<initramfsVars, docs, doc, handBuilt, owned, pc, settled, applies, hands,
                   loaders, selected, entries, grubFile, grubDefault>>

-----------------------------------------------------------------------------
(* Between the applies *)

Idle == pc = "idle" /\ settled' = FALSE /\ UNCHANGED <<todo, pc, docs, cuts, applies>>

Edit ==
    /\ Idle /\ doc' \in docs \ {doc}
    /\ UNCHANGED <<initramfsVars, esp, handBuilt, owned, hands>>

\* import_state of the three actions: the live parameters nothing derives.
BlockOwned(d) == {"lsm"} \cup Flag("plymouth" \in d.features, {"splash"})

Captured(d) ==
    LET derived == {IF t.key \in Repeatable THEN t ELSE T(t.key, {}) : t \in Derived(d)}
                    \cup {T(k, {}) : k \in BlockOwned(d)}
    IN {t \in Live(d) : (IF t.key \in Repeatable THEN t ELSE T(t.key, {})) \notin derived}

Sync ==
    /\ Idle /\ hands < MaxHands /\ hands' = hands + 1
    /\ doc' = [doc EXCEPT !.loader = CASE "sd-boot" \in loaders -> "sd-boot"
                                       [] loaders = {"grub"} -> "grub"
                                       [] OTHER -> @,
                          !.generator = DetectGenerator,
                          !.kernels = DOMAIN kernels \ {"linux"},
                          !.explicit = IF Live(doc) = {} THEN @ ELSE Captured(doc)]
    /\ owned' = [owned EXCEPT !.kernels = DOMAIN kernels \cap (@ \cup doc.kernels),
                              !.boot = Have(doc) \cap (@ \cup ManagedBoot(doc)),
                              !.cmdline = Live(doc) \cap (@ \cup ManagedCmdline(doc))]
    /\ UNCHANGED <<initramfsVars, esp, handBuilt>>

\* pacman -Syu: its hooks rebuild what they know of.
KernelUpgrade ==
    /\ Idle /\ hands < MaxHands /\ hands' = hands + 1
    /\ \E k \in {n \in DOMAIN kernels : Main(n) \in DOMAIN images /\ kernels[n] = 1} :
        LET rebuilt == {Main(k)} \cup Flag(neutral \/ PresetFallback, {Fallback(k)})
        IN /\ kernels' = [kernels EXCEPT ![k] = 2]
           /\ images' = [n \in DOMAIN images \cup rebuilt |->
                            IF n \in rebuilt
                            THEN [kver |-> 2, from |-> Inputs([doc EXCEPT !.generator = DetectGenerator])]
                            ELSE images[n]]
           /\ older' = older \ rebuilt
           /\ behind' = (behind \cup ({Fallback(k)} \cap DOMAIN images)) \ rebuilt
    /\ UNCHANGED <<genVars, doc, esp, handBuilt, owned>>

\* Somebody adds a parameter to the entry that is booted.
AddByHand ==
    /\ Idle /\ hands < MaxHands /\ hands' = hands + 1
    /\ DOMAIN entries # {}
    /\ \E t \in {T("quiet", {}), T("rootflags", {"subvol=@", "zstd:1"})} :
            entries' = [entries EXCEPT ![EntryRead].opts = @ \cup {t}]
    /\ UNCHANGED <<initramfsVars, doc, loaders, selected, grubFile, grubDefault, grubCfg, handBuilt, owned>>

Init ==
    \E s \in Scenarios :
        /\ docs = s.docs /\ doc \in s.docs
        /\ hooks = s.hooks /\ extras = {} /\ conf = {} /\ crypttab = {} /\ swapline = FALSE
        /\ dropin = "none" /\ kernels = s.kernels /\ neutral = FALSE
        /\ images = s.images /\ older = {} /\ behind = {}
        /\ loaders = s.loaders /\ selected = s.selected /\ entries = s.entries
        /\ grubFile = ("grub" \in s.loaders) /\ grubDefault = s.grub /\ grubCfg = s.grub
        /\ handBuilt = s.handBuilt
        /\ owned = [kernels |-> {}, dropin |-> FALSE, swap |-> FALSE, boot |-> {}, cmdline |-> {}]
        /\ todo = <<>> /\ pc = "idle" /\ settled = FALSE
        /\ cuts = 0 /\ applies = 0 /\ hands = 0

Next ==
    \/ StartApply \/ Finish \/ Fail \/ Die
    \/ Packages \/ DropFile \/ Swap \/ Conf \/ Crypt \/ Images \/ DracutImage \/ Mkinitcpio \/ Prune
    \/ BootctlRemove \/ SdbootLeftovers \/ GrubLeftovers \/ BootctlInstall \/ LoaderConf
    \/ ArchEntry \/ FallbackEntry \/ FallbackItem \/ GrubInstall \/ GrubMkconfig
    \/ WriteEntry \/ RemoveEntry
    \/ Cmdline \/ Options \/ GrubDefault \/ GrubMkconfigUnchecked
    \/ Edit \/ Sync \/ KernelUpgrade \/ AddByHand

Spec == Init /\ [][Next]_vars

-----------------------------------------------------------------------------
(* Properties *)

\* What opens the root: without these words in the image nothing mounts it.
Opens(from, f) ==
    /\ "luks" \in f => {"sd-encrypt", "systemd-cryptsetup"} \cap from.words # {}
    /\ "btrfs" \in f => "btrfs" \in from.words

\* Where the root is and what unlocks it.
RootTokens(d) == {t \in Desired(d) : t.key \in RootDefining \cup {"rd.luks.name"}}

Says(opts, t) == \E u \in opts : u.key = t.key /\ Equivalent(t, u)

(* After an apply that ended well the machine boots: one loader, the entry *)
(* it takes names a kernel that is installed and an image that was built   *)
(* for that kernel and can open the declared root, and the options carry   *)
(* every parameter the root needs, each of them once.  The plan was made   *)
(* before any kernel, image or entry of this apply existed.                *)
BootsAs(d, entry) ==
    /\ entry.kernel \in DOMAIN kernels /\ entry.image \in DOMAIN images
    /\ LET image == images[entry.image]
       IN /\ image.kver = kernels[entry.kernel]
          /\ d.disks => Opens(image.from, d.features)
    /\ \A t \in RootTokens(d) : Says(entry.opts, t)
    /\ \A t \in RootTokens(d) : Cardinality({u \in entry.opts : KeyOf(u) = KeyOf(t)}) = 1

Bootable ==
    settled /\ cuts = 0 =>
        /\ loaders = {doc.loader}
        /\ IF Sdboot(doc) THEN BootsAs(doc, entries[EntryRead])
           ELSE BootsAs(doc, Entry("linux", Main("linux"), grubCfg))

(* An apply that ended well leaves nothing to do: neither a stale image    *)
(* nor a rescue entry that changed its image, neither hooks worked out     *)
(* from hooks nor a command line with two values for one parameter brings  *)
(* back the same change on every run.  Two cases are planned again for     *)
(* ever: a document that writes out two rootflags (sync captures them so), *)
(* and the rescue entry a switch to GRUB left behind that died between the *)
(* two removals - every plan announces it, no apply removes it.            *)
SecondPlanIsSilent ==
    /\ settled
    /\ Cardinality(RootFlags(doc.explicit)) < 2
    /\ Sdboot(doc) \/ "arch-fallback" \notin DOMAIN entries
    => Planned(doc) = Nothing

(* No step takes an entry its root away: an apply changes where the root   *)
(* is, a document that has stopped saying it does not remove it.  Excepted *)
(* are the entries an installation of the loader writes again from nothing *)
(* but `root rw': Bootable and RescueEntryBoots say what becomes of those. *)
RootStays ==
    [][\A e \in DOMAIN entries \cap DOMAIN entries' :
            \A key \in {"root", "rootflags"} :
                (\E t \in entries[e].opts : t.key = key) /\ entries'[e].opts # BaseOptions(doc)
                    => \E t \in entries'[e].opts : t.key = key]_vars

(* The rescue entry boots the same machine off the same root: after an     *)
(* apply that ended well it carries what the root needs.                   *)
RescueEntryBoots ==
    settled /\ cuts = 0 /\ Sdboot(doc) =>
        \A t \in RootTokens(doc) : Says(entries["arch-fallback"].opts, t)

\* Under dracut, of a document that asks it for something (desired_value is
\* empty otherwise, and then nobody looks at the images): is the plan silent?
SilentOnImages ==
    /\ pc = "idle" /\ doc.generator = "dracut" /\ DracutConf(doc.features) # {}
    /\ ~PlansInitramfs(doc, owned.dropin)

BootImages == {Main(k) : k \in DOMAIN kernels} \cup {Fallback(k) : k \in DOMAIN kernels}
WithoutSwap(from) == [from EXCEPT !.tab = @ \ {"swap"}]

(* A plan that is silent about the images means that each kernel's own     *)
(* image and its rescue image were built for the kernel that is installed, *)
(* from the configuration, the crypttab and the drop-in there are now: the *)
(* plan itself sees modification times only, and runs that died or failed, *)
(* pacman's hooks, switches of generator and upgrades came in between.     *)
(* Excepted is what the times do not show: an image mkinitcpio built while *)
(* this very configuration of dracut's was there, after a switch back that *)
(* was cut before the images; and a line the swap action has taken out of  *)
(* the crypttab in a run that ended before it came to the images.          *)
SilentMeansBuilt ==
    SilentOnImages => \A n \in BootImages :
        /\ n \in DOMAIN images
        /\ images[n].kver = kernels[n[1]]
        /\ CASE images[n].from.gen = "dracut" ->
                    WithoutSwap(images[n].from) = WithoutSwap(Inputs(doc))
             [] images[n].from.gen = "mkinitcpio" -> images[n].from.beside = conf
=============================================================================
