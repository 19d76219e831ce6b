----------------------------- MODULE Initramfs -----------------------------
(***************************************************************************)
(* The initramfs images and the configuration they are built from          *)
(* (lib/actions/initramfs/, initramfs_action.py,                           *)
(* initramfs_orphans_action.py, encrypted_swap_action.py).  An image is    *)
(* what its inputs were when it was built; modification times are kept as  *)
(* the set of images older than a file of dracut's (`older'; nobody looks  *)
(* at the times of mkinitcpio's files) or than the kernel they boot        *)
(* (`behind').                                                             *)
(***************************************************************************)
EXTENDS Naturals, Sequences, SequencesExt, FiniteSets

CONSTANT PresetFallback     \* does the preset of mkinitcpio build a fallback image

VARIABLES
    hooks,      \* HOOKS of /etc/mkinitcpio.conf
    extras,     \* the words of dasik's mkinitcpio drop-in
    conf,       \* the words of dasik's dracut configuration, {} if absent
    crypttab,   \* the mappings of /etc/crypttab
    swapline,   \* does /etc/fstab name the random-key swap
    dropin,     \* somebody's file among dracut's drop-ins
    kernels,    \* installed kernel -> its version
    neutral,    \* mkinitcpio's hooks are overridden, dracut is installed
    images,     \* name -> what the image was built from
    older,      \* images older than dracut's configuration
    behind      \* fallback images older than their kernel

genVars == <<hooks, extras, conf, crypttab, swapline, dropin, neutral>>
imageVars == <<images, older, behind>>
initramfsVars == <<genVars, kernels, imageVars>>

Main(k) == <<k, "main">>
Fallback(k) == <<k, "fallback">>
Kver(v) == <<v, "kver">>        \* initramfs-<kver>.img

-----------------------------------------------------------------------------
(* mkinitcpio: the hooks are worked out from the ones on disk. *)

Where(h, s) == SelectInSeq(s, LAMBDA x : x = h)
Without(h, s) == SelectSeq(s, LAMBDA x : x # h)
Before(h, new, s) == InsertAt(s, Where(h, s), new)
After(h, new, s) == InsertAt(s, Where(h, s) + 1, new)

\* The first of these hooks there is, or "none".
FirstOf(candidates, s) ==
    IF \E c \in ToSet(candidates) : Contains(s, c)
    THEN candidates[SelectInSeq(candidates, LAMBDA c : Contains(s, c))]
    ELSE "none"

KeyboardEarly(s) ==
    IF {"keyboard", "autodetect"} \subseteq ToSet(s)
    THEN Before("autodetect", "keyboard", Without("keyboard", s)) ELSE s

SystemdHook(h, f) ==
    CASE h = "udev"   -> <<"systemd">>
      [] h = "keymap" -> <<"sd-vconsole">>
      [] h = "block"  -> <<"block", "sd-encrypt">>
      [] h \in {"usr", "consolefont"} -> <<>>
      [] h = "resume" /\ "hibernate" \notin f -> <<>>
      [] OTHER        -> <<h>>

ForEncryption(f, s) ==
    IF "luks" \in f THEN FlattenSeq([i \in DOMAIN s |-> SystemdHook(s[i], f)]) ELSE s

ForBtrfs(f, s) ==
    LET anchor == FirstOf(IF "luks" \in f THEN <<"systemd">> ELSE <<"resume", "usr", "udev">>, s)
    IN CASE "btrfs" \notin f \/ Contains(s, "btrfs") -> s
         [] anchor # "none" /\ "btrfs" \in f /\ ~Contains(s, "btrfs") -> After(anchor, "btrfs", s)
         [] OTHER -> InsertAt(s, 2, "btrfs")

\* Before the root is mounted, after the device is open.
ForResume(f, s) ==
    LET anchor == FirstOf(<<"filesystems", "fsck">>, s)
    IN CASE "hibernate" \notin f \/ Contains(s, "resume") -> s
         [] anchor # "none" /\ "hibernate" \in f /\ ~Contains(s, "resume") ->
                Before(anchor, "resume", s)
         [] OTHER -> Append(s, "resume")

\* After the device manager, before the hook that asks for the passphrase.
ForPlymouth(f, s) ==
    LET after == FirstOf(<<"systemd", "udev", "base">>, s)
        first == IF after = "none" THEN 1 ELSE Where(after, s) + 1
        crypt == {i \in DOMAIN s : s[i] \in {"sd-encrypt", "encrypt"}}
        at == CHOOSE i \in {first} \cup crypt : \A j \in {first} \cup crypt : i <= j
    IN CASE "plymouth" \notin f -> Without("plymouth", s)
         [] "plymouth" \in f /\ Contains(s, "plymouth") -> s
         [] OTHER -> InsertAt(s, at, "plymouth")

\* Mutant: hooks inserted again stay.
KeepsAll(s) == s

Deduped(s) == FoldLeft(LAMBDA acc, h : IF Contains(acc, h) THEN acc ELSE Append(acc, h), <<>>, s)

Compute(f, s) ==
    Deduped(ForPlymouth(f, ForResume(f, ForBtrfs(f, ForEncryption(f, KeyboardEarly(s))))))

\* The drop-in is a file of its own so that its words can be taken back.
MkinitcpioDropin(f) ==
    (IF "keydev" \in f THEN {"vfat", "nls_cp437", "nls_iso8859-1"} ELSE {})
        \cup (IF "keyfile" \in f THEN {"keyfile"} ELSE {})
        \cup (IF "plymouth" \in f THEN {"theme"} ELSE {})

-----------------------------------------------------------------------------
(* dracut *)

AddModules(f) ==
    (IF "btrfs" \in f /\ "luks" \notin f THEN {"btrfs"} ELSE {}) \cup (f \cap {"bluetooth"})

ForceModules(f) ==
    (IF "luks" \in f THEN {"crypt", "systemd", "systemd-cryptsetup"} \cup (f \cap {"btrfs"})
     ELSE IF f \cap {"fido2", "tpm2"} # {} THEN {"systemd"} ELSE {})
        \cup (f \cap {"fido2", "tpm2", "plymouth"})
        \cup (IF "hibernate" \in f THEN {"resume"} ELSE {})

DracutConf(f) == AddModules(f) \cup ForceModules(f) \cup (f \cap {"keydev", "keyfile"})

\* The declared volumes, and the lines a captured file keeps for others.
Crypttab(f, captured) ==
    (IF "luks" \in f THEN {"root"} ELSE {}) \cup (IF "swap" \in f THEN {"swap"} ELSE {})
        \cup captured

ImagesCurrent ==
    \A k \in DOMAIN kernels :
        /\ {Main(k), Fallback(k)} \subseteq DOMAIN images \ older
        /\ Fallback(k) \notin behind

-----------------------------------------------------------------------------
(* Plan *)

\* ScalarV3Action.plan over each backend's desired_value and actual_value.
ValueDiffers(doc) ==
    IF doc.generator = "dracut" THEN
        /\ DracutConf(doc.features) # {}
        /\ \/ conf # DracutConf(doc.features)
           \/ LET wanted == Crypttab(doc.features, doc.captured)
              IN wanted # {} /\ crypttab # wanted
           \/ ~ImagesCurrent
    ELSE \/ Compute(doc.features, hooks) # hooks
         \/ extras # MkinitcpioDropin(doc.features)

\* Both packages may be there: who owns the images is what counts.
DetectGenerator == IF neutral THEN "dracut" ELSE "mkinitcpio"

\* The plan is made before the files are written: declared content decides.
DropinDrift(doc, ownsDropin) ==
    /\ doc.generator = "dracut"
    /\ \/ doc.dropin # "none" /\ dropin # doc.dropin
       \/ doc.dropin = "none" /\ ownsDropin /\ dropin # "none"

PlansInitramfs(doc, ownsDropin) ==
    \/ ValueDiffers(doc)
    \/ DetectGenerator # doc.generator
    \/ DropinDrift(doc, ownsDropin)

\* Only images named by kernel version that no entry and no kernel claims.
Orphans(referenced, handBuilt) ==
    IF DOMAIN kernels = {} THEN {}
    ELSE {n \in DOMAIN images : n[2] = "kver" /\ n \notin referenced /\ n[1] \notin handBuilt}

\* dracut composes /etc/crypttab, but only when there is encryption to compose.
DracutOwnsCrypttab(doc) == doc.generator = "dracut" /\ "luks" \in doc.features

\* A random-key swap has a line in each file, or in the one that is not dracut's.
PlansSwap(doc, ownsSwap) ==
    IF "swap" \in doc.features
    THEN ~swapline \/ (~DracutOwnsCrypttab(doc) /\ "swap" \notin crypttab)
    ELSE ownsSwap /\ (swapline \/ "swap" \in crypttab)

-----------------------------------------------------------------------------
(* Apply *)

\* What a generator run now would bake in; of mkinitcpio's, `beside' is the dracut
\* configuration that was there, which it does not read.
Inputs(doc) ==
    IF doc.generator = "dracut"
    THEN [gen |-> "dracut", words |-> conf, tab |-> crypttab, dropin |-> dropin, beside |-> {}]
    ELSE [gen |-> "mkinitcpio", words |-> ToSet(hooks) \cup extras, tab |-> {}, dropin |-> "none",
          beside |-> conf]

Built(doc, k) == [kver |-> kernels[k], from |-> Inputs(doc)]

Build(doc, names) ==
    /\ images' = [n \in DOMAIN images \cup names |->
                    IF n \in names THEN Built(doc, n[1]) ELSE images[n]]
    /\ older' = older \ names
    /\ behind' = behind \ names

Delete(names) ==
    /\ images' = [n \in DOMAIN images \ names |-> images[n]]
    /\ older' = older \ names
    /\ behind' = behind \ names

MkinitcpioImages ==
    {Main(k) : k \in DOMAIN kernels} \cup (IF PresetFallback THEN {Fallback(k) : k \in DOMAIN kernels} ELSE {})

WriteSwapLines(doc) ==
    /\ swapline' = ("swap" \in doc.features)
    /\ crypttab' = CASE "swap" \notin doc.features -> crypttab \ {"swap"}
                     [] "swap" \in doc.features /\ ~DracutOwnsCrypttab(doc) -> crypttab \cup {"swap"}
                     [] OTHER -> crypttab
    /\ UNCHANGED <<hooks, extras, conf, dropin, neutral, kernels, imageVars>>

\* Mutant: dasik.conf is the only input.
OnlyOurConf(content) ==
    /\ dropin' = content
    /\ UNCHANGED <<hooks, extras, conf, crypttab, swapline, neutral, kernels, imageVars>>

\* Every file among dracut's drop-ins, and the directory, are inputs.
WriteDropin(content) ==
    /\ dropin' = content
    /\ older' = DOMAIN images
    /\ UNCHANGED <<hooks, extras, conf, crypttab, swapline, neutral, kernels, images, behind>>

WriteConf(doc) ==
    /\ IF doc.generator = "dracut"
       THEN conf' = DracutConf(doc.features) /\ older' = DOMAIN images /\ UNCHANGED <<hooks, extras>>
       ELSE /\ hooks' = Compute(doc.features, hooks)
            /\ extras' = MkinitcpioDropin(doc.features)
            /\ UNCHANGED <<conf, older>>
    /\ UNCHANGED <<crypttab, swapline, dropin, neutral, kernels, images, behind>>

WriteCrypttab(doc) ==
    /\ LET wanted == Crypttab(doc.features, doc.captured)
       IN crypttab' = IF doc.generator = "dracut" /\ wanted # {} THEN wanted ELSE crypttab
    /\ UNCHANGED <<hooks, extras, conf, swapline, dropin, neutral, kernels, imageVars>>
=============================================================================
