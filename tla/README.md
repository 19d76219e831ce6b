# Verification of dasik

TLA+ models of [dasik](../src/README.md), a declarative manager for Arch Linux
machines: the administrator writes a document, `dasik apply` makes the machine
agree with it, and a *manifest* of what dasik owns tells, on later runs, what
may be taken back. The models are translated from the code; TLC checks them on
small instances, and TLAPS proves the main results for instances of any size.

To check it: `tlc -config MCDasikSequential.cfg MCDasik` (and the other
configurations, listed in section 3) and `tlapm DasikProofs.tla` (and the other
modules named `...Proofs`).

## 1. The system

| Component (under `src/dasik/`) | State it keeps | Operations | What is hard | What makes it correct |
|---|---|---|---|---|
| **Commands** `__main__.py` | config file, process | `apply`, `rollback`, `sync`, `generations --prune`, `plan`, `check`, `upgrade`, `save` | which of them lock, what they read before a prompt and use after it | one reconciler at a time; every command ends |
| **Reconciler** `lib/reconciler/` | the plan, the manifest to be | `build_plan`, `apply`, `_persist`, `sync` | an action failing half way; the order of the four writes of `_persist` | a complete apply delivers its config; nothing is disowned by a failure |
| **Set math** `lib/state/set_math.py`, `change.py` | none | `compute_changes` | its precondition | a second plan is empty; only owned or forbidden items are removed |
| **Generation store** `lib/state/generation_store.py` | `generations/N/{config,state}.json`, the link `current` | `new`, `list`, `prune`, `restore` | not atomic: a crash leaves a half-written directory | history is append-only; something to roll back to is always left |
| **State store** `lib/state/state_store.py` | `state.json` | `load`, `save` (atomic) | out of step with history after a crash | never counts further than history |
| **Apply lock** `lib/state/apply_lock.py` | a flock | enter, exit, released by the kernel on death | taken late; sometimes unavailable | mutual exclusion of applies |
| **Expansion, config writer** `lib/expand/`, `lib/state/config_writer.py` | none | `expand_config`, `subtract_contributions`, `merge` | validated before it is expanded; captured raw, planned expanded | what a block contributes is neither written back nor disowned |
| **Actions** `lib/actions/` | the machine, one domain each | `plan`, `apply`, `managed_keys`, `import_state` | each has its own failure policy and reads the machine its own way | plan after apply is empty |
| - packages, with resolver, conflicts, AUR and Git installers, `validation/aur_closure.py` | packages and install reasons, build user, sudoers fragment | | four kinds of source, two failure policies, nested sessions | claims what is there, leaves no privilege behind, comes to rest |
| - disk, LUKS key file and tokens | partitions, filesystems, keyslots, mounts | | destructive; most commands unchecked; planned before anything exists | nothing erased unasked; a volume can always be opened |
| - btrfs subvolumes | subvolumes, mounts, fstab | | moves data on a running machine | no file lost or hidden; the machine boots |
| - initramfs, boot loader, command line | images, ESP entries, parameters | | three writers of one entry, freshness by mtime | always something that boots |
| - users, home files, files of `/etc`, swap lines | accounts and files | | secrets, links, two writers of one file | never readable by others, never anybody else's file |
| - firewall, snapper | zones or rules, configs and snapshots | | configured before their packages are there | what is dropped is closed; no snapshot is orphaned |
| - uv tools, AI skills, MCP servers | somebody else's registries in users' homes | also `upgrade` | installers that lie, share directories, lose caches | a silent plan means usable |
| - cpu, reflector, plymouth, apparmor, network, containers, wireguard, ... (feature blocks) | lists of the other actions | `import_state` rebuilds a block | read back from what they contribute | sync, then plan, is silent |
| **Preflight, models** `lib/validation/`, `lib/models/` | none | predicates over a document | | the rules the above depend on are modelled |

`apply` calls the actions in the order of the registry, hands each one the
manifest through a shared context, and collects what each claims
(`managed_keys`). The stores and the lock are files shared by every dasik
process on the machine; the machine is shared with the administrator, who may
act between any two steps. `PROJECT.json` lists every component with its files
and its status, and the places in the code that are hard to test ("hazards")
with the property that watches each.

## 2. The modules

The core models the commands as concurrent processes over abstract domains. Each
group of actions is then modelled in detail by modules of its own: one per
action or part of the machine, and one that composes them in one apply, in the
registry's order, with its record of what dasik owns.

### The core

| Module | Models |
|---|---|
| `SetMath` | `compute_changes` over any sets: installs, owned and forced removals, drift |
| `ConfigDocument` | the document (what it declares on, off, through blocks), its validity, expansion, capture and merge |
| `GenerationStore` | the history: entries with a config and a manifest, either of which may be missing, and `current`; `_next_number`, `list`, `prune` |
| `Dasik` | the commands, as processes with a label each: one action per read, change or file operation |
| `Ownership` | the abstract specification: what dasik promises the administrator |
| `DasikProperties` | the properties of the core |
| `MCDasik`, `MCDasik*.cfg` | instances |
| `DasikProofs`, `ConvergenceProofs`, `HistoryProofs` | theorems and proofs, section 6 |

A process `p` of `Dasik` runs one command at a time; `run[p]` is what it has in
memory: its label, the expanded config, the manifest it *loaded* (`seen`), the
changes not yet attempted, the action it is in, the manifest it will persist
(`fresh`). An `apply` goes

    StartApply -> Load -> BuildPlan -> AcquireLock | LockBusy -> Proceed | Decline
      -> (AddItem | DropItem | ChangeFails)* NextAction ... AllApplied
           | ActionRaises -> PersistPartial
      -> PickNumber, MakeGeneration, WriteConfig, WriteState,
         UnlinkCurrent, LinkCurrent, SaveState, Release

in the order of `_cmd_apply`, `Reconciler.apply`, `_persist` and
`GenerationStore.new`. Loading comes before locking because that is what the
code does. `Die` ends a process anywhere and frees its lock; half-written
generations stay. `rollback` takes the same path without the lock.

Abstractions: an item is a package, a unit, a file; domains are disjoint sets of
items, numbered by their place in the registry; an action's changes within its
turn come in any order allowed by the code (additions first). The actions are
modelled on the systemd action, the one whose plan is `compute_changes` with all
four sets. `action_state`, which the reconciler only carries along, is not
tracked. `state.json` is always valid JSON, because its write is atomic.

Four variables are not in the code: `moved` (what others changed since a command
planned), `named` (what some config named), `placed` (what dasik put there) and
the counters of the bounds. No guard but a bound reads them.

### The packages action

| Module | Models |
|---|---|
| `AurClosure` | `validate_aur_closure`, one step for a level of its breadth-first walk |
| `Pacman` | the pacman dasik drives (external): transactions, reasons, conflicts, `-Rns` |
| `Packages` | the action: `plan`, `apply` as a state machine, `managed_keys`, `state_metadata`, `import_state`, and both installers |
| `MCPackages` | the instance |

`job` is what `PackagesAction.apply` has in memory. Its labels follow the method:

    resolve -> gate -> repo (-> clear -> retry) (-> salvage) -> optional
      -> git (clone, hook, rewrite, makepkg)* -> aur (build)* -> reasons -> remove -> record

An installer's session is three things at once: the build user, the sudoers
fragment that lets it elevate, and the builds. The two installers share the
first two, and one of them can run inside a session of the other
(`HookInstalls`); `Cleanup` is on every way out of a session except a death.

Abstractions: names instead of version constraints; the AUR build of a Git
package's dependencies is one step that happens as a whole; what the AUR helper
does with its batch follows its documented behaviour (go on with what does not
depend on a failure); when dasik resolves AUR packages itself, the whole batch is
ordered before anything is built. An `apply` whose plan is empty records its claims as one with changes in
another domain does. `moved` and `swept` are not in the code: what others
changed, and what `-Rns` swept, while an apply runs.

### The groups of actions

They are built alike. `StartApply` makes the whole plan from what the machine
shows at that moment; `todo` (or `pc` and `work`) is what the apply has left.
Every command, system call or file written is a step, which reads again what the
code reads again. A step may fail as its code lets it (raise, go on, be noticed
by nobody), and the process may die between any two. The manifest is recorded
as `_build_new_manifest` does it, whole or partial. `settled` (or `ok`,
`outcome`) is a ghost: the last apply ended well and nothing has happened since.
The administrator edits the document, changes the machine by hand and syncs,
between two applies.

| Modules | Model | Composed in |
|---|---|---|
| `Disks`, `Luks` | where partitions begin and end, in tenths of a MiB as the code prints them; partitioning to mounting, a disk as extents and what lies at each start; keyslots and the tokens that name them | `Storage`, proved about in `StorageProofs` |
| `Subvolumes`, `SubvolumesProofs` | day-2 adds, moves and removals, with files, mounts and fstab; all four of its properties proved | itself |
| `Initramfs` | both generators: hooks, modules, crypttab, images as what their inputs were when they were built | `Boot`, with the loaders, entries and the merge of parameters |
| `Firewall`, `Snapper` | both backends, the daemon apart from its files; configs, and snapshots that mounts hide | `Services`, with the packages and units they need, proved about in `ServicesProofs` |
| `FileTree`, `Users`, `HomeFiles`, `DropFiles` | system calls on files, links and modes; accounts; what three actions do with them | `Files`, with `/etc/crypttab` and systemd's reload, proved about in `FilesProofs` |
| `UvTools`, `Skills`, `McpServers`, `Installers` | three domains that drive other people's installers; what the installers do (external) | `Tooling`, with `upgrade` |
| `Contributions` | `toggles.py`, `expand_config`, `subtract_contributions`, the preflight rules they rest on | `Blocks`: apply and sync of a document with blocks, on the lists the blocks feed |

`MC<Name>.tla` and `.cfg` give each its instance.

**Storage.** One apply from plan to mount. Most commands are run unchecked, so
`Unchecked` either does its work or silently does not. A partition's content
stays on the disk at its start until something else is made there: what was not
wiped is still there after a new table. A header that cannot be read counts as
empty (`Dumps`); the run leaves that out (`HeaderReads = {TRUE}`), see below.
A partition gets the number parted gives it, the lowest free one, whatever dasik
takes it to be; parted refuses one that overlaps another (`Acceptable`). The
listing of partitions may fail apart from the other probes, and then counts as
empty (`outcome = "misled"`). The machine may start with an encrypted system.
The size of the disk can always be read.

**Subvolumes.** A file is what lies in a directory of a subvolume, and is
reachable through the mounts of the moment. Services write by path and
atomically; nested subvolumes are made only between applies; the root subvolume
is mounted at `/` and the disk is converged; the check that a path is idle is a
choice. Services never write in the directory a fill puts aside
(`.dasik-moving`), and a boot mounts nothing for a line whose subvolume is gone.

**Boot.** A parameter is a key and a set of words, the order of a line is left
out. An image is stale when some input is newer (`older`) or the kernel it boots
is (`behind`): that is all the plan sees. What an image was built from (`from`,
and for one of mkinitcpio's the configuration of dracut's that lay `beside` it) is a
ghost, and `SilentMeansBuilt` compares it with what there is. pacman's
hooks build images of new kernels and may build others.
`PresetFallback` (a preset that builds a fallback image) is `FALSE` in both runs,
as Arch ships it; the properties hold with `TRUE` as well. `HooksMayFail` is
`FALSE`: with a hook that leaves a new kernel without images the apply ends well
and its next plan is not silent, for that is when dasik first sees it.

**Services.** snapper's `create-config` refuses a taken name, subvolume or
`.snapshots` (from how it is used). No snapshot is taken during an apply, and no
zone file is torn. `createCut` and `interrupted` are ghosts for what a cut leaves
that no plan can see.

**Files.** A content is a set of lines; `File`, `Dir` and `Link` carry owner and
whether others may read. A reload of systemd may fail without anybody noticing.
`halfMade` and `unread` are ghosts for what a cut run or a failed reload leaves
unnoticed.

**Tooling.** A home is what each agent's files say plus what is really on disk;
`Works` and `After` say what an installer's command does, which is sometimes
nothing, or something else, with a good exit. Of claude's plugins it is known
which repository their files are from, and of its marketplaces the clone apart
from the registration. Names, pins, versions and toml are
abstracted to what the comparisons tell apart.

**Blocks.** An item is a package, unit, instance of a template, file, home file
or group. The content of a file is who formatted it and what it says. Blocks that
are captured as they are declared (`config_saver`, firewall, ...) only
contribute.

## 3. What is checked

| Run | Instance | Distinct states | Shows |
|---|---|---|---|
| `sequential` | one process, all four commands, 3 items in 2 domains, a block, 2 failures or deaths | 1,300,000 | stores, ownership, rollback, prune, sync and convergence survive a failure, interrupt or death at any point |
| `concurrent` | two processes, all four commands | 546,000 | mutual exclusion, convergence beside others, no command is stuck |
| `packages` | one apply at a time, 6 configs, 13 packages, 2 faults, 2 acts of the administrator | 757,000 | the packages action |
| `storage` | a 3 GiB disk, blank, in use or holding an encrypted system, 5 layouts, 3 ways to unlock, a failure and a death | 1,885,000 | nothing is erased unasked, what is mounted is what is declared, a volume can be opened |
| `subvolumes` | 3 subvolumes, 4 paths, one nested, 3 edits, one cut | 2,475,000 | no file is lost or hidden, the machine boots |
| `boot` | 7 machines, 8 documents, 2 cuts, 4 applies | 472,000 | something boots, a silent plan means images built from what is there |
| `services` | 5 machines, 2 subvolumes, 2 cuts, 4 applies | 1,260,000 | what is dropped is closed, snapshots stay |
| `files` | 4 machines, 2 cuts, 3 applies, 2 acts by hand | 3,469,000 | secrets, links, ownership |
| `tooling` | 8 machines, 2 cuts, 3 applies, 2 acts by hand | 671,000 | declared plugins can be loaded, nothing false is claimed |
| `blocks` | 8 families of documents, a cut, 3 applies, 2 acts by hand | 230,000 | blocks through apply, sync and hand-made changes |

The properties, each commented where it is defined, are meant to be hard to
break by one wrong line and easy to break by a wrong order.

*Core.*

* `OneApplyAtATime`: two applies exclude each other.
* `StoresStaySound`: what a crash between the writes of `_persist` may leave
  behind (`CurrentIsWhole`, `ManifestBehindHistory`); no generation mixes two
  applies (`GenerationCoherent`, for one process at a time: a rollback beside an
  apply does mix them); rollback re-applies only a
  generation that was reached (`RollbackToCompleteOnly`); prune leaves one
  (`PruneKeepsARollback`, which exempts half-written directories).
* `ApplyConverges`: what a complete apply recorded is what is there, up to what
  others moved meanwhile.
* `OwnershipSurvives`: a capture never sets up a removal, and what dasik placed
  is owned or declared while nothing has failed.
* `RecordsAreKept`: no generation is rewritten, and no failure makes dasik
  forget what it owns.
* `KeepsOwnershipPromise`: the commands implement `Ownership`.
* `CommandsEnd`, `EventuallyConverged`, `EventuallyQuiet`: liveness, section 5.

*Packages.*

* `RecordIsTrue`: after an apply declared packages have the declared reason,
  what is claimed is there, under `abort` a failed build is built again, and a
  sync plans no removal. It leaves out what others moved, what `-Rns` swept as an
  unneeded dependency, and names met only by a provider that the same plan
  removes: the code does lose these, and the next plan shows them.
* `BuildsAreSound`: the shared build account is there while anything builds,
  its privilege is gone afterwards, and the closure gate blames only roots that
  cannot be had and misses no batch with one.

*Machine.*

* `ErasesOnlyWhenAsked`: without `wipe_disk` no step of an apply costs a
  filesystem that was there before it, those another tool made after the plan
  included; it exempts an apply that was told of no partitions, see below.
* `MountedAsDeclared`, `StillOpens`, `UnlockSettles`.
* `NothingLost`, `NothingHidden`, `FstabNamesExisting`.
* `Bootable`, `RootStays` (which lets a loader that is installed anew write its
  entries from scratch, `BaseOptions`).
* `SilentMeansBuilt`: when the plan is silent about the images, each kernel's image
  and rescue image were built for the kernel that is installed and from the
  configuration, crypttab and drop-in there are. The plan compares times only;
  what they do not show is excepted, see below.
* `UndeclaredIsClosed`, `DaemonEnforcesFiles`, `NoOrphanedSnapshots`,
  `DeclaredSnapshotsStay`.
* `SecretsStayPrivate`, `TouchesOnlyItsOwn`.
* `AppliedIsInForce`: what no plan reads, systemd's copy of its files and the
  owners of directories, is right after an apply that ended well. It excepts files whose
  reload was cut or failed, see below.
* `AppliedIsLoadable`: after an apply in which nothing failed the files of the
  declared claude and agy plugins are there, claude's marketplace is cloned, and
  both come from the declared repository. The plan looks at the files of a plugin
  and at the registration of a marketplace, never at the clone. Codex's
  `config.toml` is believed, so nothing is said of codex's files.
* `ClaimsAreTrue`, `OthersKeepTheirSkills`.
* `TurnedOffIsTakenBack`.
* `SecondPlanIsSilent` in four modules, `PlansEndSilent` and
  `SyncedPlanIsSilent`: plan, apply, plan, and sync, plan, end silent
  (`docs/wiki/Sync.md:27`, `Workflows.md:128`). Each is about what its own group
  can get wrong: fstab lines, two writers of one file, hooks worked out from
  hooks, unit instances no listing shows, blocks rebuilt from the machine.

### Where the code and its documentation disagree

Two are runs that TLC finds violated; `PROJECT.json` quotes both sides.

| Run | Property | What happens |
|---|---|---|
| `two_applies` | `DisownsOnlyWhatItSaw` | the manifest is loaded before the lock is taken, so an apply that waited drops the ownership the other one recorded |
| `boot_rescue` | `RescueEntryBoots` | a rescue entry added later carries `root=… rw` alone: on a subvolume root it does not boot, and no plan notices |

The others were met in the same way, and are kept out of what the passing
properties promise:

* **rollback without the lock** (`__main__.py:897`; `apply_lock.py:1`: "One apply
  at a time, per target").
* **prune after two power cuts**: a directory without `state.json` counts as
  complete and is kept instead of the last one rollback can restore
  (`generation_store.py:64-69`, against its comment at 95-97).
* **sync disowns a domain it could not read** (`reconciler.py:390`, against
  `docs/wiki/Sync.md:112-114`).
* **a failing action's own work is owned by nobody** (`reconciler.py:473-480`,
  against `docs/wiki/README.md:87`).
* **a unit enabled by a block and disabled by hand** passes validation and never
  settles (`expand/__init__.py:60-64`; precondition at `set_math.py:43`).
  `ConvergenceProofs!OverlapNeverSettles` proves the second half.
* **a parted that cannot list the partitions** counts as an empty disk
  (`disk_partition_action.py:1205-1207`, against the "Fail SAFE" of the probe
  next to it, 1151-1157). When another tool partitioned the disk between plan and
  apply, dasik then numbers its own partitions from 1 and formats the other
  tool's. The proof of `NothingIsErased` does not go through without leaving it
  out, and TLC finds it when it is not.
* **subvolumes are mounted in the order they are declared in**
  (`disk_partition_action.py:1694-1709`), against "so parents mount before
  children" (1619): only partitions are sorted. The proof of
  `DeclaredIsMounted` needs `Arranged` for it.
* **a dropped group takes a declared member with it**
  (`packages_action.py:536-551`, against `README.md:71`).
* **a failed rebuild under warn-and-continue is recorded as applied**
  (`packages_action.py:956-979`, against 1425-1426).
* **a failed removal of a skill, plugin or server under warn-and-continue** is
  dropped from the manifest (`ai_skills_action.py:1169-1176`, against its comment
  at 1003-1007; `mcp_servers_action.py` and `uv_tools_action.py` likewise): it
  stays, owned by nobody, and the plan is silent.
* **sync adopts a block nobody declared**: a package `reflector` written by hand
  becomes a `reflector` block made of the stock configuration
  (`reflector_action.py:80-99`), and the next plan enables its timer; docker
  becomes a `containers` block that puts every user into its group
  (`containers_action.py:191-265`). `SyncedPlanIsSilent` leaves these out.
* **the tmpfiles entry of the audit** is contributed as a file and captured as
  one of `tmpfiles_d`: sync writes it down twice, and turning apparmor off leaves
  it, against `expand/__init__.py:7-9`.
* **the keyfile of a converted tunnel** is never deleted when the tunnel is
  dropped (`wireguard_action.py:107-141`, against `Workflows.md:30`).
* **a locked password** is captured as a document that the model refuses
  (`users_action.py:227-238`, `user_model.py:44-52`).
* **a plain root under dracut** has an empty `desired_value`, against
  `dracut.py:249-253`, so nobody looks at its images (`SilentMeansBuilt` asks for
  a document that wants something of dracut).
* **a dropped swap stays in the images**: under dracut the swap action takes the line
  out of the crypttab itself (`encrypted_swap_action.py:167-176`), long before the
  images are rebuilt (`actions_handler_v2.py:266`, `:414`). An apply that ends in
  between leaves a crypttab that is what dracut would compose, a `dasik.conf` that did
  not change and images with the old one; the time of the crypttab is compared with
  nothing, so every later plan is silent, against `dracut.py:227-232` ("would be
  invisible and the initramfs would keep a stale crypt setup").
  `SilentMeansBuilt` leaves that line out (`WithoutSwap`).
* **images of mkinitcpio under dracut's configuration**: a document that goes to
  mkinitcpio and back, with an apply that built mkinitcpio's image and a return
  that died before the images, leaves that image newer than a `dasik.conf` that
  did not change, and the plan silent, against `dracut.py:249-253` ("or an image
  later clobbered by mkinitcpio"). `SilentMeansBuilt` leaves it out (`beside`).
* **a reload of systemd that fails** (`drop_files_action.py:594`, unchecked) ends
  well, is reported as "changed and systemd was reloaded" (597-600) and is
  repeated by no later plan: systemd keeps the unit it had. `AppliedIsInForce` leaves
  the files concerned out (`unread`).
* `docs/wiki/Packages.md` gives the AUR before `package_sources`, while `apply`
  builds Git sources first; `README.md` writes REMOVE as
  `(owned ∩ actual) \ declared` while `compute_changes` takes `owned \ declared`.

### What the models show beside the properties

These need several misfortunes, or are behaviour a reader may not expect; the
properties name the exceptions they force.

*Disks and LUKS.* A failed `mkfs` goes unnoticed and the old filesystem is
mounted; after a crash between `mkfs` and `mount` the next plan is silent and
nothing is mounted; after one behind `mklabel` a disk without `wipe_disk` is
refused for good; with `wipe_disk`, a failed `lsblk` or a closed LUKS volume
makes a converged disk planned for erasure. Sizes in percent, and rounding,
escape `_validate_sizes`. A header unreadable while planning has its tokens
enrolled again, while syncing has them disowned, while wiping loses both FIDO2
keys; skipped tokens are owned; a wipe takes the highest slot, which may be one
enrolled by hand; a key file a dead `dd` left half-written is enrolled by the
retry.

*Subvolumes.* The clean-up after a failed copy back empties the directory it
copied to (`btrfs_subvolume_action.py:666-668`), files written there meanwhile
included (`exposed`); a move together with a nested addition moves data though
nothing in the plan is marked destructive; two interruptions in a row leave a line
in fstab for a subvolume that is later deleted; a crash between dropping the
line and deleting makes the removal refused from then on; after an unreadable
fstab a one-line fstab is written.

*Boot.* An installed kernel without an image counts as "not declared" though the
warning says the next plan asks again; a crash after `bootctl install` leaves no
`arch.conf` for good; one after `bootctl remove`, with the document reverted,
leaves an entry with `root` alone; removing a loader removes every entry of a
shared ESP; a switch to GRUB that dies between the two removals announces the
rescue entry with every plan; an entry captured with two `rootflags` never
settles; mkinitcpio has no check of freshness, so an image that got old is not
noticed.

*Firewall and snapper.* A change of backend while enabled leaves the other one's
rules; a crash between the zone and the reload leaves the daemon with the old
ones under a silent plan; ufw turned off by hand enforces a rule again that was
dropped meanwhile; sync turns a disabled firewalld into `enable: true`. A
config renamed on one subvolume can never be applied; one declared for another
subvolume under its old name stays what it was, and a document that exchanges names
deletes snapshots it wants (section 6); a crash between removing a
config and unlisting it leaves its name; one inside create hides snapshots after
the reboot.

*Files.* A crash between `makedirs` and `chown` leaves directories of root in a
home, one between a write and the reload, or a reload that fails, leaves systemd with
the old unit; an
account already gone makes every apply fail until a sync; a unit enabled by
`systemd` whose file is in `files` never settles; `_check_parent` looks at the
last directory only; a home elsewhere than in `/home` raises `KeyError` at the
first apply; captured home files lose their mode.

*Tooling.* Sync forgets plugins of codex's own catalog and captures
marketplaces the plan calls unusable; a changed source of a claude marketplace
drops its plugins (`moved`); a codex plugin of an old source stays, and so does a
clone of a marketplace that is gone until a plugin is installed from it; a locked
skill taken from one universal agent stays readable to it; a change whose add
fails after its remove leaves nothing until the next apply; uv tools are captured
as all users times all tools (`ToolsAlike` keeps `SyncedPlanIsSilent` out of that).

*Blocks.* Sync flips `network` when both managers are enabled, `rootless` when
`useradd` wrote id maps, and rewrites a converted tunnel as a key file that
another action then deletes (`BothOwn`); a tunnel left by a change of backend is
captured a second time; NetworkManager replaced by hand is planned for removal;
kvm puts a user made by hand into libvirt's group; instances enabled before a
sync and declared by no block are disowned; sync runs no preflight.

## 4. Bounds

Bounds are guards named `Max...`; they limit how often something is *started*,
never whether what was started may end.

* `MaxGen`: no apply starts once the history is that long; the prefix up to
  there holds every case of a first, a second and a pruned generation.
* `MaxOthers`, `MaxFaults`, `MaxActs` (core): rollbacks, syncs and prunes;
  failed changes, failed reads, interrupts and deaths; acts of the administrator.
  The properties relate at most two commands and one failure between them, which
  `sequential` has in every order, with a second failure. With two processes one
  command beside the applies is enough for each pair to overlap in every way;
  failures are left to `sequential`.
* `KeepChoices = {1}`: the harshest prune.
* `MaxCuts`: how often a step fails or the process or the power dies. Two are a
  failure and a death in one apply, or an apply cut twice. `subvolumes`,
  `storage` and `blocks` have one (`storage` also `MaxFailures = 1`, a command
  that fails unnoticed): with two, `FstabNamesExisting` is false, as said above,
  and the others grow past what a run can hold.
* `MaxApplies`, `MaxEdits`: three applies are a first one, one that changes or
  drops what it did, and one that puts it right; four where a sync or a reboot
  comes between.
* `MaxHands`: what the administrator does by hand.
* Items: one per domain is the least at which a failure in one leaves the other
  converged; `sequential` has two in one domain, one of them through a block.
* `MaxNodes = 4` stands for `_MAX_CLOSURE_NODES = 500`: one config (`Wide`)
  exceeds it, the others do not. `MaxSlots = 4` stands for LUKS2's 32 keyslots:
  as many as the largest declaration needs, so that one key enrolled by hand
  already fills the header.
* `Scenarios` are machines and the documents each goes through. A scenario has
  those that meet in the code: a backend, a loader or a generator and the other
  one; a block, the same thing by hand, and neither; a path wanted by two
  actions. Crossing them all would only repeat cases that share no state.
* The world of `MCPackages` has one of each thing the code tells apart: a
  dependency, a virtual name, a conflict, a group, a Git source whose dependency
  is only in the AUR, a helper, and a chain of two AUR packages that ends
  nowhere.

All but `packages` say `CHECK_DEADLOCK FALSE`: at the bounds, with nothing
running, there is nothing left to do.

Symmetry is used in `subvolumes` only, between two files nothing tells apart, and
that run checks no liveness.

`LockFileUsable` is `TRUE` in the runs; the proofs of section 6 hold for both
values.

## 5. Fairness

`Dasik`'s `Spec` asks for weak fairness of `Work(p)`: a command that runs
continues, unless it waits at the prompt, for nothing in it blocks on another
process (the flock is non-blocking). That is all `CommandsEnd` needs. Failures,
deaths, the administrator and the start of a command are never fair.
`RetrySpec` adds an administrator who keeps running `apply` (weak fairness of
`StartApply`) and, asked again and again, says yes once (strong fairness of
`Proceed`: declining in between disables it). `EventuallyConverged` is what
"fix the cause and run apply again" promises.

In `Packages` an apply that runs goes on and, once it has ended, is run again
(weak fairness of `Apply`), and a stale database lock is cleared. `EventuallyQuiet`
leaves out what only a decision can end: a conflict that dasik may not resolve
and a closure over the cap (`NeedsADecision`), and names that cannot be had,
which every plan goes on asking for (`Unattainable`).

The other groups state no fairness: their applies are finite lists of steps, so
that "the next plan after an apply that ended well is silent" says, as safety,
that one more apply is enough.

## 6. What is proved

The core is proved for every number of processes, items, blocks, domains and
every value of the bounds, from `ConfigAssumption` and `DasikAssumption` alone.
Storage is proved for any size of disk, any number of keyslots, any documents
(`LayoutAssumption`, `UnlockAssumption`: what the pydantic models let through;
`PathAssumption`: the value that stands for no mountpoint is not a path), any
initial disk whose partitions do not overlap and whose encrypted volumes can be
opened (`DiskImageAssumption`), and any number of failures, deaths and applies.
Subvolumes are proved for any subvolumes, paths, files, nested subvolumes and
documents, and any number of interruptions and edits, from `SubvolumesAssumption`
(the root subvolume is never declared; no other is declared at `/`) and
`MovingAssumption` (no service writes, and no document mounts anything, below a
directory named `.dasik-moving`). No theorem assumes that declared mountpoints
differ: preflight refuses two partitions at one place, but counts the subvolumes
of one partition as a set, so two of them may be declared at the same path. Such
an apply never ends well, and the theorems cover it.
Firewall and snapper are proved for any subvolumes, zones, rules, documents and
snapshots, and any number of applies, interruptions and acts by hand, from
`SnapperAssumption`, `ScenarioAssumption` (documents and machines are finite,
a config is for one of the subvolumes, the backend is ufw or firewalld) and
`RuleAssumption` (no zone is taken for a rule: a rule is written with a blank,
`firewall_action.py:255-257`).
Files and users are proved for any paths, accounts, machines and documents, and
any number of applies, deaths and acts by hand, from `PathAssumption` (a home is
none of the places the system's files lie in, no package ships a file in one,
and no directory dasik makes is at `/etc/fstab` or `/etc/crypttab`) and
`ScenarioAssumption` (documents and machines are finite, and those two files,
which several actions write with a plain `open`, are no links).

| Theorem | Statement |
|---|---|
| `DasikProofs!TypeCorrect` | `Spec => []TypeOK` |
| `DasikProofs!MutualExclusion` | `Spec => [](LockFileUsable => OneApplyAtATime)` |
| `DasikProofs!PromiseKept` | `Spec => KeepsOwnershipPromise`, the refinement of `Ownership` |
| `ConvergenceProofs!CompleteApplyConverges` | `Spec => []ApplyConverges` |
| `ConvergenceProofs!SecondPlanIsEmpty` | plan, apply, plan ends silent when nothing is declared both on and off |
| `ConvergenceProofs!OverlapNeverSettles` | and never does when something is |
| `HistoryProofs!ManifestNeverAhead` | `Spec => []ManifestBehindHistory` |
| `HistoryProofs!GenerationsAreSound` | `Spec => [](OneWriterAtATime => CurrentIsWhole /\ GenerationCoherent /\ RollbackToCompleteOnly)` |
| `HistoryProofs!HistoryIsAppendOnly` | `OneWriterAtATime` implies `Spec => AppendOnly` |
| `HistoryProofs!StoresAreSound` | `Spec => [](OneCommandAtATime => StoresStaySound)` |
| `HistoryProofs!OwnershipIsKept` | `Spec => [](OneCommandAtATime => OwnershipSurvives)` |
| `HistoryProofs!RecordsStay` | `OneCommandAtATime` implies `Spec => RecordsAreKept` |
| `StorageProofs!NothingIsErased` | `Spec => ErasesOnlyWhenAsked` |
| `StorageProofs!SomethingOpens` | `Spec => []StillOpens` |
| `StorageProofs!UnlockDelivered` | `FALSE \notin HeaderReads => (Spec => []UnlockSettles)` |
| `StorageProofs!DeclaredIsMounted` | `(\A l \in Layouts : Arranged(l.parts)) => (Spec => []MountedAsDeclared)` |
| `SubvolumesProofs!NothingIsLost` | `Spec => NothingLost` |
| `SubvolumesProofs!NothingIsHidden` | `Spec => []NothingHidden` |
| `SubvolumesProofs!BootFindsAll` | `Spec => [](cuts <= 1 => FstabNamesExisting)` |
| `SubvolumesProofs!SecondPlanIsEmpty` | `Spec => []SecondPlanIsSilent` |
| `ServicesProofs!DaemonFollowsFiles` | `Spec => []DaemonEnforcesFiles` |
| `ServicesProofs!SnapshotsAreOwned` | `Spec => []NoOrphanedSnapshots` |
| `ServicesProofs!WantedSnapshotsStay` | `ScenariosAgree => (Spec => DeclaredSnapshotsStay)` |
| `ServicesProofs!WhatIsDroppedIsClosed` | `ScenariosKeepFirewall => (Spec => []UndeclaredIsClosed)` |
| `FilesProofs!OnlyItsOwn` | `Spec => TouchesOnlyItsOwn` |
| `FilesProofs!SecretsAreKept` | `ComposesNoSecret => (Spec => SecretsStayPrivate)` |

Seven conditions on the constants appear in them. `FALSE \notin HeaderReads` says
that `luksDump` can always read the header, as it can in the run: one that
cannot be read counts as empty (`_dump`), and a removal that finds no keyslot of
its kind in it frees them all (`--wipe-slot=<kind>` in `_wipe`). `Arranged` is about
documents: labels differ (`duplicate_partition_label` in `preflight.py:383-390`), the
subvolumes of a partition are declared parents first, and nothing is declared
above a mountpoint of another partition unless its own partition is mounted
earlier. The code sees to the first only; the documents of the run meet all
three (`LayoutsArranged`), and one without subvolumes does when its labels and
mountpoints differ (`PlainIsArranged`). `ScenariosAgree` says that the documents of
a machine, over its life, agree on which snapper config is for which subvolume; those of the
run do (`DocumentsAgree`). `ScenariosKeepFirewall` says that they are all for
one firewall, ufw or firewalld, a block that is gone going with either, and that
the machine starts with nothing of the other one; so do those of the run
(`FirewallsStay`). `ComposesNoSecret` says that no document has dracut compose
the crypttab it declares private, and that the swap's line is no secret; so do
those of the run (`NothingComposed`). The other two are about processes. `OneCommandAtATime` says there is
one process: commands follow each other, and die and fail anywhere.
`OneWriterAtATime` is weaker: that, or any number of processes with a usable lock
file and no rollback. They are not for convenience:

* a btrfs that declares `/home` before `/` is mounted in that order
  (`disk_partition_action.py:1694-1709`): the root then covers the home just
  mounted. A partition at `/var` beside a btrfs with subvolumes at `/` and
  `/var/lib` is mounted after both, for only partitions are sorted, each by its
  shallowest mountpoint (1619-1640), and covers the second. TLC finds
  `MountedAsDeclared` violated for either document;
* snapper's plan compares configs by name only (`snapper_action.py:111-126`): of a
  document that had a config `a` of `/` and one `b` of `/home`, and now has only
  `b`, of `/`, the apply removes `a`, and deletes the snapshots of `/` the
  document has just asked for under another name, while `b` stays the config
  of `/home`. TLC finds `DeclaredSnapshotsStay` violated there;
* only the backend of the document is planned for while the block is on
  (`firewall_action.py:300-301`), so a document that goes from firewalld to ufw
  leaves the zone files dasik owned, and the manifest stops naming them. On a
  machine of ufw whose block is off and names firewalld an apply records
  firewalld (`state_metadata`, 656-658). `sync` may claim ufw's rules after that, from a
  block it captured as on; once the block is off again the record decides (304-306),
  the plan is for firewalld, and the rules are disowned where they are,
  in force again as soon as ufw is. TLC finds `UndeclaredIsClosed` violated
  for either pair of documents;
* dracut writes the crypttab it composes with the default mode
  (`initramfs/dracut.py:334-338`), whatever mode a file entry declares for
  `/etc/crypttab`, which yields to it: the lines the composed file takes from that
  entry then show, unless the file was there and private before;
* a rollback beside an apply mixes two generations, for it takes no lock;
* an apply that loaded the manifest before it waited for the lock saves an old
  one over the new (the run `two_applies`), which breaks
  `DisownsOnlyWhatIsGone`;
* the half-written directory of an apply that runs looks to a prune like the
  newest complete generation, and may then turn out to be a partial one, which
  breaks `PruneKeepsARollback`. One command at a time only meets such a directory
  after a death, when it stays as it is; that case the property exempts.

The arguments:

* **Types.** `TypeOK` together with `ControlOK`, which says what a process holds
  at the labels where its type alone is not enough, is inductive, given the
  lemmas of `DasikProofs` about what the store's helpers return
  (`NextNumber` is fresh; putting and removing files keeps generations
  generations).
* **Mutual exclusion.** `OneApplyAtATime` says nothing of the lock and is not
  inductive. `LockHeld` is: whoever is between the lock and the end of its
  persist holds the lock. `LockEffect` says that a step leaves the lock, gives up
  its own, or takes it when free; `EntryTakesLock`, that nobody gets inside
  otherwise.
* **Ownership, refined.** That every removal is of a named item needs to know
  where a plan comes from: `OnlyNamed` says that the stored manifest, and every
  manifest, plan and config in memory (`Knows`), hold only named items. A config
  is named when a command reads it, not when the administrator edits the file.
  `StepRefines` maps each step to one of `Ownership` or to a stutter.
* **Convergence.** The invariant `AllConverging` speaks of each process: while it
  applies, every difference between machine and config is still planned, unless
  somebody else made it or the action is about to raise (`Attempting`); nothing
  is left planned for an action that returned (`InOrder`); so a manifest that is
  not partial comes with a machine that has no difference left (`Delivered`).
  `AccountedConverges` carries it across the steps of others, who change an item
  only at the price of `moved`.
* **History.** `HistoryInv` adds to the types and the lock what each command
  holds label by label (`AllShaped`), that no manifest in memory or on disk counts
  past the newest generation (`AllCounted`), and `HistorySound`: the
  directory a writer is filling is above every other and holds exactly what it
  has written so far (`Written`). `WriterIsAlone` is where the lock is used: of two
  processes only one is at a label of `_persist`. From this a step either adds
  a file to the newest directory or takes files away (`DeletionEffect`), which is
  `AppendOnly`.
* **Prune.** A victim that could be rolled back to implies that the newest
  complete generation was spared (`PruneSparesTheNewest`), and no later step of
  the prune touches what is spared (`DeletionSpares`).
* **Ownership between commands.** `OwnershipInv` has, beside the above,
  `AllGiving` (a process gives up only what it removes, what others moved or what
  is gone), `SyncKeeps` (what a sync is about to own is declared on, with its
  blocks expanded, or off), `placed \subseteq present`, and `Knowing`: the
  manifest a command loaded is still the stored one (`Settled`), and while
  nothing has failed, what is placed is owned on disk or, where the machine is
  ahead of the disk, by the manifest on its way there (`Placing`).
* **Disks.** `ErasesOnlyWhenAsked` speaks of one step; `DiskInv` says why no step
  can break it: partitions do not overlap (`TableSound`), so that to make one is
  not to cover another; the next number is above every partition that was found,
  and neither a label nor the mapping leads to one of these (`Careful`), unless
  the apply is `Careless`: it may wipe, or was misled. Two things came out of the attempt: that
  the guard against overlap is parted's, not dasik's, and the misled listing
  of section 3.
* **Keyslots.** `OpensInv`: there is a key while something is encrypted or open,
  and what is still planned is one of `Plans(header)`, whose removals only stand
  where a passphrase or a key file remains. `WipeToken` frees slots of its own
  kind only, so that the rest of the plan remains one (`PlansGrow`).
* **Enrolment.** A token that is declared by count has no name of its own, and a
  plan that is half done has both enrolled and wiped some of a kind. `SettleInv`
  therefore counts: of each kind, what the header holds and what is still to be
  enrolled (`HowMany`) is never less than what is declared and what is still to
  be wiped. A step of the plan moves one from one side to the other, and at the
  end nothing is to be enrolled or wiped. `OrderCounts` says that putting
  removals last loses no change and counts none twice; `WipedSound`, that the list
  of freed slots, which names no two slots alike, is only in use by then.
* **Mounts of an installation.** `MadeInv` follows the numbers first. The apply
  believes that its partitions are numbered upwards from one above those it found, and
  parted gives out the lowest number that is free: without a gap the two agree,
  and with one the last partition is believed at a number that nothing has, so
  that formatting it fails and the apply does not end clean (`Numbered`,
  `Formatted`). Partitions of different numbers begin at different places
  (`LocatedApart`), so no filesystem is made over another of the same apply. Then the
  mounts: what is mounted is no deeper than what is still to be (`MountedSoFar`),
  and `Arranged` turns that into nothing that comes later covering it.
* **Files of subvolumes.** `NothingLost` speaks of one step; what makes it hold is
  which copy is whole at each command of an item. `FillSound`: until the copy is
  checked, what the new subvolume holds is also in the parent, so that discarding
  it costs nothing; from then on what was put aside is also in the subvolume, so
  that deleting it does not either. `RemoveSound`: until the copy back is checked,
  the mountpoint holds copies and what services wrote there meanwhile
  (`exposed`); from then on the parent has all the subvolume has. Both fail for a
  nested subvolume, which no copy takes: that none is in either place is what
  the refusals in `MayAdd` and `MayRemove` are for. `TreeSound` (the root
  subvolume is at `/` and nothing else is, what is mounted exists, what does
  not exist is empty) puts the parent on the tree and outside the item, and
  `VisibleIs`, `SameBelow` and `NotStaged` say where a file written by path ends
  up: in the subvolume of the deepest mount, below the item's mountpoint only if
  its path is, and never in the directory put aside. Two things came out of the
  attempt: that last condition, and that the model let a boot mount a subvolume
  that a line survived (which takes two interruptions).
* **Mounts and lines.** `MountsApart` (no place has two mounts and no subvolume two
  lines, and the place an item will mount at is free) and `PlanKept` (until the apply
  ends, what is not in place is planned or under way) give the empty second plan.
  `LinesSound` is about what an interruption leaves: none, and every line is
  that of a mounted subvolume; one, and a line may be missing or be that of a
  subvolume that is not mounted, but one that is about to be deleted has no line.
  It needs both levels, as the second starts where the first item was cut short.
* **What can be reached.** `NothingHidden` compares what shows after an apply with
  what could be reached when it started (`found`). A file shows if no mount is
  deeper than its own over its path (`Open`); `PlaceSound` says that nothing is
  mounted at or below the place of the item under way, and that the parent its
  files come from or go to is what shows there. `FoundSound` follows `found`
  command by command until the first interruption: it shows now, or will once
  the subvolume is mounted where it goes (`Planned`), and where a copy is about to
  be covered or discarded, also outside the directory that holds it
  (`SeenBeside`). A boot shows the same, for until then every mounted subvolume
  has its line (`LinesKept`) and every line is that of one (`LinesSound`).
* **Daemon and files.** `Enforcing` follows the steps of an apply that are still to
  come. Behind every zone that is to be written or removed there is a reload
  (`Reloaded`), and the packages step unfolds into steps of which this holds again;
  a reload that found no binary is `pending`, and the end of the list repeats it. So once the
  list is empty the daemon enforces its files, or refused to, or was cut off.
* **Snapshots.** `Owning` is about the order of the list: each command stands behind
  the one it relies on (`Linked`), an unmounted container is mounted again
  unless the apply is cut (`Closed`), and the snapshots of a config go first
  (`DeletesFirst`); about its head, that it can do what it is there for (`Fits`);
  and about the disk, that a mount is away only while its config is made and that
  what is in sight is registered (`MountsSound`, `Registered`, `DiskSound`). A lemma per command leads from
  `Before` to `After`. The two together show why the registration goes last:
  at no command in between are there snapshots no config is for.
* **Wanted snapshots.** `Agreeing`: what is registered is what some document of the
  machine declared it for. A config being removed is not declared by its name, and
  by agreement no other name is for its subvolume.
* **What is closed.** What dasik has owned and is there is always still owned
  (`everOwned` is in the manifest's set). An apply keeps this if nothing leaves the
  manifest before it has left the machine: `Accounted` says that each such item
  is declared or its removal is still on the list, and `InTurn` that the
  packages, whose failure is the first that lets the manifest forget, come behind
  every step of the firewall. The plan itself sees every rule only where ufw is
  installed and on (`LiveUfwRules`), so `UfwSide` carries along that it is as long as
  something of it is owned, and, while an apply runs, that it will be.
* **Files.** Both properties speak of one system call, and a call in the middle of
  a write knows only its path. `Running` therefore says where the apply is in
  its list (`Doing`): between two steps of the plan, every step of which names a
  declared path or one dasik owned; or inside a step, and then what
  is left of its calls is the rest of one of the lists the code makes for it.
  From there the calls that are left say what was done before them: a file that
  is to be filled is no link and already has the mode its entry declares (the link
  was removed, or the path was free, and the mode went on the descriptor before
  the content); a directory still to be handed over is root's, made in this very step.
  `TreeOK` keeps the two shared files from being links. Two
  things came out of the attempt: that a home below a link that leads nowhere
  cannot be written (`makedirs` fails on it), and that `_write` makes what is missing
  below the deepest directory that is there, not every directory that is missing.

Only model-checked:

* `StoresStaySound`, `OwnershipSurvives` and `RecordsAreKept` where several
  commands overlap are false as said above, and are neither checked nor proved
  there;
* `UnlockSettles` where the header cannot be read, `UndeclaredIsClosed` where a
  machine changes its firewall, all the properties of the boot, the AI tooling,
  the feature blocks and the packages, and of the files those of a whole apply
  (`SecondPlanIsSilent`, `AppliedIsInForce`): most of their invariants are about
  plans computed by folds over documents, and are left to TLC's instances;
* liveness (`CommandsEnd`, `EventuallyConverged`, `EventuallyQuiet`): neither
  fairness nor ENABLED is within the prover's reach;
* what a fold or a recursive function computes for every input (the end of the
  closure walk in `AurClosure`, the merge of parameters in `Boot`): induction
  over data is not either.

## 7. What is not modelled, and what comes next

Left out for good: command execution, logging and formatting (pure I/O: a
command succeeds or fails, which is what the models take from it); the wizard,
`plan`, `check` and `hash-password`, which change nothing; `save`, which commits
and packs files nothing else reads; the actions that keep one value or write one
file whole and compare it whole (time zone, locale, zram, PAM, sudo, systemd's
configuration, pacman's repositories, tailscale, config-saver's own files,
libvirt's network, fonts): one step each, with nothing in between.

Left out of modelled components: in packages, version constraints, the legacy
`aur-` prefix and `-debug` by-products; in disks, how a device is found and the
correction of mount options; in files, the scan for files nobody declared, the old
verify of packaged files, vendor warnings; of documents, how a split one
(`$include`, `etc_tree`, `home_tree`) is written back; of `upgrade`, the system
upgrade itself. Outside `Files`, which opens and fills a file in
two steps, no model tears a single write: `state.json` is replaced atomically,
and the files that are not (a zone, a loader's configuration) are read again by
the next plan.

Some decisions of the code have no property, and are listed as hazards with a
note: the known divergences above.

Within the prover's reach, and not proved: `BuildsAreSound`'s account and fragment
(the fragment is there exactly in a session, but for the hook, which does not
depend on the world of packages).
