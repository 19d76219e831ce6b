------------------------------ MODULE Snapper -------------------------------
(***************************************************************************)
(* Snapper configs and the snapshots they own                              *)
(* (lib/actions/snapper_action.py).  The snapshots of a subvolume lie      *)
(* under its `.snapshots': in a subvolume of its own that fstab mounts     *)
(* there ("own"), or in one that snapper makes in place ("nested").  What  *)
(* a mount hides is still on the disk.                                     *)
(*                                                                         *)
(* create-config is modelled from how it is used: it refuses a name, a     *)
(* subvolume or a `.snapshots' that is taken.                              *)
(***************************************************************************)
EXTENDS Integers, FiniteSets, Functions, Sequences, SequencesExt

CONSTANTS Subvolumes,       \* those a config can be declared for
          OwnSnapshots,     \* those whose `.snapshots' has a line in fstab
          Numbers,          \* the numbers of snapshots
          RootSubvolume, Unreadable

ASSUME SnapperAssumption ==
    /\ OwnSnapshots \subseteq Subvolumes /\ RootSubvolume \in Subvolumes
    /\ Unreadable \notin Subvolumes

VARIABLES
    configs,        \* name -> what SUBVOLUME= of its file says
    listed,         \* the names in SNAPPER_CONFIGS
    snapshots,      \* subvolume -> where -> the numbered snapshots
    records,        \* subvolume -> where -> the numbered directories
    under,          \* subvolume -> what is at `.snapshots', mount aside
    ownMounted,     \* the subvolumes whose own `.snapshots' is mounted
    ownedSnapper    \* the manifest: the configs dasik owns

btrfs == <<snapshots, records, under, ownMounted>>
snapperDisk == <<configs, listed, btrfs>>
snapperVars == <<snapperDisk, ownedSnapper>>

Where == {"own", "nested"}
Side(v) == IF v \in ownMounted THEN "own" ELSE "nested"
Exists(v) == v \in ownMounted \/ under[v] # "none"

\* A number is a snapshot, or what an interrupted removal left of one.
NumberedSnapshotDirs(v) == IF Exists(v) THEN records[v][Side(v)] ELSE {}

\* The block: name -> subvolume, none for a block that is off or gone.
PlanSnapper(d) ==
    [add |-> DOMAIN d \ DOMAIN configs, drop |-> (ownedSnapper \ DOMAIN d) \cap DOMAIN configs]

\* import_state skips what it cannot read.
ReadableConfigs == Restrict(configs, {n \in DOMAIN configs : configs[n] # Unreadable})

-----------------------------------------------------------------------------
(* The steps of an apply *)

SnapperStep(do, name, v, number) ==
    [action |-> "snapper", do |-> do, arg |-> name, subvolume |-> v, number |-> number]

\* _create_config: whether there is a mount is seen when the config's turn comes.
CreateSteps(name, v) ==
    LET step(do) == SnapperStep(do, name, v, 0)
    IN IF v \notin ownMounted THEN <<step("create-config")>>
       ELSE <<step("umount"), step("rmdir"), step("create-config"),
              step("delete-nested"), step("mkdir"), step("mount")>>

\* _delete_config: snapshot after snapshot, each before the directory that records it,
\* and the config's registration last.
DeleteNumbered(name, v) ==
    LET numbers == SetToSeq(NumberedSnapshotDirs(v))
    IN [k \in 1 .. 2 * Cardinality(NumberedSnapshotDirs(v)) |->
          SnapperStep(IF k % 2 = 1 THEN "delete-snapshot" ELSE "rmtree", name, v,
                      numbers[(k + 1) \div 2])]

\* Mutant: the registration goes first.
RegistrationFirst(name, v) ==
    LET step(do) == SnapperStep(do, name, v, 0)
    IN <<step("remove-config"), step("unlist")>> \o DeleteNumbered(name, v)
         \o <<step("delete-container")>>

DeleteSteps(name, v) ==
    LET step(do) == SnapperStep(do, name, v, 0)
    IN DeleteNumbered(name, v)
         \o <<step("delete-container"), step("remove-config"), step("unlist")>>

\* Mutant: a file that does not say stands for the root.
RootIfUnreadable(name) == IF configs[name] = Unreadable THEN RootSubvolume ELSE configs[name]

\* _read_subvolume of a config that is no longer declared.
ReadSubvolume(name) == configs[name]

SetUnder(v, what) == under' = [under EXCEPT ![v] = what]

\* What each command does; none of those before create-config is looked at.
Umount(v) == ownMounted' = ownMounted \ {v} /\ UNCHANGED <<configs, listed, snapshots, records, under>>

Rmdir(v) ==
    /\ IF records[v]["nested"] = {} THEN SetUnder(v, "none") ELSE UNCHANGED under
    /\ UNCHANGED <<configs, listed, snapshots, records, ownMounted>>

Refuses(name, v) == Exists(v) \/ name \in DOMAIN configs \/ v \in Range(configs)

CreateConfig(name, v) ==
    /\ ~Refuses(name, v)
    /\ configs' = [n \in DOMAIN configs \cup {name} |-> IF n = name THEN v ELSE configs[n]]
    /\ listed' = listed \cup {name} /\ SetUnder(v, "subvolume")
    /\ UNCHANGED <<snapshots, records, ownMounted>>

DeleteNested(v) ==
    /\ SetUnder(v, "none")
    /\ snapshots' = [snapshots EXCEPT ![v]["nested"] = {}]
    /\ records' = [records EXCEPT ![v]["nested"] = {}]
    /\ UNCHANGED <<configs, listed, ownMounted>>

Mkdir(v) ==
    /\ IF Exists(v) THEN UNCHANGED under ELSE SetUnder(v, "dir")
    /\ UNCHANGED <<configs, listed, snapshots, records, ownMounted>>

Mount(v) ==
    /\ ownMounted' = ownMounted \cup ({v} \cap OwnSnapshots)
    /\ UNCHANGED <<configs, listed, snapshots, records, under>>

\* An interrupted removal may have done it already.
DeleteSnapshot(v, number) ==
    /\ snapshots' = [snapshots EXCEPT ![v][Side(v)] = @ \ {number}]
    /\ UNCHANGED <<configs, listed, records, under, ownMounted>>

Rmtree(v, number) ==
    /\ records' = [records EXCEPT ![v][Side(v)] = @ \ {number}]
    /\ UNCHANGED <<configs, listed, snapshots, under, ownMounted>>

\* A mount and a plain directory stay.
DeleteContainer(v) ==
    IF v \notin ownMounted /\ under[v] = "subvolume" THEN DeleteNested(v) ELSE UNCHANGED snapperDisk

RemoveConfig(name) ==
    /\ configs' = Restrict(configs, DOMAIN configs \ {name})
    /\ UNCHANGED <<listed, btrfs>>

Unlist(name) == listed' = listed \ {name} /\ UNCHANGED <<configs, btrfs>>

-----------------------------------------------------------------------------
(* snapper's own work, and the boot *)

\* create: the timeline, or a pacman hook.
TakeSnapshot ==
    \E name \in DOMAIN configs, number \in Numbers :
        LET v == configs[name]
        IN /\ v # Unreadable /\ Exists(v) /\ number \notin records[v][Side(v)]
           /\ ~(Side(v) = "nested" /\ under[v] = "dir")
           /\ snapshots' = [snapshots EXCEPT ![v][Side(v)] = @ \cup {number}]
           /\ records' = [records EXCEPT ![v][Side(v)] = @ \cup {number}]
           /\ UNCHANGED <<configs, listed, under, ownMounted, ownedSnapper>>

\* systemd makes a mountpoint that is missing.
MountFstab ==
    /\ ownMounted' = OwnSnapshots
    /\ under' = [v \in Subvolumes |-> IF v \in OwnSnapshots /\ under[v] = "none" THEN "dir" ELSE under[v]]
=============================================================================
