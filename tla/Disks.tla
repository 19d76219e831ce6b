------------------------------- MODULE Disks -------------------------------
(***************************************************************************)
(* Partitioning, formatting, encrypting and mounting a disk                *)
(* (lib/actions/disk_partition_action.py).  dasik decides by the labels    *)
(* lsblk shows whether a disk is what the document declares; otherwise it  *)
(* partitions the disk, only if the document says wipe_disk or the disk    *)
(* has no partition table.  Most of its commands are run without a check:  *)
(* one that fails is not noticed.  Making a subvolume and mounting raise.  *)
(*                                                                         *)
(* A partition is an extent; what is in it lies on the disk at its start,  *)
(* table or no table, until something else is made there.                  *)
(***************************************************************************)
EXTENDS Integers, Sequences, FiniteSets, SequencesExt, FiniteSetsExt, Functions

CONSTANTS DiskSize,     \* of the disk, in tenths of a MiB
          Layouts,      \* the layouts a document may declare
          Disk0s,       \* what may be on the disk in the beginning
          MaxSlots,     \* the keyslots of a LUKS header
          MaxFailures,  \* how many commands may fail
          MaxCuts,      \* how often the process or the power may die
          NoPath

ASSUME DiskAssumption == DiskSize \in Nat /\ MaxSlots \in Nat \ {0}

(* The document, as its model lets it be (lib/models/disk_model.py). *)
Size == [n : Nat, unit : {"GiB", "MiB", "GB", "MB", "%", "rest"}]
Label == Seq(STRING)
Path == Seq(STRING)
ASSUME PathAssumption == NoPath \notin Path

FileSystemType == {"ext4", "btrfs", "fat32", "swap", "xfs"}
Kinds == FileSystemType \cup {"random"}   \* a swap with a key of its own at every boot

PartitionSpec ==
    [label : Label, size : Size, kind : Kinds, enc : BOOLEAN, at : {NoPath} \cup Path,
     subs : Seq([name : STRING, at : Path])]

ASSUME LayoutAssumption ==
    \A l \in Layouts : /\ l \in [wipe : BOOLEAN, parts : Seq(PartitionSpec)]
                       /\ l.parts # <<>>

(* What lies on a disk: partitions that do not overlap, none without a     *)
(* table, 128 at most; and a keyslot in every LUKS header.                 *)
Extents == [start : Nat, end : 0 .. DiskSize, new : BOOLEAN]

CryptLabel(label) == <<"crypt", label>>
CryptLabels == {"crypt"} \X Label

Content ==
    [label : Label \cup CryptLabels, kind : Kinds \cup {"luks"}, enc : BOOLEAN, subs : SUBSET STRING, fresh : BOOLEAN]

Disjoint(list) ==
    /\ \A k \in DOMAIN list : list[k].start < list[k].end
    /\ \A k, n \in DOMAIN list :
          k # n => list[k].end <= list[n].start \/ list[n].end <= list[k].start

SlotUse == {"free", "passphrase", "keyfile", "tpm2", "fido2"}

ASSUME DiskImageAssumption ==
    \A d \in Disk0s :
        /\ d.table \in BOOLEAN /\ (~d.table => d.parts = <<>>)
        /\ DOMAIN d.parts \subseteq 1 .. 128 /\ d.parts \in [DOMAIN d.parts -> Extents]
        /\ Disjoint(d.parts)
        /\ DOMAIN d.content \subseteq Nat /\ d.content \in [DOMAIN d.content -> Content]
        /\ d.header \in [1 .. MaxSlots -> SlotUse]
        /\ \A s \in DOMAIN d.content : d.content[s].enc => \E k \in 1 .. MaxSlots : d.header[k] # "free"

VARIABLES
    layout,     \* the declared disk
    table,      \* is there a partition table
    parts,      \* partition number -> its extent
    content,    \* start -> what was made there
    mapper,     \* where the open LUKS mapping leads, or Closed
    header,     \* keyslot -> what opens it
    mounts,     \* the mounts under /mnt, in the order they were made
    pc, work,   \* where the apply is, and what it knows
    node,       \* partition_map: label -> the device it is believed to be
    outcome,    \* how the last apply ended, or what it is led by
    clean,      \* no command of it failed
    failures, cuts

disk == <<table, parts, content, mapper, header>>
book == <<outcome, clean, failures, cuts>>
diskVars == <<layout, disk, mounts, pc, work, node, book>>

(***************************************************************************)
(* Where the partitions begin and end (_size_to_mib, _validate_sizes,      *)
(* _calculate_partition_end).  Positions are counted in tenths of a MiB,   *)
(* the precision the code prints them with; a size is a number and a unit, *)
(* or "rest", or a percentage of the whole disk.                           *)
(***************************************************************************)
GiB == 1024 * 10

IsFixed(size) == size.unit \notin {"rest", "%"}

(* _size_to_mib: decimal units are powers of ten here ... *)
Needed(size) ==
    CASE size.unit = "GiB" -> size.n * GiB
      [] size.unit = "MiB" -> size.n * 10
      [] size.unit = "GB"  -> (size.n * 953674) \div 100
      [] size.unit = "MB"  -> (size.n * 953674) \div 100000

(* ... and a thousand 1024ths of the next unit here. *)
Length(size) ==
    CASE size.unit = "GiB" -> size.n * GiB
      [] size.unit = "MiB" -> size.n * 10
      [] size.unit = "GB"  -> size.n * 10000
      [] size.unit = "MB"  -> (size.n * 10000) \div 1024

(* f"{x:.1f}" of a number of GiB: the nearest tenth, a tie to the even one. *)
NearestTenthGiB(e) ==
    LET t == e \div 1024
        r == e % 1024
    IN IF r > 512 \/ (r = 512 /\ t % 2 = 1) THEN t + 1 ELSE t

AsPrinted(e) == IF e >= GiB THEN NearestTenthGiB(e) * 1024 ELSE e

(* _calculate_partition_end.  A percentage is handed to parted as it is;   *)
(* nothing can be added to one: float('50%') raises ValueError.            *)
Bad == [at |-> -1, pct |-> FALSE]

PartitionEnd(start, size) ==
    CASE size.unit = "rest" -> [at |-> DiskSize, pct |-> TRUE]
      [] size.unit = "%"    -> [at |-> (DiskSize * size.n) \div 100, pct |-> TRUE]
      [] IsFixed(size)      -> IF start.pct THEN Bad
                               ELSE [at |-> AsPrinted(start.at + Length(size)), pct |-> FALSE]

(* _validate_sizes, made before anything is touched. *)
SizesFit(sizes) ==
    FoldSeq(LAMBDA s, sum : IF IsFixed(s) THEN sum + Needed(s) ELSE sum, 0, sizes)
        + 10 <= DiskSize

(* parted refuses an empty partition, one that leaves the disk, and one    *)
(* that overlaps another (a percentage may lead back behind it).           *)
Acceptable(start, end) ==
    /\ start.at < end.at /\ end.at <= DiskSize
    /\ \A k \in DOMAIN parts : end.at <= parts[k].start \/ parts[k].end <= start.at

-----------------------------------------------------------------------------
(* A function with another value at x. *)
Put(f, x, value) == [y \in DOMAIN f \cup {x} |-> IF y = x THEN value ELSE f[y]]

Closed == -1
NoLabel == <<>>             \* labels are sequences, crypt<label> a pair
Slots == 1 .. MaxSlots
NoSlots == [s \in Slots |-> "free"]

Starts == DOMAIN content

(* What the table leads to. *)
Reachable == {parts[k].start : k \in DOMAIN parts} \cap Starts

(* What lsblk shows: a filesystem inside a closed mapping has no label yet. *)
DiskLabels ==
    {content[s].label : s \in {t \in Reachable : content[t].enc => mapper = t}} \ {NoLabel}

(* _expected_label: a random-key swap is known by the ext2 in front of it. *)
ExpectedLabel(p) == IF p.kind = "random" THEN CryptLabel(p.label) ELSE p.label

(* _disk_converged *)
Converged(labels) ==
    layout.parts # <<>> /\ {ExpectedLabel(layout.parts[i]) : i \in DOMAIN layout.parts} \subseteq labels

NoWork == [i |-> 1, start |-> [at |-> 0, pct |-> FALSE], todo |-> {}]

InitDisk ==
    /\ layout \in Layouts
    /\ \E d \in Disk0s : /\ table = d.table /\ parts = d.parts
                         /\ content = d.content /\ header = d.header
    /\ mapper = Closed /\ mounts = <<>>
    /\ pc = "idle" /\ work = NoWork /\ node = <<>>
    /\ outcome = "none" /\ clean = TRUE /\ failures = 0 /\ cuts = 0

-----------------------------------------------------------------------------
(* Ending *)

EndWith(o) == pc' = "idle" /\ outcome' = o /\ work' = NoWork

(* Command.execute with check=True, or the code itself, raises. *)
Raise == EndWith("failed") /\ node' = <<>>

(* A command nobody checks either does its work or does not. *)
Unchecked(done) ==
    IF done THEN UNCHANGED <<clean, failures>>
    ELSE failures < MaxFailures /\ failures' = failures + 1 /\ clean' = FALSE

-----------------------------------------------------------------------------
(* Plan *)

(* lsblk that fails shows no labels; parted that fails counts as a table.  *)
(* Nothing but a warning is said of a disk that is converged, and of one   *)
(* that is not but is in use.                                              *)
PlanDisk(labels, seen) ==
    CASE Converged(labels)       -> "silent"
      [] ~Converged(labels) /\ (layout.wipe \/ ~seen) -> "install"
      [] OTHER                   -> "skipped"

LabelReadings == {DiskLabels, {}}
TableReadings == {table, TRUE}

(* What is there when an apply begins is not its own. *)
Age ==
    /\ content' = [s \in Starts |-> [content[s] EXCEPT !.fresh = FALSE]]
    /\ parts' = [k \in DOMAIN parts |-> [parts[k] EXCEPT !.new = FALSE]]

ApplyDisk(labels, seen) ==
    /\ pc = "idle"
    /\ Age /\ clean' = TRUE /\ node' = <<>> /\ work' = NoWork
    /\ IF PlanDisk(labels, seen) = "install"
       THEN pc' = "validate" /\ outcome' = "running"
       ELSE pc' = "done" /\ outcome' = PlanDisk(labels, seen)
    /\ UNCHANGED <<layout, table, mapper, header, mounts, failures, cuts>>

-----------------------------------------------------------------------------
(* _process_disk *)

Sizes == [i \in DOMAIN layout.parts |-> layout.parts[i].size]

Validate ==
    /\ pc = "validate"
    /\ IF SizesFit(Sizes)
       THEN pc' = "wipe" /\ UNCHANGED <<work, node, outcome>>
       ELSE Raise
    /\ UNCHANGED <<layout, disk, mounts, clean, failures, cuts>>

Wipe(done) ==
    /\ pc = "wipe" /\ layout.wipe
    /\ Unchecked(done)
    /\ IF done THEN table' = FALSE /\ parts' = <<>> ELSE UNCHANGED <<table, parts>>
    /\ pc' = "label"
    /\ UNCHANGED <<layout, content, mapper, header, mounts, work, node, outcome, cuts>>

(* Mutant: the plan's answer is relied on, and may be hours old. *)
CreateTableBlindly(done) ==
    /\ pc = "wipe" \/ pc = "label"
    /\ Unchecked(done)
    /\ IF done THEN table' = TRUE /\ parts' = <<>> ELSE UNCHANGED <<table, parts>>
    /\ pc' = "create" /\ work' = [NoWork EXCEPT !.i = 0]
    /\ UNCHANGED <<layout, content, mapper, header, mounts, node, outcome, cuts>>

(* The table is looked for again: the plan's answer is not relied on. *)
CreateTable(done) ==
    /\ \/ pc = "label"
       \/ pc = "wipe" /\ ~layout.wipe /\ ~table
    /\ Unchecked(done)
    /\ IF done THEN table' = TRUE /\ parts' = <<>> ELSE UNCHANGED <<table, parts>>
    /\ pc' = "create" /\ work' = [NoWork EXCEPT !.i = 0]
    /\ UNCHANGED <<layout, content, mapper, header, mounts, node, outcome, cuts>>

KeepTable ==
    /\ pc = "wipe" /\ ~layout.wipe
    /\ pc' = "create" /\ work' = [NoWork EXCEPT !.i = 0]
    /\ UNCHANGED <<layout, disk, mounts, node, book>>

(* _create_partitions numbers on from the last partition parted lists, and *)
(* begins behind it, which must leave 100 MiB.  It asks for the list twice *)
(* (_get_existing_partitions): a parted that fails lists none.             *)
NextStart(list) ==
    [at |-> Max({10} \cup {list[k].end : k \in DOMAIN list}), pct |-> FALSE]

NextNumber(list) == Max({0} \cup DOMAIN list) + 1

BeginPartitions(numbered, placed) ==
    /\ pc = "create" /\ work.i = 0
    /\ parts = <<>> => numbered /\ placed
    /\ Unchecked(numbered /\ placed)
    /\ LET start  == NextStart(IF placed THEN parts ELSE <<>>)
           number == NextNumber(IF numbered THEN parts ELSE <<>>)
       IN IF DiskSize - start.at < 1000
          THEN Raise
          ELSE /\ work' = [i |-> 1, start |-> start, todo |-> {number}]
               /\ outcome' = IF numbered THEN outcome ELSE "misled"
               /\ UNCHANGED <<pc, node>>
    /\ UNCHANGED <<layout, disk, mounts, cuts>>

(* The number parted gives a partition. *)
FreeNumber == Min((1 .. NextNumber(parts)) \ DOMAIN parts)

Number == CHOOSE n \in work.todo : TRUE

(* mkpart: the partition is believed to have the next number, made or not, *)
(* whatever number it was given.                                           *)
CreatePartition(done) ==
    /\ pc = "create" /\ work.i > 0
    /\ LET p   == layout.parts[work.i]
           end == PartitionEnd(work.start, p.size)
           fits == table /\ Acceptable(work.start, end)
       IN IF end = Bad THEN ~done /\ Raise /\ UNCHANGED <<parts, clean, failures>>
          ELSE /\ IF fits THEN Unchecked(done)
                  ELSE ~done /\ clean' = FALSE /\ UNCHANGED failures
               /\ parts' = IF ~done THEN parts
                           ELSE Put(parts, FreeNumber, [start |-> work.start.at, end |-> end.at, new |-> TRUE])
               /\ node' = Put(node, p.label, Number)
               /\ IF work.i = Len(layout.parts)
                  THEN pc' = "format" /\ work' = NoWork
                  ELSE /\ work' = [i |-> work.i + 1, start |-> end, todo |-> {Number + 1}]
                       /\ UNCHANGED pc
               /\ UNCHANGED outcome
    /\ UNCHANGED <<layout, table, content, mapper, header, mounts, cuts>>

-----------------------------------------------------------------------------
(* _format_partition *)

Fresh(label, kind, enc) ==
    [label |-> label, kind |-> kind, enc |-> enc, subs |-> {}, fresh |-> TRUE]

Partition == layout.parts[work.i]

Extent(label) ==
    IF label \in DOMAIN node /\ node[label] \in DOMAIN parts
                 THEN {parts[node[label]].start} ELSE {}

(* The device a partition's label stands for, if there is such a device. *)
Device(p) == IF p.enc THEN {mapper} \ {Closed} ELSE Extent(p.label)

(* _encrypt_partition: luksFormat and open; both refuse a mapping that is  *)
(* open already.                                                           *)
Encrypt(formatted, opened) ==
    /\ pc = "format" /\ Partition.enc
    /\ LET able == mapper = Closed /\ Extent(Partition.label) # {}
       IN /\ able \/ (~formatted /\ ~opened)
          /\ opened => formatted
          /\ IF able THEN Unchecked(formatted /\ opened)
             ELSE clean' = FALSE /\ UNCHANGED failures
    /\ LET at == CHOOSE s \in Extent(Partition.label) : TRUE
       IN /\ content' = IF formatted THEN Put(content, at, Fresh(NoLabel, "luks", TRUE)) ELSE content
          /\ header' = IF formatted THEN [NoSlots EXCEPT ![1] = "passphrase"] ELSE header
          /\ mapper' = IF opened THEN at ELSE mapper
    /\ pc' = "mkfs"
    /\ UNCHANGED <<layout, table, parts, mounts, work, node, outcome, cuts>>

(* mkfs, then the subvolumes.  Making those is checked; it fails where     *)
(* there is no btrfs, or one that has a subvolume of that name.            *)
Mkfs(done, made) ==
    /\ pc = "mkfs" \/ (pc = "format" /\ ~Partition.enc)
    /\ LET new  == Fresh(ExpectedLabel(Partition), Partition.kind, Partition.enc)
           at   == CHOOSE s \in Device(Partition) : TRUE
           able == Device(Partition) # {}
           here == IF done THEN new ELSE content[at]
           subs == {Partition.subs[j].name : j \in DOMAIN Partition.subs}
           base == able /\ (done \/ (at \in Starts /\ here.kind = "btrfs" /\ here.subs \cap subs = {}))
       IN /\ able \/ ~done
          /\ IF able THEN Unchecked(done) ELSE clean' = FALSE /\ UNCHANGED failures
          /\ IF subs = {} THEN made ELSE made => base
          /\ content' = IF done \/ (base /\ made /\ subs # {})
                        THEN Put(content, at, [here EXCEPT !.subs = IF made THEN @ \cup subs ELSE @])
                        ELSE content
          /\ IF ~made THEN Raise
             ELSE /\ IF work.i = Len(layout.parts)
                     THEN pc' = "mount" /\ work' = [NoWork EXCEPT !.todo = DOMAIN layout.parts]
                     ELSE pc' = "format" /\ work' = [work EXCEPT !.i = @ + 1]
                  /\ UNCHANGED <<node, outcome>>
    /\ UNCHANGED <<layout, table, parts, mapper, header, mounts, cuts>>

-----------------------------------------------------------------------------
(* _mount_partitions *)

Depth(path) == Len(path)

(* A btrfs with subvolumes is as deep as the shallowest of them. *)
Effective(p) ==
    IF p.at # NoPath \/ p.subs = <<>> THEN p.at
    ELSE LET all == {p.subs[j].at : j \in DOMAIN p.subs}
         IN CHOOSE a \in all : \A b \in all : Depth(a) <= Depth(b)

ToMount == {i \in work.todo : /\ layout.parts[i].kind \notin {"swap", "random"}
                              /\ Effective(layout.parts[i]) # NoPath}

(* Mutant: in the order they are declared in. *)
NextDeclared == Min(ToMount)

(* Parents before children, the declared order between equals. *)
NextToMount ==
    LET deep(i) == Depth(Effective(layout.parts[i]))
    IN CHOOSE i \in ToMount : \A j \in ToMount : deep(i) < deep(j) \/ (deep(i) = deep(j) /\ i <= j)

MountPartition(done) ==
    /\ pc = "mount" /\ ToMount # {}
    /\ LET p    == layout.parts[NextToMount]
           from == CHOOSE s \in Device(p) : TRUE
           able == /\ Device(p) \cap Starts # {}
                   /\ content[from].kind \notin {"luks", "none"}
                   /\ {p.subs[j].name : j \in DOMAIN p.subs} \subseteq content[from].subs
           rows == IF p.subs = <<>> THEN <<[at |-> p.at, sub |-> NoLabel]>>
                   ELSE [j \in DOMAIN p.subs |-> [at |-> p.subs[j].at, sub |-> p.subs[j].name]]
       IN IF done
          THEN /\ able
               /\ mounts' = mounts \o
                    [j \in DOMAIN rows |-> [at |-> rows[j].at, sub |-> rows[j].sub, from |-> from]]
               /\ work' = [work EXCEPT !.todo = @ \ {NextToMount}]
               /\ UNCHANGED <<pc, node, outcome, clean, failures>>
          ELSE /\ IF able THEN Unchecked(FALSE) ELSE clean' = FALSE /\ UNCHANGED failures
               /\ Raise /\ UNCHANGED mounts
    /\ UNCHANGED <<layout, disk, cuts>>

(* swapon is not checked, so it changes nothing here. *)
EnableSwap ==
    /\ pc = "mount" /\ ToMount = {}
    /\ pc' = "done" /\ outcome' = "made" /\ work' = NoWork
    /\ UNCHANGED <<layout, disk, mounts, node, clean, failures, cuts>>

-----------------------------------------------------------------------------
(* import_state: what is declared, with the power to erase taken out. *)

CaptureDisk ==
    /\ layout' = [layout EXCEPT !.wipe = FALSE]
    /\ UNCHANGED <<disk, mounts, pc, work, node, book>>

(* Another tool makes a partition while dasik waits for its answer; none   *)
(* does on a disk that is in use.                                          *)
SomebodyPartitions ==
    /\ pc = "validate" /\ ~table /\ mapper = Closed /\ cuts < MaxCuts /\ 5000 <= DiskSize
    /\ table' = TRUE /\ parts' = [k \in {1} |-> [start |-> 10, end |-> 5000, new |-> FALSE]]
    /\ content' = Put(content, 10, [Fresh(NoLabel, "ext4", FALSE) EXCEPT !.fresh = FALSE])
    /\ cuts' = cuts + 1
    /\ UNCHANGED <<layout, mapper, header, mounts, pc, work, node, outcome, clean, failures>>

Die ==
    /\ pc \notin {"idle", "done"} /\ cuts < MaxCuts
    /\ EndWith("died") /\ node' = <<>> /\ cuts' = cuts + 1
    /\ UNCHANGED <<layout, disk, mounts, clean, failures>>

PowerCut ==
    /\ cuts < MaxCuts /\ cuts' = cuts + 1
    /\ EndWith("died") /\ node' = <<>> /\ mounts' = <<>> /\ mapper' = Closed
    /\ UNCHANGED <<layout, table, parts, content, header, clean, failures>>

DiskSteps ==
    \/ Validate \/ KeepTable \/ EnableSwap
    \/ \E done \in BOOLEAN : \/ Wipe(done) \/ CreateTable(done) \/ CreatePartition(done)
                             \/ MountPartition(done)
    \/ \E done, also \in BOOLEAN : \/ Encrypt(done, also) \/ Mkfs(done, also)
                                  \/ BeginPartitions(done, also)
=============================================================================
