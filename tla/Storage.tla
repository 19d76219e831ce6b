------------------------------- MODULE Storage -------------------------------
(***************************************************************************)
(* The disk and what opens it, in one apply: the disk is partitioned,      *)
(* formatted and mounted, then the key file and the tokens are enrolled.   *)
(* The machine is used between the applies, and may lose its power.        *)
(***************************************************************************)
EXTENDS Luks

vars == <<diskVars, luksVars>>

Init ==
    /\ InitDisk
    /\ unlock \in Unlocks /\ owned = {} /\ todo = <<>> /\ interactive = FALSE
    /\ skipped = {} /\ wiped = {} /\ keyfile = "none" /\ attached = TRUE
    /\ slotKey = "none" /\ applies = 0 /\ hands = 0

(* An apply that ends in the disk action reaches neither of the others. *)
DiskPart ==
    /\ DiskSteps \/ SomebodyPartitions
    /\ todo' = IF pc' = "idle" THEN <<>> ELSE todo
    /\ UNCHANGED <<unlock, owned, interactive, skipped, wiped, keyfile, attached,
                   slotKey, applies, hands>>

Next ==
    \/ \E labels \in LabelReadings, seen \in TableReadings, dump \in Dumps, asked \in BOOLEAN :
            StartApply(labels, seen, dump, asked)
    \/ DiskPart
    \/ LuksSteps
    \/ \E read \in HeaderReads : Sync(IF read THEN header ELSE NoSlots, read)
    \/ \E u \in Unlocks : Edit(u)
    \/ \E kind \in {"passphrase", "fido2"} : HandEnrol(kind)
    \/ \E s \in Slots : HandKill(s)
    \/ PlugOrUnplug
    \/ Unlock
    \/ (Die \/ PowerCut) /\ CutShort

Spec == Init /\ [][Next]_vars

-----------------------------------------------------------------------------
(* Properties *)

(* The filesystems of partitions no step of this apply made. *)
Kept ==
    {[at |-> s, is |-> content[s].label] :
        s \in {parts[k].start : k \in {n \in DOMAIN parts : ~parts[n].new}} \cap Starts}

(* A document without wipe_disk costs nobody a filesystem: neither one     *)
(* lsblk or parted could not show, nor one another tool made after the     *)
(* plan, nor - sync captures every disk without it - one of a captured     *)
(* configuration.  Every probe may fail, and every command; only a parted  *)
(* that lists no partition where there are some does lead an apply to      *)
(* those of others.                                                        *)
ErasesOnlyWhenAsked ==
    [][~layout.wipe /\ outcome # "misled" => Kept \subseteq Kept']_vars

(* What is seen at a mountpoint: the last mount made there, unless one     *)
(* made later lies over it.                                                *)
ShownAt(p) == {n \in DOMAIN mounts :
                  /\ mounts[n].at = p
                  /\ \A m \in n + 1 .. Len(mounts) : ~IsPrefix(mounts[m].at, p)}

MountsDeclared(p) ==
    IF p.subs = <<>> THEN {[at |-> p.at, sub |-> NoLabel]} \ {[at |-> NoPath, sub |-> NoLabel]}
    ELSE {[at |-> p.subs[j].at, sub |-> p.subs[j].name] : j \in DOMAIN p.subs}

Mountable(p) == p.kind \notin {"swap", "random"} /\ Effective(p) # NoPath
Deep(p) == Depth(Effective(p))

(* A document whose mounts cannot cover each other.  No two partitions have *)
(* one label, which preflight refuses; a btrfs declares its subvolumes     *)
(* parents first, the order they are mounted in; and what is declared      *)
(* above a mountpoint of another partition is of one that is mounted       *)
(* earlier, for partitions are mounted by the depth of their shallowest    *)
(* mountpoint.                                                             *)
LabelsDiffer(list) == \A i, k \in DOMAIN list : list[i].label = list[k].label => i = k
ParentsFirst(list) ==
  \A i \in DOMAIN list : \A j, k \in DOMAIN list[i].subs :
    j < k => ~IsPrefix(list[i].subs[k].at, list[i].subs[j].at)
AboveIsEarlier(list) ==
  \A i, k \in DOMAIN list :
    i # k /\ Mountable(list[i]) /\ Mountable(list[k]) =>
      \A d \in MountsDeclared(list[i]), e \in MountsDeclared(list[k]) :
         IsPrefix(e.at, d.at) => Deep(list[k]) < Deep(list[i])

Arranged(list) == LabelsDiffer(list) /\ ParentsFirst(list) /\ AboveIsEarlier(list)

(* A disk that was made without a failing command shows every declared     *)
(* filesystem at its mountpoint under /mnt, made in this apply and hidden  *)
(* by no other: pacstrap writes into the new system, not past it.          *)
MountedAsDeclared ==
    pc = "done" /\ outcome = "made" /\ clean =>
        \A i \in DOMAIN layout.parts :
            LET p == layout.parts[i]
            IN p.kind \notin {"swap", "random"} =>
                \A d \in MountsDeclared(p) : \E n \in ShownAt(d.at) :
                    /\ mounts[n].sub = d.sub
                    /\ content[mounts[n].from].label = p.label
                    /\ content[mounts[n].from].fresh

(* Whatever dasik wipes, a volume keeps a keyslot that opens it: the guard *)
(* on removals counts what is left when every planned one is done.         *)
StillOpens == (\E s \in Starts : content[s].enc) => header # NoSlots

(* An apply that ends well has enrolled all that is declared, as long as   *)
(* nobody gave an enrolment up or pulled the key device out, and the       *)
(* volume is open: a disk made minutes ago and one in use for years come   *)
(* to the same, though the plan was made before either could be read.      *)
UnlockSettles ==
    pc = "done" /\ todo = <<>> /\ skipped = {} /\ attached /\ Open =>
        /\ \A kind \in {"tpm2", "fido2"} : EnrolledCount(header, kind) >= Count(kind)
        /\ unlock.keyfile => KeyWorks

=============================================================================
