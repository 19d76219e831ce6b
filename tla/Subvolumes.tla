----------------------------- MODULE Subvolumes -----------------------------
(***************************************************************************)
(* Day-2 changes of btrfs subvolumes on an installed machine               *)
(* (lib/actions/btrfs_subvolume_action.py).  One filesystem: its top level *)
(* subvolumes, the files in them, the mounts and /etc/fstab.  dasik adds,  *)
(* moves and removes subvolumes one command at a time, while services      *)
(* write files by path, any command may fail, the process may die and the  *)
(* machine may lose power between any two commands.                        *)
(*                                                                         *)
(* A path is the sequence of its components, <<>> being "/".  A file lies  *)
(* in the directory `at' of a subvolume, relative to its top; an entry     *)
(* whose file is Directory is the directory itself, which os.listdir of    *)
(* the one above it also shows.                                            *)
(***************************************************************************)
EXTENDS Naturals, FiniteSets, Sequences, SequencesExt

CONSTANTS Subvols,      \* the top level subvolumes that can exist
          RootSubvol,   \* the one mounted at /
          Paths,        \* the directories a subvolume can be mounted at
          Written,      \* those services write files to
          Data,         \* the files
          Nested,       \* those of Data that are nested subvolumes
          Configs,      \* the documents: declared subvolume -> mountpoint
          Moving,       \* a directory's name -> that name with .dasik-moving after it
          MaxCuts,      \* how often an item may be cut short
          MaxEdits,     \* how often the document may be edited
          NoPath, NoSubvol, Directory

Root == <<>>

ASSUME SubvolumesAssumption ==
    /\ RootSubvol \in Subvols /\ NoSubvol \notin Subvols
    /\ Root \in Paths /\ NoPath \notin Paths
    /\ Nested \subseteq Data /\ Directory \notin Data
    /\ \A c \in Configs : /\ DOMAIN c \subseteq Subvols \ {RootSubvol}
                          /\ \A s \in DOMAIN c : c[s] \in Paths \ {Root}
    /\ Paths \subseteq Seq(STRING) /\ Written \subseteq Seq(STRING)

(* A directory put aside has a name of its own, where no service writes and *)
(* no document mounts anything.                                             *)
ASSUME MovingAssumption ==
    \A p \in Paths : \A i \in DOMAIN p :
        /\ Moving[p[i]] \in STRING
        /\ \A w \in Written \cup Paths : \A j \in DOMAIN w : Moving[p[i]] # w[j]

VARIABLES
    tree,       \* subvolume -> the entries in it
    existing,   \* the subvolumes there are
    mounted,    \* subvolume -> where it is mounted, or NoPath
    fstab,      \* path -> the subvolume its line names, or NoSubvol
    decl,       \* the document on disk
    managed,    \* the subvolumes the manifest owns
    todo,       \* the changes of the plan still to be applied
    pc, work,   \* where the apply is, and the item it is at
    found,      \* the files that could be reached when the apply started
    exposed,    \* the files written where a removal was copying back to
    ok,         \* the last apply ended well, and nothing was edited since
    cuts, edits \* how often an item was cut short, the document edited

disk == <<tree, existing, mounted, fstab>>
book == <<decl, managed, found, exposed, ok, cuts, edits>>
vars == <<disk, todo, pc, work, book>>

-----------------------------------------------------------------------------
(* Directories *)

Rel(p, q) == SubSeq(p, Len(q) + 1, Len(p))

Entry == [at : Seq(STRING), is : Data \cup {Directory}]

Below(s, rel) == {e \in tree[s] : IsPrefix(rel, e.at)}

(* _has_content: os.listdir of the directory is not empty. *)
Has(s, rel) == \E e \in Below(s, rel) : e.at # rel \/ e.is # Directory

IsDir(s, rel) == rel = Root \/ Below(s, rel) # {}

DirAt(rel) == [at |-> rel, is |-> Directory]

Contents(s, rel) ==
    {[at |-> Rel(e.at, rel), is |-> e.is] : e \in Below(s, rel)} \ {DirAt(Root)}

(* A directory and what it holds. *)
Under(rel, entries) ==
    {DirAt(rel)} \cup {[at |-> rel \o e.at, is |-> e.is] : e \in entries}

(* Where _fill_subvolume puts a directory aside. *)
Staging(rel) == Append(Front(rel), Moving[Last(rel)])

(* cp -a keeps files and directories; a nested subvolume is not one. *)
Copyable(entries) == {e \in entries : e.is \notin Nested}

(* _parent: the mounted subvolume whose mountpoint is the longest prefix. *)
Parent(m, n, p) ==
    LET over == {s \in Subvols \ {n} : m[s] \notin {NoPath, p} /\ IsPrefix(m[s], p)}
    IN CHOOSE s \in over : \A t \in over : Len(m[t]) <= Len(m[s])

(* What the kernel resolves a path to: the deepest mount over it. *)
Visible(m, p) ==
    LET over == {s \in Subvols : m[s] # NoPath /\ IsPrefix(m[s], p)}
        top  == CHOOSE s \in over : \A t \in over : Len(m[t]) <= Len(m[s])
    IN [sub |-> top, at |-> Rel(p, m[top])]

IsMountpoint(m, p) == \E s \in Subvols : m[s] = p
MountedBelow(m, p) == \E s \in Subvols : m[s] # NoPath /\ IsStrictPrefix(p, m[s])

(* os.makedirs of a mountpoint, in whatever subvolume shows there now. *)
WithDir(m, p) ==
    LET v == Visible(m, p)
    IN IF IsDir(v.sub, v.at) THEN tree
       ELSE [tree EXCEPT ![v.sub] = @ \cup {DirAt(v.at)}]

(* What a boot mounts; there is nothing to mount for a line whose          *)
(* subvolume is gone.                                                      *)
Booted == [s \in Subvols |-> IF s \in existing /\ \E p \in Paths : fstab[p] = s
                              THEN CHOOSE p \in Paths : fstab[p] = s ELSE NoPath]

(* What somebody who walks the tree from / comes across. *)
Shown(m, s, rel) == m[s] # NoPath /\ Visible(m, m[s] \o rel) = [sub |-> s, at |-> rel]

ReachableBy(m) ==
    {e.is : e \in UNION {{b \in tree[s] : Shown(m, s, b.at)} : s \in Subvols}} \ {Directory}

(* Now, and after the next boot. *)
Reachable == ReachableBy(mounted) \cap ReachableBy(Booted)

Stored == {e.is : e \in UNION {tree[s] : s \in Subvols}} \ {Directory}

-----------------------------------------------------------------------------
(* Probes and plan *)

(* _live: `btrfs subvolume list' that fails reads as an empty listing. *)
Probe(listing) == [mounted |-> mounted, fstab |-> fstab, existing |-> listing]

Listings == {existing, {}}

(* _would_delete_contents *)
WouldDeleteContents(p) ==
    LET v == Visible(mounted, p)
    IN ~IsMountpoint(mounted, p) /\ Has(v.sub, v.at)

(* btrfs_subvol_state.diff, with the destructive mark plan adds. *)
Diff(live) ==
    {[op |-> "install", sub |-> n, asked |-> live.mounted[n] = NoPath
                                             /\ WouldDeleteContents(decl[n])] :
        n \in {s \in DOMAIN decl : \/ live.mounted[s] = NoPath
                                   \/ live.mounted[s] # decl[s]
                                   \/ live.fstab[decl[s]] # s}}
    \cup
    {[op |-> "remove", sub |-> n, asked |-> FALSE] :
        n \in {s \in managed \ DOMAIN decl : /\ s \in live.existing
                                             /\ live.mounted[s] # Root}}

(* managed_keys: what is declared, mounted where it says and in fstab. *)
ManagedKeys ==
    {n \in DOMAIN decl : mounted[n] = decl[n] /\ fstab[decl[n]] = n}

Idle == [op |-> "none", sub |-> NoSubvol, asked |-> FALSE, at |-> Root,
         from |-> NoPath, parent |-> NoSubvol, rel |-> Root, adopt |-> FALSE,
         had |-> FALSE, created |-> FALSE]

Init ==
    /\ decl = [s \in {} |-> Root] /\ managed = {}
    /\ existing = {RootSubvol}
    /\ mounted = [s \in Subvols |-> IF s = RootSubvol THEN Root ELSE NoPath]
    /\ fstab = [p \in Paths |-> IF p = Root THEN RootSubvol ELSE NoSubvol]
    /\ tree = [s \in Subvols |-> {}]
    /\ todo = {} /\ pc = "idle" /\ work = Idle
    /\ found = {} /\ exposed = {} /\ ok = FALSE /\ cuts = 0 /\ edits = 0

Edit == \E c \in Configs :
    /\ pc = "idle" /\ c # decl /\ decl' = c /\ ok' = FALSE /\ found' = {}
    /\ edits < MaxEdits /\ edits' = edits + 1
    /\ UNCHANGED <<disk, managed, todo, pc, work, exposed, cuts>>

(* dasik plan, then apply of the plan that was shown. *)
StartApply == \E listing \in Listings :
    /\ pc = "idle" /\ Diff(Probe(listing)) # {}
    /\ todo' = Diff(Probe(listing)) /\ pc' = "next" /\ found' = Reachable
    /\ exposed' = {} /\ ok' = FALSE
    /\ UNCHANGED <<disk, decl, managed, work, cuts, edits>>

(* SubvolumeChangeRefused or CommandExecutionError: the items left are not *)
(* tried, and the manifest keeps what it had for this domain.              *)
Stop ==
    /\ pc' = "idle" /\ work' = Idle /\ todo' = {} /\ ok' = FALSE
    /\ found' = {} /\ exposed' = {} /\ UNCHANGED <<decl, managed, edits>>

(* An item is cut short; between two items there is nothing to cut. *)
Cut == IF pc = "next" THEN UNCHANGED cuts ELSE cuts < MaxCuts /\ cuts' = cuts + 1

Raise == Stop /\ UNCHANGED cuts

Refuse == Raise /\ UNCHANGED disk

NextItem == pc' = "next" /\ work' = Idle
         /\ UNCHANGED <<todo, book>>

Finish ==
    /\ pc = "next" /\ todo = {}
    /\ managed' = ManagedKeys /\ pc' = "idle" /\ ok' = TRUE
    /\ exposed' = {} /\ UNCHANGED <<disk, decl, todo, work, found, cuts, edits>>

(* Mutant: the line is added only where the mountpoint has none. *)
FstabAppend(p, n) ==
    fstab' = [q \in Paths |-> IF q = p /\ fstab[q] = NoSubvol THEN n ELSE fstab[q]]

(* _fstab_set: one line for the mountpoint and for the subvolume. *)
FstabSet(p, n) ==
    fstab' = [q \in Paths |-> IF q = p THEN n
                              ELSE IF fstab[q] = n THEN NoSubvol ELSE fstab[q]]

(* _apply_each: installs and moves in the document's order (any), then the *)
(* removals.                                                               *)
Pick(c) ==
    /\ pc = "next" /\ c \in todo
    /\ c.op = "remove" => \A d \in todo : d.op = "remove"
    /\ todo' = todo \ {c}

-----------------------------------------------------------------------------
(* _install *)

(* Mounted where it should be: only the fstab line is missing. *)
InstallFstabOnly == \E c \in todo :
    /\ Pick(c) /\ c.op = "install" /\ mounted[c.sub] = decl[c.sub]
    /\ FstabSet(decl[c.sub], c.sub)
    /\ UNCHANGED <<tree, existing, mounted, pc, work, book>>

(* Mutant: the new place is not looked into. *)
MayMoveOverFiles(n, p) ==
    ~IsMountpoint(mounted, p) /\ ~MountedBelow(mounted, p) /\ ~MountedBelow(mounted, mounted[n])

(* The checks that come before a subvolume is moved, and its umount: a      *)
(* subvolume with another mounted below it is busy.                         *)
MayMove(n, p) ==
    LET par == Parent(mounted, n, p)
        rel == Rel(p, mounted[par])
    IN /\ ~IsMountpoint(mounted, p) /\ ~MountedBelow(mounted, p)
       /\ ~Has(par, rel) /\ ~MountedBelow(mounted, mounted[n])

BeginMove == \E c \in todo :
    /\ Pick(c) /\ c.op = "install" /\ mounted[c.sub] \notin {NoPath, decl[c.sub]}
    /\ MayMove(c.sub, decl[c.sub])
    /\ mounted' = [mounted EXCEPT ![c.sub] = NoPath]
    /\ work' = [Idle EXCEPT !.op = "move", !.sub = c.sub, !.at = decl[c.sub],
                            !.from = mounted[c.sub]]
    /\ pc' = "m_drop"
    /\ UNCHANGED <<tree, existing, fstab, book>>

MoveDropLine ==
    /\ pc = "m_drop" /\ pc' = "m_set"
    /\ fstab' = [fstab EXCEPT ![work.from] = NoSubvol]
    /\ UNCHANGED <<tree, existing, mounted, todo, work, book>>

MoveSetLine ==
    /\ pc = "m_set" /\ pc' = "m_mount" /\ FstabSet(work.at, work.sub)
    /\ UNCHANGED <<tree, existing, mounted, todo, work, book>>

MoveMount ==
    /\ pc = "m_mount" /\ NextItem
    /\ tree' = WithDir(mounted, work.at)
    /\ mounted' = [mounted EXCEPT ![work.sub] = work.at]
    /\ UNCHANGED <<existing, fstab>>

(* The checks that come before a subvolume is created or adopted.  (A       *)
(* listing that fails here makes the item fail: what is there is created    *)
(* again.)                                                                  *)
MayAdd(n, p, adopt) ==
    LET par == Parent(mounted, n, p)
        rel == Rel(p, mounted[par])
    IN /\ ~IsMountpoint(mounted, p) /\ ~MountedBelow(mounted, p)
       /\ ~\E e \in Below(par, rel) : e.is \in Nested
       /\ ~IsDir(par, Staging(rel))
       /\ adopt => ~(Has(par, rel) /\ Has(n, Root))

(* _fill_subvolume up to the creation; nothing to carry goes to the mount. *)
BeginAdd == \E c \in todo :
    LET p     == decl[c.sub]
        par   == Parent(mounted, c.sub, p)
        rel   == Rel(p, mounted[par])
        adopt == c.sub \in existing
        has   == Has(par, rel)
    IN /\ Pick(c) /\ c.op = "install" /\ mounted[c.sub] = NoPath
       /\ MayAdd(c.sub, p, adopt)
       /\ existing' = existing \cup {c.sub}
       /\ work' = [Idle EXCEPT !.op = "add", !.sub = c.sub, !.at = p,
                     !.asked = c.asked, !.parent = par, !.rel = rel,
                     !.adopt = adopt, !.had = has, !.created = ~adopt]
       /\ pc' = IF ~IsDir(par, rel) \/ (adopt /\ ~has) THEN "i_check" ELSE "i_rename"
       /\ UNCHANGED <<tree, mounted, fstab, book>>

(* os.rename(src, staging); os.mkdir(src), right after the idle check. *)
Rename ==
    /\ pc = "i_rename" /\ pc' = "i_copy"
    /\ tree' = [tree EXCEPT ![work.parent] =
                  (@ \ Below(work.parent, work.rel))
                  \cup Under(Staging(work.rel), Contents(work.parent, work.rel))
                  \cup {DirAt(work.rel)}]
    /\ UNCHANGED <<existing, mounted, fstab, todo, work, book>>

Aside == Contents(work.parent, Staging(work.rel))

(* Mutant: a copy that fails half-way counts as made. *)
CopyInUnchecked ==
    /\ pc = "i_copy" /\ pc' = "i_copied"
    /\ \E part \in SUBSET Copyable(Aside) :
          tree' = [tree EXCEPT ![work.sub] = @ \cup part]
    /\ UNCHANGED <<existing, mounted, fstab, todo, work, book>>

(* _copy in progress: some of the entries are there. *)
CopyIn ==
    /\ pc = "i_copy"
    /\ \E part \in SUBSET Copyable(Aside) :
          tree' = [tree EXCEPT ![work.sub] = @ \cup part]
    /\ pc' \in {"i_copied", "i_undo"}
    /\ pc' = "i_copied" => Copyable(Aside) \subseteq tree'[work.sub]
    /\ UNCHANGED <<existing, mounted, fstab, todo, work, book>>

(* _unstage: the directory goes back, unless new files arrived meanwhile. *)
Unstage ==
    /\ pc = "i_undo" /\ pc' = "i_discard"
    /\ IF Has(work.parent, work.rel) THEN UNCHANGED tree
       ELSE tree' = [tree EXCEPT ![work.parent] =
                       (@ \ Below(work.parent, Staging(work.rel)))
                       \cup Under(work.rel, Aside)]
    /\ UNCHANGED <<existing, mounted, fstab, todo, work, book>>

(* _discard_partial: delete what this item created, empty what it found     *)
(* empty, and pass the first error on.                                      *)
Discard ==
    /\ pc = "i_discard" /\ Raise
    /\ \/ /\ work.created
          /\ existing' = existing \ {work.sub}
          /\ tree' = [tree EXCEPT ![work.sub] = {}]
       \/ /\ ~work.created /\ work.adopt /\ work.had
          /\ tree' = [tree EXCEPT ![work.sub] = {}] /\ UNCHANGED existing
       \/ UNCHANGED <<tree, existing>>
    /\ UNCHANGED <<mounted, fstab>>

(* Committed: shutil.rmtree of the old copy, which may leave some of it. *)
RemoveStaged ==
    /\ pc = "i_copied" /\ pc' = "i_check"
    /\ \E left \in SUBSET Aside :
          tree' = [tree EXCEPT ![work.parent] =
                     (@ \ Below(work.parent, Staging(work.rel)))
                     \cup (IF left = {} THEN {} ELSE Under(Staging(work.rel), left))]
    /\ UNCHANGED <<existing, mounted, fstab, todo, work, book>>

(* Files that appeared at the mountpoint meanwhile would be hidden. *)
CheckEmpty ==
    /\ pc = "i_check"
    /\ LET v == Visible(mounted, work.at)
       IN IF Has(v.sub, v.at) THEN Refuse
          ELSE /\ pc' = "i_mount"
               /\ UNCHANGED <<disk, todo, work, book>>

AddMount ==
    /\ pc = "i_mount" /\ pc' = "i_fstab"
    /\ tree' = WithDir(mounted, work.at)
    /\ mounted' = [mounted EXCEPT ![work.sub] = work.at]
    /\ UNCHANGED <<existing, fstab, todo, work, book>>

AddSetLine ==
    /\ pc = "i_fstab" /\ NextItem /\ FstabSet(work.at, work.sub)
    /\ UNCHANGED <<tree, existing, mounted>>

-----------------------------------------------------------------------------
(* _remove *)

(* Where it is mounted, or else where fstab mounts it. *)
WhereOf(n) ==
    IF mounted[n] # NoPath THEN mounted[n]
    ELSE IF \E p \in Paths : fstab[p] = n
         THEN CHOOSE p \in Paths : fstab[p] = n
         ELSE NoPath

MayRemove(n) ==
    LET p   == WhereOf(n)
        par == Parent(mounted, n, p)
    IN /\ p \notin {NoPath, Root}
       /\ ~\E e \in tree[n] : e.is \in Nested
       /\ ~Has(par, Rel(p, mounted[par]))
       /\ mounted[n] # NoPath => ~MountedBelow(mounted, p)

BeginRemove == \E c \in todo :
    LET n   == c.sub
        p   == WhereOf(n)
        par == Parent(mounted, n, p)
    IN /\ Pick(c) /\ c.op = "remove" /\ MayRemove(n)
       /\ work' = [Idle EXCEPT !.op = "remove", !.sub = n, !.at = p,
                     !.from = mounted[n], !.parent = par,
                     !.rel = Rel(p, mounted[par])]
       /\ mounted' = [mounted EXCEPT ![n] = NoPath]
       /\ pc' = "r_copy"
       /\ UNCHANGED <<tree, existing, fstab, book>>

CopyBack ==
    /\ pc = "r_copy"
    /\ \E part \in SUBSET Copyable(tree[work.sub]) :
          tree' = [tree EXCEPT ![work.parent] = @ \cup Under(work.rel, part)]
    /\ pc' \in {"r_drop", "r_empty"}
    /\ pc' = "r_drop" => Under(work.rel, Copyable(tree[work.sub])) \subseteq tree'[work.parent]
    /\ UNCHANGED <<existing, mounted, fstab, todo, work, book>>

(* The copy failed: the mountpoint, seen empty earlier, is emptied. *)
EmptyPartialCopy ==
    /\ pc = "r_empty" /\ pc' = "r_remount"
    /\ tree' = [tree EXCEPT ![work.parent] =
                  {e \in @ : ~IsPrefix(work.rel, e.at)}
                  \cup {DirAt(work.rel)}]
    /\ UNCHANGED <<existing, mounted, fstab, todo, work, book>>

(* Mounted again where it was; that can fail too. *)
Remount ==
    /\ pc = "r_remount" /\ Stop /\ UNCHANGED <<tree, existing, fstab>>
    /\ \/ mounted' = [mounted EXCEPT ![work.sub] = work.from] /\ UNCHANGED cuts
       \/ UNCHANGED mounted /\ Cut

(* Mutant: the line stays until the subvolume is gone. *)
RemoveKeepLine ==
    /\ pc = "r_drop" /\ pc' = "r_delete"
    /\ UNCHANGED <<disk, todo, work, book>>

RemoveDropLine ==
    /\ pc = "r_drop" /\ pc' = "r_delete"
    /\ fstab' = [fstab EXCEPT ![work.at] = NoSubvol]
    /\ UNCHANGED <<tree, existing, mounted, todo, work, book>>

DeleteSubvolume ==
    /\ pc = "r_delete" /\ NextItem
    /\ existing' = existing \ {work.sub}
    /\ tree' = [tree EXCEPT ![work.sub] = {}]
    /\ UNCHANGED <<mounted, fstab>>

-----------------------------------------------------------------------------
(* Refusals and failures *)

(* A check that refuses, or any probe, mount or umount of the beginning of  *)
(* an item that fails, a process found using the place included.            *)
RefuseItem == pc = "next" /\ todo # {} /\ Refuse

(* A command with check=True fails after the item has changed something.    *)
CommandFails ==
    /\ pc \in {"m_drop", "m_set", "m_mount", "i_mount", "i_fstab", "r_drop", "r_delete"}
    /\ cuts < MaxCuts /\ cuts' = cuts + 1
    /\ Stop /\ UNCHANGED disk

(* Creating succeeded, then chattr or the idle check before the rename fails. *)
IdleCheckFails ==
    /\ pc = "i_rename" /\ pc' = "i_discard"
    /\ UNCHANGED <<disk, todo, work, book>>

Apply ==
    \/ StartApply \/ Finish
    \/ InstallFstabOnly \/ BeginMove \/ MoveDropLine \/ MoveSetLine \/ MoveMount
    \/ BeginAdd \/ Rename \/ CopyIn \/ Unstage \/ Discard \/ RemoveStaged
    \/ CheckEmpty \/ AddMount \/ AddSetLine
    \/ BeginRemove \/ CopyBack \/ EmptyPartialCopy \/ Remount
    \/ RemoveDropLine \/ DeleteSubvolume
    \/ RefuseItem \/ CommandFails \/ IdleCheckFails

-----------------------------------------------------------------------------
(* The rest of the machine *)

(* A service writes a file by path. *)
WriteFile == \E d \in Data \ Stored, p \in Written :
    LET v == Visible(mounted, p)
    IN /\ d \notin exposed /\ ~(d \in Nested /\ pc # "idle")
       /\ tree' = [tree EXCEPT ![v.sub] = @ \cup {[at |-> v.at, is |-> d]}]
       /\ exposed' = IF pc \in {"r_copy", "r_empty"} /\ IsPrefix(work.at, p)
                     THEN exposed \cup {d} ELSE exposed
       /\ UNCHANGED <<existing, mounted, fstab, decl, managed, todo, pc,
                      work, found, ok, cuts, edits>>

(* The process is killed: whatever it did stays. *)
Die == pc # "idle" /\ Cut /\ Stop /\ UNCHANGED disk

(* Power cut or reboot: what fstab says is mounted, and nothing else. *)
Reboot ==
    /\ mounted' = Booted /\ UNCHANGED <<tree, existing, fstab>>
    /\ IF pc = "idle"
       THEN UNCHANGED <<todo, pc, work, book>>
       ELSE Cut /\ Stop

Next == Apply \/ Edit \/ WriteFile \/ Die \/ Reboot

Spec == Init /\ [][Next]_vars

-----------------------------------------------------------------------------
(* Properties *)

(* No command of an add, a move or a removal, failed or cut short, makes a   *)
(* file disappear: _fill_subvolume and _remove keep a whole copy somewhere   *)
(* until the other one is complete.  The exception is a file written where a *)
(* removal is copying back to, which a failed copy's clean-up deletes.       *)
NothingLost == [][Stored \ exposed \subseteq Stored']_vars

(* An apply that ended well, and a reboot after it, hide nothing that could  *)
(* be reached before: no mount covers files, no subvolume with files is left *)
(* unmounted.                                                                *)
NothingHidden == (pc = "idle" /\ ok /\ cuts = 0) => found \subseteq Reachable

(* Whenever the power goes, fstab names only subvolumes there are: a line    *)
(* for a missing one stops the boot.  (Two items cut short in a row can break   *)
(* this: README.)                                                            *)
FstabNamesExisting ==
    \A p \in Paths : fstab[p] # NoSubvol => fstab[p] \in existing

(* A plan made after an apply that ended well asks for nothing.              *)
SecondPlanIsSilent == (pc = "idle" /\ ok) => Diff(Probe(existing)) = {}

=============================================================================
