--------------------------- MODULE SubvolumesProofs ---------------------------
(***************************************************************************)
(* Whatever fails, dies or is rebooted while dasik adds, moves and removes *)
(* subvolumes, every file is still in one of them.  An apply that ended    *)
(* well hides none of them and is followed by a plan that asks for         *)
(* nothing, and fstab names no subvolume that is not there.  For any       *)
(* subvolumes, paths, files and documents, and any number of applies.      *)
(***************************************************************************)
EXTENDS Subvolumes, SequenceTheorems, WellFoundedInduction, TLAPS

\* The files among some entries, those of a subvolume, and below a directory of it.
Files(entries) == {e.is : e \in entries} \ {Directory}
FilesOf(s) == Files(tree[s])
FilesBelow(s, rel) == Files(Below(s, rel))

\* The subvolumes an apply may touch, and where.
Movable == Subvols \ {RootSubvol}
Places == Paths \ {Root}

SubvolTypeOK ==
  /\ tree \in [Subvols -> SUBSET Entry]
  /\ existing \subseteq Subvols
  /\ mounted \in [Subvols -> Paths \cup {NoPath}]
  /\ fstab \in [Paths -> Subvols \cup {NoSubvol}]
  /\ DOMAIN decl \subseteq Movable /\ \A s \in DOMAIN decl : decl[s] \in Places
  /\ managed \subseteq Movable
  /\ \A c \in todo : c.sub \in IF c.op = "install" THEN DOMAIN decl ELSE managed
  /\ pc = "idle" => todo = {}

\* The root subvolume is at / and nothing else is, now and after a boot; what is
\* mounted exists, and what does not exist is empty.
TreeSound ==
  /\ RootSubvol \in existing
  /\ \A s \in Subvols : mounted[s] = Root <=> s = RootSubvol
  /\ \A p \in Paths : fstab[p] = RootSubvol <=> p = Root
  /\ \A s \in Subvols : mounted[s] # NoPath => s \in existing
  /\ \A s \in Subvols \ existing : tree[s] = {}

Moves == {"m_drop", "m_set", "m_mount"}
Filling == {"i_rename", "i_copy", "i_copied", "i_undo", "i_discard"}
Adds == Filling \cup {"i_check", "i_mount", "i_fstab"}
CopyingBack == {"r_copy", "r_empty"}
Removes == CopyingBack \cup {"r_remount", "r_drop", "r_delete"}

\* What the item under way is about.
ItemSound ==
  /\ pc \in {"idle", "next"} \cup Moves \cup Adds \cup Removes
  /\ pc \in Moves \cup Adds \cup Removes => work.sub \in Movable /\ work.at \in Places
  /\ pc \in Moves \cup Adds => work.sub \in existing
  /\ pc = "m_drop" => work.from \in Places
  /\ pc \in Removes => work.from \in Places \cup {NoPath} /\ (work.from # NoPath => work.sub \in existing)
  /\ pc \in (Adds \cup Removes) \ {"i_fstab"} => mounted[work.sub] = NoPath
  /\ pc \in Filling \cup CopyingBack \cup {"r_drop", "r_delete"} => work.parent \in Subvols \ {work.sub}
  /\ pc \in Filling \cup CopyingBack =>
        /\ mounted[work.parent] \in Paths \ {work.at}
        /\ IsPrefix(mounted[work.parent], work.at)
        /\ work.rel = Rel(work.at, mounted[work.parent])

\* While a directory is moved into a subvolume there is a whole copy of it in the
\* parent, until there is one in the subvolume.
FillSound ==
  /\ pc \in {"i_rename", "i_copy", "i_undo", "i_discard"} => FilesOf(work.sub) \subseteq FilesOf(work.parent)
  /\ pc = "i_rename" => FilesBelow(work.parent, work.rel) \cap Nested = {}
  /\ pc \in {"i_rename", "i_copy"} => FilesBelow(work.parent, Staging(work.rel)) \cap Nested = {}
  /\ pc = "i_copied" => FilesBelow(work.parent, Staging(work.rel)) \subseteq FilesOf(work.sub)

\* While a subvolume is copied back, what lies at its mountpoint are copies, and
\* what services wrote there meanwhile; before it is deleted, all is copied.
RemoveSound ==
  /\ pc \in CopyingBack \cup {"r_drop", "r_delete"} => FilesOf(work.sub) \cap Nested = {}
  /\ pc \in CopyingBack => FilesBelow(work.parent, work.rel) \subseteq FilesOf(work.sub) \cup exposed
  /\ pc \in {"r_drop", "r_delete"} => FilesOf(work.sub) \subseteq FilesOf(work.parent)

\* The inductive invariant.
SubvolInv == SubvolTypeOK /\ TreeSound /\ ItemSound /\ FillSound /\ RemoveSound

-----------------------------------------------------------------------------
(***************************************************************************)
(* Paths                                                                   *)
(***************************************************************************)

\* Of paths that are not longer than some number one is at least as long as all.
LEMMA DeepestExists ==
  ASSUME NEW over, over # {}, NEW m, NEW b \in Nat,
         \A s \in over : m[s] \in Seq(STRING) /\ Len(m[s]) <= b
  PROVE  \E s \in over : \A t \in over : Len(m[t]) <= Len(m[s])
<1> DEFINE Above == {b - Len(m[s]) : s \in over}
<1>0. \A s \in over : Len(m[s]) \in Nat
  BY LenProperties
<1>1. Above \subseteq Nat /\ Above # {}
  BY <1>0
<1>2. PICK x \in Above : \A y \in Above : <<y, x>> \notin OpToRel(<, Nat)
  BY <1>1, NatLessThanWellFounded, WFMin, Zenon
<1>3. x \in Nat /\ \A y \in Above : y \in Nat /\ ~(y < x)
  BY <1>1, <1>2 DEF OpToRel
<1>4. PICK s \in over : x = b - Len(m[s])
  OBVIOUS
<1>5. \A t \in over : b - Len(m[t]) \in Above
  OBVIOUS
<1> HIDE DEF Above
<1>6. \A t \in over : Len(m[t]) <= Len(m[s])
  BY <1>0, <1>3, <1>4, <1>5
<1> QED
  BY <1>6

LEMMA PrefixAt ==
  ASSUME NEW S, NEW s \in Seq(S), NEW t \in Seq(S)
  PROVE  IsPrefix(s, t) <=> Len(s) <= Len(t) /\ \A i \in 1 .. Len(s) : s[i] = t[i]
<1>1. Len(s) \in Nat /\ Len(t) \in Nat
  BY LenProperties
<1>2. SubSeq(s, 1, Len(s)) = s
  BY SubSeqFull
<1>3. ASSUME Len(s) <= Len(t)
      PROVE  /\ SubSeq(t, 1, Len(s)) \in Seq(S)
             /\ Len(SubSeq(t, 1, Len(s))) = Len(s)
             /\ \A i \in 1 .. Len(s) : SubSeq(t, 1, Len(s))[i] = t[i]
  <2>1. \A i \in 1 .. Len(s) : t[i] \in S
    BY <1>1, <1>3, ElementOfSeq
  <2>2. \A i \in 1 .. Len(s) : 1 + i - 1 = i
    BY <1>1
  <2>3. Len(s) - 1 + 1 = Len(s) /\ (1 <= Len(s) \/ Len(s) = 0)
    BY <1>1
  <2> QED
    BY <1>1, <2>1, <2>2, <2>3, SubSeqProperties
<1>4. ASSUME Len(s) <= Len(t), \A i \in 1 .. Len(s) : s[i] = t[i]
      PROVE  SubSeq(t, 1, Len(s)) = s
  BY <1>3, <1>4, SeqEqual
<1> QED
  BY <1>2, <1>3, <1>4 DEF IsPrefix

\* What is left of a path below one it starts with.
LEMMA RelAt ==
  ASSUME NEW p \in Seq(STRING), NEW q \in Seq(STRING), IsPrefix(q, p)
  PROVE  /\ Rel(p, q) \in Seq(STRING)
         /\ Len(Rel(p, q)) = Len(p) - Len(q) /\ Len(q) <= Len(p)
         /\ Len(p) \in Nat /\ Len(q) \in Nat
         /\ \A i \in 1 .. Len(p) - Len(q) : Rel(p, q)[i] = p[Len(q) + i]
<1>1. Len(p) \in Nat /\ Len(q) \in Nat /\ Len(q) <= Len(p)
  BY LenProperties, PrefixAt
<1>2. \A i \in Len(q) + 1 .. Len(p) : p[i] \in STRING
  BY <1>1, ElementOfSeq
<1>3. /\ Len(p) - (Len(q) + 1) + 1 = Len(p) - Len(q)
      /\ Len(q) + 1 <= Len(p) \/ Len(p) - Len(q) = 0
      /\ \A i \in 1 .. Len(p) - Len(q) : Len(q) + 1 + i - 1 = Len(q) + i
      /\ Len(q) + 1 \in Int /\ Len(p) \in Int
  BY <1>1
<1> QED
  BY <1>1, <1>2, <1>3, SubSeqProperties DEF Rel

LEMMA RootIsPrefix ==
  ASSUME NEW p \in Seq(STRING)
  PROVE  IsPrefix(Root, p)
BY EmptySeq, LenProperties DEF IsPrefix, Root

\* Two paths that start alike, and go on alike.
LEMMA SameBelow ==
  ASSUME NEW p \in Seq(STRING), NEW w \in Seq(STRING), NEW q \in Seq(STRING),
         IsPrefix(q, p), IsPrefix(q, w), IsPrefix(Rel(p, q), Rel(w, q))
  PROVE  IsPrefix(p, w)
<1>1. /\ Len(p) - Len(q) <= Len(w) - Len(q)
      /\ \A i \in 1 .. Len(p) - Len(q) : Rel(p, q)[i] = Rel(w, q)[i]
  BY RelAt, PrefixAt
<1>2. Len(p) \in Nat /\ Len(q) \in Nat /\ Len(w) \in Nat /\ Len(q) <= Len(p) /\ Len(p) <= Len(w)
  BY <1>1, RelAt
<1>3. ASSUME NEW i \in 1 .. Len(p)
      PROVE  p[i] = w[i]
  <2>1. CASE i <= Len(q)
    <3>1. i \in 1 .. Len(q)
      BY <1>2, <2>1
    <3> QED
      BY <3>1, PrefixAt
  <2>2. CASE i > Len(q)
    <3> DEFINE j == i - Len(q)
    <3>1. j \in 1 .. Len(p) - Len(q) /\ j \in 1 .. Len(w) - Len(q) /\ i = Len(q) + j
      BY <1>2, <2>2
    <3> HIDE DEF j
    <3> QED
      BY <1>1, <3>1, RelAt
  <2> QED
    BY <1>2, <2>1, <2>2
<1> QED
  BY <1>2, <1>3, PrefixAt

\* A directory put aside is found under another name in the one above it.
LEMMA StagingIs ==
  ASSUME NEW p \in Paths, NEW q \in Paths, IsPrefix(q, p), q # p
  PROVE  LET rel == Rel(p, q) IN
           /\ rel \in Seq(STRING)
           /\ Staging(rel) \in Seq(STRING)
           /\ Len(Staging(rel)) \in Nat \ {0}
           /\ Len(p) \in DOMAIN p
           /\ Staging(rel)[Len(Staging(rel))] = Moving[p[Len(p)]]
<1> DEFINE rel == Rel(p, q)
           n == Len(rel)
           x == Moving[Last(rel)]
<1>1. p \in Seq(STRING) /\ q \in Seq(STRING)
  BY SubvolumesAssumption
<1>2. /\ rel \in Seq(STRING) /\ n = Len(p) - Len(q) /\ Len(q) <= Len(p)
      /\ Len(p) \in Nat /\ Len(q) \in Nat
      /\ \A i \in 1 .. Len(p) - Len(q) : rel[i] = p[Len(q) + i]
  BY <1>1, RelAt
<1>3. n \in Nat \ {0}
  <2>1. Len(p) # Len(q)
    <3> SUFFICES ASSUME Len(p) = Len(q)
                 PROVE  FALSE
      OBVIOUS
    <3>1. \A i \in 1 .. Len(q) : q[i] = p[i]
      BY <1>1, PrefixAt
    <3> QED
      BY <1>1, <3>1, SeqEqual
  <2> QED
    BY <1>2, <2>1
<1>4. x = Moving[p[Len(p)]] /\ Len(p) \in DOMAIN p /\ x \in STRING
  <2>1. Last(rel) = rel[n] /\ n \in 1 .. Len(p) - Len(q) /\ Len(q) + n = Len(p)
    BY <1>2, <1>3 DEF Last
  <2>2. DOMAIN p = 1 .. Len(p) /\ Len(p) \in 1 .. Len(p)
    BY <1>1, <1>2, <1>3, LenProperties
  <2> QED
    BY <1>2, <2>1, <2>2, MovingAssumption
<1> HIDE DEF rel, n, x
<1>5. Staging(rel) \in Seq(STRING) /\ Len(Staging(rel)) = n /\ Staging(rel)[n] = x
  <2>1. Front(rel) \in Seq(STRING) /\ Len(Front(rel)) = n - 1
    <3>1. \A i \in 1 .. n - 1 : rel[i] \in STRING
      BY <1>2, <1>3, ElementOfSeq DEF n
    <3>2. (1 <= n - 1 \/ n - 1 = 0) /\ n - 1 - 1 + 1 = n - 1 /\ n - 1 \in Int
      BY <1>3
    <3> QED
      BY <3>1, <3>2, SubSeqProperties DEF Front, n
  <2>2. n - 1 + 1 = n
    BY <1>3
  <2> QED
    BY <1>4, <2>1, <2>2, AppendProperties DEF Staging, x
<1> QED
  BY <1>2, <1>3, <1>4, <1>5 DEF rel

\* Nothing is written below a directory put aside.
LEMMA NotStaged ==
  ASSUME NEW p \in Paths, NEW q \in Paths, IsPrefix(q, p), q # p,
         NEW w \in Written, NEW r \in Paths, IsPrefix(r, w)
  PROVE  ~IsPrefix(Staging(Rel(p, q)), Rel(w, r))
<1> DEFINE aside == Staging(Rel(p, q))
           n == Len(aside)
<1>1. aside \in Seq(STRING) /\ n \in Nat \ {0} /\ Len(p) \in DOMAIN p /\ aside[n] = Moving[p[Len(p)]]
  BY StagingIs
<1>2. w \in Seq(STRING) /\ r \in Seq(STRING)
  BY SubvolumesAssumption
<1>3. /\ Rel(w, r) \in Seq(STRING) /\ Len(Rel(w, r)) = Len(w) - Len(r) /\ Len(r) <= Len(w)
      /\ Len(w) \in Nat /\ Len(r) \in Nat
      /\ \A i \in 1 .. Len(w) - Len(r) : Rel(w, r)[i] = w[Len(r) + i]
  BY <1>2, RelAt
<1> HIDE DEF aside
<1> SUFFICES ASSUME IsPrefix(aside, Rel(w, r))
             PROVE  FALSE
  BY DEF aside
<1>4. n <= Len(w) - Len(r) /\ Rel(w, r)[n] = aside[n]
  <2>1. n \in 1 .. n
    BY <1>1
  <2> QED
    BY <1>1, <1>3, <2>1, PrefixAt
<1>5. aside[n] = w[Len(r) + n] /\ Len(r) + n \in DOMAIN w
  <2>1. n \in 1 .. Len(w) - Len(r) /\ Len(r) + n \in 1 .. Len(w)
    BY <1>1, <1>3, <1>4
  <2>2. DOMAIN w = 1 .. Len(w)
    BY <1>2, LenProperties
  <2> QED
    BY <1>3, <1>4, <2>1, <2>2
<1> QED
  BY <1>1, <1>5, MovingAssumption

\* Directories are entries, and so is what they hold wherever it goes.
LEMMA EntriesStay ==
  ASSUME NEW rel \in Seq(STRING)
  PROVE  /\ DirAt(rel) \in Entry
         /\ \A entries \in SUBSET Entry : Under(rel, entries) \subseteq Entry
         /\ \A s \in Subvols : tree[s] \subseteq Entry => Contents(s, rel) \subseteq Entry
<1>1. DirAt(rel) \in Entry
  BY DEF DirAt, Entry
<1>2. ASSUME NEW entries \in SUBSET Entry
      PROVE  Under(rel, entries) \subseteq Entry
  <2>1. ASSUME NEW e \in entries
        PROVE  [at |-> rel \o e.at, is |-> e.is] \in Entry
    <3>1. e.at \in Seq(STRING) /\ e.is \in Data \cup {Directory}
      BY DEF Entry
    <3>2. rel \o e.at \in Seq(STRING)
      BY <3>1, ConcatProperties
    <3> QED
      BY <3>1, <3>2 DEF Entry
  <2> QED
    BY <1>1, <2>1 DEF Under
<1>3. ASSUME NEW s \in Subvols, tree[s] \subseteq Entry
      PROVE  Contents(s, rel) \subseteq Entry
  <2>1. ASSUME NEW p \in Seq(STRING)
        PROVE  Rel(p, rel) \in Seq(STRING)
    <3>1. Len(p) \in Nat /\ Len(rel) + 1 \in Nat /\ \A i \in Len(rel) + 1 .. Len(p) : p[i] \in STRING
      BY LenProperties, ElementOfSeq
    <3> QED
      BY <3>1, SubSeqProperties DEF Rel
  <2> QED
    BY <1>3, <2>1 DEF Contents, Below, Entry
<1> QED
  BY <1>1, <1>2, <1>3

-----------------------------------------------------------------------------
(***************************************************************************)
(* What shows at a path                                                    *)
(***************************************************************************)

\* Something is mounted over every path: the root subvolume, if nothing else.
LEMMA VisibleIs ==
  ASSUME SubvolTypeOK, TreeSound, NEW p \in Seq(STRING)
  PROVE  LET v == Visible(mounted, p) IN
           /\ v.sub \in Subvols /\ mounted[v.sub] \in Paths
           /\ IsPrefix(mounted[v.sub], p)
           /\ v.at = Rel(p, mounted[v.sub])
<1> DEFINE over == {s \in Subvols : mounted[s] # NoPath /\ IsPrefix(mounted[s], p)}
           top == CHOOSE s \in over : \A t \in over : Len(mounted[t]) <= Len(mounted[s])
<1>1. RootSubvol \in over
  BY RootIsPrefix, SubvolumesAssumption DEF TreeSound
<1>2. \A s \in over : mounted[s] \in Seq(STRING) /\ mounted[s] \in Paths /\ Len(mounted[s]) <= Len(p)
  BY PrefixAt, SubvolumesAssumption DEF SubvolTypeOK
<1>3. \E s \in over : \A t \in over : Len(mounted[t]) <= Len(mounted[s])
  <2>1. Len(p) \in Nat
    BY LenProperties
  <2> HIDE DEF over
  <2> QED
    BY <1>1, <1>2, <2>1, DeepestExists
<1>4. top \in over
  <2> HIDE DEF over
  <2> QED
    BY <1>3
<1>5. Visible(mounted, p) = [sub |-> top, at |-> Rel(p, mounted[top])]
  BY DEF Visible
<1> HIDE DEF top
<1> QED
  BY <1>2, <1>4, <1>5

\* A subvolume that goes to a path other than / has a parent there.
LEMMA ParentIs ==
  ASSUME SubvolTypeOK, TreeSound, NEW n \in Movable, NEW p \in Places
  PROVE  LET par == Parent(mounted, n, p) IN
           /\ par \in Subvols \ {n}
           /\ mounted[par] \in Paths \ {p}
           /\ IsPrefix(mounted[par], p)
<1> DEFINE over == {s \in Subvols \ {n} : mounted[s] \notin {NoPath, p} /\ IsPrefix(mounted[s], p)}
<1>0. p \in Seq(STRING)
  BY SubvolumesAssumption DEF Places
<1>1. RootSubvol \in over
  BY <1>0, RootIsPrefix, SubvolumesAssumption DEF TreeSound, Places, Movable
<1>2. \A s \in over : mounted[s] \in Seq(STRING) /\ mounted[s] \in Paths /\ Len(mounted[s]) <= Len(p)
  BY <1>0, PrefixAt, SubvolumesAssumption DEF SubvolTypeOK
<1>3. \E s \in over : \A t \in over : Len(mounted[t]) <= Len(mounted[s])
  <2>1. Len(p) \in Nat
    BY <1>0, LenProperties
  <2> HIDE DEF over
  <2> QED
    BY <1>1, <1>2, <2>1, DeepestExists
<1>4. Parent(mounted, n, p) \in over
  <2>1. Parent(mounted, n, p) = CHOOSE s \in over : \A t \in over : Len(mounted[t]) <= Len(mounted[s])
    BY DEF Parent
  <2> HIDE DEF over
  <2> QED
    BY <1>3, <2>1
<1> QED
  BY <1>2, <1>4

\* To make a mountpoint adds no file, and nothing to what does not exist.
LEMMA DirIsMade ==
  ASSUME SubvolTypeOK, TreeSound, NEW p \in Paths, tree' = WithDir(mounted, p)
  PROVE  /\ tree' \in [Subvols -> SUBSET Entry]
         /\ \A s \in Subvols : FilesOf(s)' = FilesOf(s)
         /\ \A s \in Subvols \ existing : tree'[s] = {}
<1> DEFINE v == Visible(mounted, p)
<1>1. v.sub \in existing /\ existing \subseteq Subvols /\ DirAt(v.at) \in Entry
  <2>1. p \in Seq(STRING)
    BY SubvolumesAssumption
  <2>2. /\ v.sub \in Subvols /\ mounted[v.sub] \in Paths /\ IsPrefix(mounted[v.sub], p)
        /\ v.at = Rel(p, mounted[v.sub])
    BY <2>1, VisibleIs
  <2>3. v.at \in Seq(STRING)
    BY <2>1, <2>2, RelAt, SubvolumesAssumption
  <2> QED
    BY <2>2, <2>3, EntriesStay, SubvolumesAssumption DEF SubvolTypeOK, TreeSound
<1>2. tree' = tree \/ tree' = [tree EXCEPT ![v.sub] = @ \cup {DirAt(v.at)}]
  BY DEF WithDir
<1> HIDE DEF v
<1>3. /\ tree' \in [Subvols -> SUBSET Entry]
      /\ \A s \in Subvols :
            tree'[s] = tree[s] \/ (s = v.sub /\ tree'[s] = tree[s] \cup {DirAt(v.at)})
  BY <1>1, <1>2 DEF SubvolTypeOK
<1> QED
  BY <1>1, <1>3 DEF TreeSound, FilesOf, Files, DirAt

-----------------------------------------------------------------------------
(***************************************************************************)
(* Steps of the plan, and of moves                                         *)
(***************************************************************************)

\* Between two items nothing is under way.
LEMMA Landed ==
  ASSUME SubvolTypeOK', TreeSound', pc' \in {"idle", "next"}
  PROVE  SubvolInv'
BY DEF SubvolInv, ItemSound, FillSound, RemoveSound, Moves, Adds, Filling, Removes, CopyingBack

LEMMA AtRest ==
  ASSUME SubvolTypeOK, TreeSound, UNCHANGED disk, UNCHANGED <<decl, managed>>,
         todo' \subseteq todo, pc' = "idle" => todo' = {}
  PROVE  SubvolTypeOK' /\ TreeSound'
<1>1. UNCHANGED <<tree, existing, mounted, fstab, decl, managed>>
  BY DEF disk
<1>2. SubvolTypeOK'
  <2>1. \A c \in todo' : c.sub \in IF c.op = "install" THEN DOMAIN decl' ELSE managed'
    BY <1>1 DEF SubvolTypeOK
  <2> QED
    BY <1>1, <2>1 DEF SubvolTypeOK
<1> QED
  BY <1>1, <1>2 DEF TreeSound

LEMMA Stopped ==
  ASSUME SubvolInv, Stop, UNCHANGED disk
  PROVE  SubvolInv'
BY AtRest, Landed DEF Stop, SubvolInv

\* The lines of fstab keep / for the root subvolume.
LEMMA LineSet ==
  ASSUME SubvolTypeOK, TreeSound, NEW p \in Places, NEW n \in Movable, FstabSet(p, n)
  PROVE  /\ fstab' \in [Paths -> Subvols \cup {NoSubvol}]
         /\ \A q \in Paths : fstab'[q] = RootSubvol <=> q = Root
BY SubvolumesAssumption DEF SubvolTypeOK, TreeSound, FstabSet, Places, Movable

LEMMA LineDropped ==
  ASSUME SubvolTypeOK, TreeSound, NEW p \in Places, fstab' = [fstab EXCEPT ![p] = NoSubvol]
  PROVE  /\ fstab' \in [Paths -> Subvols \cup {NoSubvol}]
         /\ \A q \in Paths : fstab'[q] = RootSubvol <=> q = Root
BY SubvolumesAssumption DEF SubvolTypeOK, TreeSound, Places

\* What becomes of the types and the tree when only lines change.
LEMMA LinesChange ==
  ASSUME SubvolTypeOK, TreeSound, UNCHANGED <<tree, existing, mounted, decl, managed>>,
         fstab' \in [Paths -> Subvols \cup {NoSubvol}],
         \A q \in Paths : fstab'[q] = RootSubvol <=> q = Root,
         todo' \subseteq todo, pc' # "idle"
  PROVE  SubvolTypeOK' /\ TreeSound'
<1>1. \A c \in todo' : c.sub \in IF c.op = "install" THEN DOMAIN decl' ELSE managed'
  BY DEF SubvolTypeOK
<1>2. SubvolTypeOK'
  BY <1>1 DEF SubvolTypeOK
<1> QED
  BY <1>2 DEF TreeSound

\* The same for the mounts.
LEMMA MountsChange ==
  ASSUME SubvolTypeOK, TreeSound, UNCHANGED <<fstab, decl, managed>>,
         tree' \in [Subvols -> SUBSET Entry],
         existing \subseteq existing', existing' \subseteq Subvols,
         \A s \in Subvols \ existing' : tree'[s] = {},
         NEW n \in existing' \ {RootSubvol}, NEW p \in Places \cup {NoPath},
         mounted' \in {mounted, [mounted EXCEPT ![n] = p]},
         todo' \subseteq todo, pc' = "idle" => todo' = {}
  PROVE  SubvolTypeOK' /\ TreeSound'
<1>1. \A c \in todo' : c.sub \in IF c.op = "install" THEN DOMAIN decl' ELSE managed'
  BY DEF SubvolTypeOK
<1>2. mounted' \in [Subvols -> Paths \cup {NoPath}]
  BY DEF SubvolTypeOK, Places
<1>3. SubvolTypeOK'
  BY <1>1, <1>2 DEF SubvolTypeOK
<1>4. \A s \in Subvols : mounted'[s] = mounted[s] \/ (s = n /\ mounted'[s] = p)
  BY DEF SubvolTypeOK
<1>5. TreeSound'
  BY <1>4, SubvolumesAssumption DEF TreeSound, Places
<1> QED
  BY <1>3, <1>5

LEMMA PlanStep ==
  ASSUME SubvolInv, StartApply \/ Finish \/ Edit
  PROVE  SubvolInv'
<1>1. CASE StartApply
  <2>1. PICK listing \in Listings :
          /\ todo' = Diff(Probe(listing)) /\ pc' = "next"
          /\ UNCHANGED disk /\ UNCHANGED <<decl, managed>>
    BY <1>1 DEF StartApply
  <2>2. \A c \in todo' : c.sub \in IF c.op = "install" THEN DOMAIN decl ELSE managed
    BY <2>1 DEF Diff
  <2>3. SubvolTypeOK' /\ TreeSound'
    BY <2>1, <2>2 DEF SubvolInv, SubvolTypeOK, TreeSound, disk
  <2> QED
    BY <2>1, <2>3, Landed
<1>2. CASE Finish
  <2>1. managed' \subseteq Movable /\ todo' = {}
    BY <1>2 DEF Finish, ManagedKeys, SubvolInv, SubvolTypeOK
  <2>2. UNCHANGED disk /\ UNCHANGED decl /\ pc' = "idle"
    BY <1>2 DEF Finish
  <2>3. SubvolTypeOK' /\ TreeSound'
    BY <2>1, <2>2 DEF SubvolInv, SubvolTypeOK, TreeSound, disk
  <2> QED
    BY <2>2, <2>3, Landed
<1>3. CASE Edit
  <2>1. PICK c \in Configs : /\ pc = "idle" /\ decl' = c
                             /\ UNCHANGED disk /\ UNCHANGED <<managed, todo, pc>>
    BY <1>3 DEF Edit
  <2>2. DOMAIN decl' \subseteq Movable /\ \A s \in DOMAIN decl' : decl'[s] \in Places
    BY <2>1, SubvolumesAssumption DEF Movable, Places
  <2>3. SubvolTypeOK' /\ TreeSound'
    BY <2>1, <2>2 DEF SubvolInv, SubvolTypeOK, TreeSound, disk
  <2> QED
    BY <2>1, <2>3, Landed
<1> QED
  BY <1>1, <1>2, <1>3

\* An item of the plan names a subvolume that may be touched, and its place.
LEMMA PickedIs ==
  ASSUME SubvolTypeOK, NEW c \in todo, Pick(c)
  PROVE  /\ c.sub \in Movable
         /\ c.op = "install" => decl[c.sub] \in Places
         /\ todo' \subseteq todo
BY DEF SubvolTypeOK, Pick

LEMMA MoveStep ==
  ASSUME SubvolInv, InstallFstabOnly \/ BeginMove \/ MoveDropLine \/ MoveSetLine \/ MoveMount
  PROVE  SubvolInv'
<1> USE DEF SubvolInv
<1>1. CASE InstallFstabOnly
  <2>1. PICK c \in todo : /\ Pick(c) /\ c.op = "install" /\ FstabSet(decl[c.sub], c.sub)
                           /\ UNCHANGED <<tree, existing, mounted, pc, work, book>>
    BY <1>1 DEF InstallFstabOnly
  <2>2. pc' = "next" /\ UNCHANGED <<decl, managed>>
    BY <2>1 DEF Pick, book
  <2>3. SubvolTypeOK' /\ TreeSound'
    BY <2>1, <2>2, PickedIs, LineSet, LinesChange
  <2> QED
    BY <2>2, <2>3, Landed
<1>2. CASE BeginMove
  <2>1. PICK c \in todo :
          /\ Pick(c) /\ c.op = "install" /\ mounted[c.sub] \notin {NoPath, decl[c.sub]}
          /\ mounted' = [mounted EXCEPT ![c.sub] = NoPath]
          /\ work' = [Idle EXCEPT !.op = "move", !.sub = c.sub, !.at = decl[c.sub],
                                  !.from = mounted[c.sub]]
          /\ pc' = "m_drop" /\ UNCHANGED <<tree, existing, fstab, book>>
    BY <1>2 DEF BeginMove
  <2>2. c.sub \in Movable /\ decl[c.sub] \in Places /\ todo' \subseteq todo
    BY <2>1, PickedIs
  <2>3. c.sub \in existing \ {RootSubvol} /\ mounted[c.sub] \in Places
    BY <2>1, <2>2 DEF Movable, Places, SubvolTypeOK, TreeSound
  <2>4. work'.sub = c.sub /\ work'.at = decl[c.sub] /\ work'.from = mounted[c.sub]
    BY <2>1 DEF Idle
  <2>5. SubvolTypeOK' /\ TreeSound'
    <3>1. UNCHANGED <<fstab, decl, managed>>
      BY <2>1 DEF book
    <3> QED
      BY <2>1, <2>2, <2>3, <3>1, MountsChange DEF SubvolTypeOK, TreeSound
  <2>6. ItemSound'
    BY <2>1, <2>2, <2>3, <2>4 DEF ItemSound, Moves, Adds, Filling, Removes, CopyingBack
  <2> QED
    BY <2>1, <2>5, <2>6 DEF FillSound, RemoveSound, CopyingBack
<1>3. CASE MoveDropLine \/ MoveSetLine
  <2>1. /\ pc \in Moves /\ pc' \in {"m_set", "m_mount"}
        /\ UNCHANGED <<tree, existing, mounted, todo, work, decl, managed>>
    BY <1>3 DEF MoveDropLine, MoveSetLine, Moves, book
  <2>2. work.sub \in Movable /\ work.at \in Places /\ (pc = "m_drop" => work.from \in Places)
    BY <2>1 DEF ItemSound, Movable, SubvolTypeOK
  <2>3. /\ fstab' \in [Paths -> Subvols \cup {NoSubvol}]
        /\ \A q \in Paths : fstab'[q] = RootSubvol <=> q = Root
    BY <1>3, <2>2, LineDropped, LineSet DEF MoveDropLine, MoveSetLine
  <2>4. SubvolTypeOK' /\ TreeSound'
    BY <2>1, <2>3, LinesChange
  <2>5. ItemSound'
    BY <2>1 DEF ItemSound, Moves, Adds, Filling, Removes, CopyingBack
  <2> QED
    BY <2>1, <2>4, <2>5 DEF FillSound, RemoveSound, CopyingBack
<1>4. CASE MoveMount
  <2>1. /\ pc = "m_mount" /\ pc' = "next" /\ tree' = WithDir(mounted, work.at)
        /\ mounted' = [mounted EXCEPT ![work.sub] = work.at]
        /\ UNCHANGED <<existing, fstab, todo, decl, managed>>
    BY <1>4 DEF MoveMount, NextItem, book
  <2>2. work.sub \in existing \ {RootSubvol} /\ work.at \in Places
    BY <2>1 DEF ItemSound, Moves, Movable
  <2>3. tree' \in [Subvols -> SUBSET Entry] /\ \A s \in Subvols \ existing : tree'[s] = {}
    BY <2>1, <2>2, DirIsMade DEF Places
  <2>4. SubvolTypeOK' /\ TreeSound'
    BY <2>1, <2>2, <2>3, MountsChange DEF SubvolTypeOK
  <2> QED
    BY <2>1, <2>4, Landed
<1> QED
  BY <1>1, <1>2, <1>3, <1>4

-----------------------------------------------------------------------------
(***************************************************************************)
(* Additions                                                               *)
(***************************************************************************)

\* Files of entries that are joined, taken away or moved under another directory.
LEMMA FilesJoined ==
  /\ \A A, B : Files(A \cup B) = Files(A) \cup Files(B)
  /\ \A A, B : Files(A) \subseteq Files(A \ B) \cup Files(B)
  /\ \A A, B : A \subseteq B => Files(A) \subseteq Files(B)
  /\ \A rel, A : Files(A \cup {DirAt(rel)}) = Files(A)
  /\ \A rel, A : Files(Under(rel, A)) = Files(A)
  /\ \A s, rel : Files(Contents(s, rel)) = FilesBelow(s, rel)
<1>1. \A A, B : Files(A \cup B) = Files(A) \cup Files(B)
  BY DEF Files
<1>2. \A A, B : Files(A) \subseteq Files(A \ B) \cup Files(B)
  BY DEF Files
<1>3. \A A, B : A \subseteq B => Files(A) \subseteq Files(B)
  BY DEF Files
<1>4. \A rel : Files({DirAt(rel)}) = {}
  BY DEF Files, DirAt
<1>5. \A rel, A : Files(Under(rel, A)) = Files(A)
  <2> TAKE rel, A
  <2> DEFINE Moved(e) == [at |-> rel \o e.at, is |-> e.is]
             moved == {Moved(e) : e \in A}
  <2>1. \A e : Moved(e).is = e.is
    OBVIOUS
  <2>2. Under(rel, A) = {DirAt(rel)} \cup moved
    BY DEF Under
  <2> HIDE DEF Moved
  <2>3. Files(moved) = Files(A)
    BY <2>1 DEF Files
  <2>4. Files(Under(rel, A)) = Files({DirAt(rel)}) \cup Files(moved)
    BY <1>1, <2>2
  <2> QED
    BY <1>4, <2>3, <2>4
<1>6. \A rel, A : Files(A \cup {DirAt(rel)}) = Files(A)
  <2> TAKE rel, A
  <2>1. Files(A \cup {DirAt(rel)}) = Files(A) \cup Files({DirAt(rel)})
    BY <1>1
  <2>2. Files(A) \cup {} = Files(A)
    OBVIOUS
  <2> QED
    BY <1>4, <2>1, <2>2
<1>7. \A s, rel : Files(Contents(s, rel)) = FilesBelow(s, rel)
  <2> TAKE s, rel
  <2> DEFINE Moved(e) == [at |-> Rel(e.at, rel), is |-> e.is]
             moved == {Moved(e) : e \in Below(s, rel)}
  <2>0. \A e : Moved(e).is = e.is
    OBVIOUS
  <2>1. Files(moved) = Files(Below(s, rel))
    <3> HIDE DEF Moved
    <3> QED
      BY <2>0 DEF Files
  <2>2. Files(moved \ {DirAt(Root)}) = Files(moved)
    <3> HIDE DEF moved
    <3> QED
      BY DEF Files, DirAt
  <2> QED
    BY <2>1, <2>2 DEF Contents, FilesBelow
<1> QED
  BY <1>1, <1>2, <1>3, <1>5, <1>6, <1>7

\* A subvolume that shows as empty holds no file.
LEMMA EmptyIs ==
  ASSUME SubvolTypeOK, NEW s \in Subvols, ~Has(s, Root)
  PROVE  FilesOf(s) = {}
<1>1. ASSUME NEW e \in tree[s]
      PROVE  e.is = Directory
  <2>1. e.at \in Seq(STRING)
    BY DEF SubvolTypeOK, Entry
  <2>2. e \in Below(s, Root)
    BY <2>1, RootIsPrefix DEF Below
  <2> QED
    BY <2>2 DEF Has
<1> QED
  BY <1>1 DEF FilesOf, Files

LEMMA TreeChanges ==
  ASSUME SubvolTypeOK, TreeSound, UNCHANGED <<existing, mounted, fstab, decl, managed>>,
         NEW x \in existing, NEW S \in SUBSET Entry, tree' = [tree EXCEPT ![x] = S],
         todo' \subseteq todo, pc' = "idle" => todo' = {}
  PROVE  /\ SubvolTypeOK' /\ TreeSound'
         /\ tree'[x] = S /\ \A s \in Subvols \ {x} : tree'[s] = tree[s]
<1>1. \A c \in todo' : c.sub \in IF c.op = "install" THEN DOMAIN decl' ELSE managed'
  BY DEF SubvolTypeOK
<1>2. tree' \in [Subvols -> SUBSET Entry] /\ x \in Subvols
  BY DEF SubvolTypeOK
<1>3. tree'[x] = S /\ \A s \in Subvols \ {x} : tree'[s] = tree[s]
  BY <1>2 DEF SubvolTypeOK
<1>4. SubvolTypeOK'
  BY <1>1, <1>2 DEF SubvolTypeOK
<1> QED
  BY <1>3, <1>4 DEF TreeSound

LEMMA AddBegins ==
  ASSUME SubvolInv, BeginAdd
  PROVE  SubvolInv'
<1> USE DEF SubvolInv
<1>1. PICK c \in todo :
        LET p     == decl[c.sub]
            par   == Parent(mounted, c.sub, p)
            rel   == Rel(p, mounted[par])
            adopt == c.sub \in existing
            has   == Has(par, rel)
        IN /\ Pick(c) /\ c.op = "install" /\ mounted[c.sub] = NoPath
           /\ MayAdd(c.sub, p, adopt)
           /\ existing' = existing \cup {c.sub}
           /\ work' = [Idle EXCEPT !.op = "add", !.sub = c.sub, !.at = p,
                         !.asked = c.asked, !.parent = par, !.rel = rel,
                         !.adopt = adopt, !.had = has, !.created = ~adopt]
           /\ pc' = IF ~IsDir(par, rel) \/ (adopt /\ ~has) THEN "i_check" ELSE "i_rename"
           /\ UNCHANGED <<tree, mounted, fstab, book>>
  BY DEF BeginAdd
<1> DEFINE p   == decl[c.sub]
           par == Parent(mounted, c.sub, p)
           rel == Rel(p, mounted[par])
<1>2. c.sub \in Movable /\ p \in Places /\ todo' \subseteq todo
  BY <1>1, PickedIs
<1>3. par \in Subvols \ {c.sub} /\ mounted[par] \in Paths \ {p} /\ IsPrefix(mounted[par], p)
  BY <1>2, ParentIs
<1>4. work'.sub = c.sub /\ work'.at = p /\ work'.parent = par /\ work'.rel = rel
  BY <1>1 DEF Idle
<1>5. pc' \in {"i_check", "i_rename"} /\ UNCHANGED <<tree, mounted, fstab, decl, managed>>
  BY <1>1 DEF book
<1>6. /\ existing' = existing \cup {c.sub} /\ mounted[c.sub] = NoPath
      /\ MayAdd(c.sub, p, c.sub \in existing)
      /\ pc' = "i_rename" => (c.sub \in existing => Has(par, rel))
  BY <1>1
<1> HIDE DEF p, par, rel
<1>7. SubvolTypeOK' /\ TreeSound'
  <2>1. /\ existing \subseteq existing' /\ existing' \subseteq Subvols
        /\ c.sub \in existing' \ {RootSubvol}
        /\ tree' \in [Subvols -> SUBSET Entry] /\ \A s \in Subvols \ existing' : tree'[s] = {}
    BY <1>2, <1>5, <1>6 DEF Movable, SubvolTypeOK, TreeSound
  <2> QED
    BY <1>2, <1>5, <2>1, MountsChange
<1>8. ItemSound'
  <2>1. work'.sub \in existing' \ {RootSubvol} /\ mounted'[work'.sub] = NoPath
    BY <1>2, <1>4, <1>5, <1>6 DEF Movable
  <2>2. /\ work'.parent \in Subvols \ {work'.sub} /\ mounted'[work'.parent] \in Paths \ {work'.at}
        /\ IsPrefix(mounted'[work'.parent], work'.at)
        /\ work'.rel = Rel(work'.at, mounted'[work'.parent])
    BY <1>3, <1>4, <1>5 DEF rel
  <2> QED
    BY <1>2, <1>4, <1>5, <2>1, <2>2 DEF ItemSound, Moves, Adds, Filling, Removes, CopyingBack
<1>9. ASSUME pc' = "i_rename"
      PROVE  /\ FilesOf(c.sub) = {}
             /\ FilesBelow(par, rel) \cap Nested = {}
             /\ FilesBelow(par, Staging(rel)) = {}
  <2>1. FilesOf(c.sub) = {}
    <3>1. CASE c.sub \in existing
      <4>1. ~Has(c.sub, Root)
        BY <1>6, <1>9, <3>1 DEF MayAdd, par, rel
      <4> QED
        BY <1>2, <4>1, EmptyIs DEF Movable
    <3>2. CASE c.sub \notin existing
      BY <1>2, <3>2 DEF TreeSound, Movable, FilesOf, Files
    <3> QED
      BY <3>1, <3>2
  <2>2. ~\E e \in Below(par, rel) : e.is \in Nested
    BY <1>6 DEF MayAdd, par, rel
  <2>3. Below(par, Staging(rel)) = {}
    BY <1>6 DEF MayAdd, IsDir, par, rel
  <2> QED
    BY <2>1, <2>2, <2>3 DEF FilesBelow, Files
<1>10. FillSound' /\ RemoveSound'
  <2>1. RemoveSound'
    BY <1>5 DEF RemoveSound, CopyingBack
  <2>2. /\ FilesOf(work.sub)' = FilesOf(c.sub)
        /\ FilesBelow(work.parent, work.rel)' = FilesBelow(par, rel)
        /\ FilesBelow(work.parent, Staging(work.rel))' = FilesBelow(par, Staging(rel))
    BY <1>4, <1>5 DEF FilesOf, FilesBelow, Below
  <2> QED
    BY <1>5, <1>9, <2>1, <2>2 DEF FillSound
<1> QED
  BY <1>7, <1>8, <1>10

\* What NothingLost asks of a step.
KeepsFiles == Stored \ exposed \subseteq Stored'

\* A file may go from one subvolume to another.
LEMMA KeptSomewhere ==
  ASSUME \A s \in Subvols : \A d \in FilesOf(s) : d \in exposed \/ \E t \in Subvols : d \in FilesOf(t)'
  PROVE  KeepsFiles
BY DEF KeepsFiles, Stored, FilesOf, Files

LEMMA KeptInPlace ==
  ASSUME \A s \in Subvols : FilesOf(s) \subseteq FilesOf(s)'
  PROVE  KeepsFiles
BY KeptSomewhere

\* The two subvolumes between which files are moved.
LEMMA BetweenTwo ==
  ASSUME SubvolInv, pc \in Filling \cup CopyingBack
  PROVE  /\ work.sub \in Movable /\ work.parent \in existing /\ work.parent # work.sub
         /\ pc \in Filling => work.sub \in existing
         /\ existing \subseteq Subvols
         /\ work.rel \in Seq(STRING) /\ Staging(work.rel) \in Seq(STRING)
         /\ tree[work.sub] \in SUBSET Entry /\ tree[work.parent] \in SUBSET Entry
<1>1. /\ work.sub \in Movable /\ work.at \in Paths
      /\ pc \in Filling => work.sub \in existing
      /\ work.parent \in Subvols \ {work.sub}
      /\ mounted[work.parent] \in Paths \ {work.at}
      /\ IsPrefix(mounted[work.parent], work.at)
      /\ work.rel = Rel(work.at, mounted[work.parent])
  BY DEF SubvolInv, ItemSound, Adds, Removes, Places
<1>2. work.rel \in Seq(STRING) /\ Staging(work.rel) \in Seq(STRING)
  BY <1>1, StagingIs
<1>3. work.parent \in existing
  BY <1>1, SubvolumesAssumption DEF SubvolInv, TreeSound
<1> QED
  BY <1>1, <1>2, <1>3 DEF SubvolInv, SubvolTypeOK, Movable

LEMMA SameItem ==
  ASSUME SubvolInv, UNCHANGED <<existing, mounted, work>>,
         \/ pc \in Filling /\ pc' \in Filling \cup {"i_check"}
         \/ pc \in CopyingBack /\ pc' \in Removes
         \/ pc = "r_drop" /\ pc' = "r_delete"
         \/ pc = "i_check" /\ pc' = "i_mount"
         \/ pc' = pc
  PROVE  ItemSound'
BY DEF SubvolInv, ItemSound, Moves, Adds, Filling, Removes, CopyingBack

LEMMA StagedAside ==
  ASSUME SubvolInv, Rename \/ IdleCheckFails \/ Unstage
  PROVE  SubvolInv' /\ KeepsFiles
<1> DEFINE s == work.sub
           q == work.parent
           R == work.rel
           aside == Staging(R)
<1>0. /\ pc \in {"i_rename", "i_undo"} /\ pc' \in {"i_copy", "i_discard"}
      /\ pc' = "i_copy" => pc = "i_rename"
      /\ UNCHANGED <<existing, mounted, fstab, todo, work, decl, managed>>
  BY DEF Rename, IdleCheckFails, Unstage, book, disk
<1>1. /\ s \in existing /\ q \in existing /\ q # s /\ existing \subseteq Subvols
      /\ R \in Seq(STRING) /\ aside \in Seq(STRING)
      /\ tree[s] \in SUBSET Entry /\ tree[q] \in SUBSET Entry
  BY <1>0, BetweenTwo DEF Filling
<1>2. FilesOf(s) \subseteq FilesOf(q)
  BY <1>0 DEF SubvolInv, FillSound
<1>3. ItemSound' /\ RemoveSound'
  BY <1>0, SameItem DEF Filling, RemoveSound, CopyingBack
<1> HIDE DEF s, q, R, aside
<1>4. ASSUME NEW T \in SUBSET Entry, tree' = [tree EXCEPT ![q] = T], FilesOf(q) \subseteq Files(T)
      PROVE  /\ SubvolTypeOK' /\ TreeSound' /\ tree'[q] = T
             /\ FilesOf(s)' \subseteq FilesOf(q)'
             /\ KeepsFiles
  <2>1. /\ SubvolTypeOK' /\ TreeSound'
        /\ tree'[q] = T /\ \A x \in Subvols \ {q} : tree'[x] = tree[x]
    BY <1>0, <1>1, <1>4, TreeChanges DEF SubvolInv
  <2>2. \A x \in Subvols : FilesOf(x) \subseteq FilesOf(x)'
    BY <1>4, <2>1 DEF FilesOf
  <2>3. FilesOf(s)' = FilesOf(s)
    BY <1>0, <1>1, <2>1 DEF FilesOf, s
  <2>4. q' = q /\ FilesOf(q) \subseteq FilesOf(q)'
    BY <1>0, <1>1, <2>2 DEF q
  <2> QED
    BY <1>2, <2>1, <2>2, <2>3, <2>4, KeptInPlace
<1>5. CASE Rename
  <2> DEFINE T == ((tree[q] \ Below(q, R)) \cup Under(aside, Contents(q, R))) \cup {DirAt(R)}
  <2>1. pc = "i_rename" /\ pc' = "i_copy" /\ tree' = [tree EXCEPT ![q] = T]
    BY <1>5 DEF Rename, s, q, R, aside
  <2>2. T \in SUBSET Entry
    BY <1>1, EntriesStay
  <2>3. Files(T) = Files(tree[q] \ Below(q, R)) \cup FilesBelow(q, R)
    <3> DEFINE U == (tree[q] \ Below(q, R)) \cup Under(aside, Contents(q, R))
    <3>1. Files(U) = Files(tree[q] \ Below(q, R)) \cup FilesBelow(q, R)
      BY FilesJoined
    <3> HIDE DEF U
    <3>2. Files(U \cup {DirAt(R)}) = Files(U)
      BY FilesJoined
    <3> QED
      BY <3>1, <3>2 DEF U
  <2>4. FilesOf(q) \subseteq Files(T)
    BY <2>3, FilesJoined DEF FilesOf, FilesBelow
  <2>5. Files({e \in T : IsPrefix(aside, e.at)}) \subseteq FilesBelow(q, aside) \cup FilesBelow(q, R)
    <3>1. {e \in T : IsPrefix(aside, e.at)}
            \subseteq (Below(q, aside) \cup Under(aside, Contents(q, R))) \cup {DirAt(R)}
      BY DEF Below
    <3>2. Files((Below(q, aside) \cup Under(aside, Contents(q, R))) \cup {DirAt(R)})
            = FilesBelow(q, aside) \cup FilesBelow(q, R)
      <4> DEFINE U == Below(q, aside) \cup Under(aside, Contents(q, R))
      <4>1. Files(U) = FilesBelow(q, aside) \cup FilesBelow(q, R)
        BY FilesJoined DEF FilesBelow
      <4> HIDE DEF U
      <4>2. Files(U \cup {DirAt(R)}) = Files(U)
        BY FilesJoined
      <4> QED
        BY <4>1, <4>2 DEF U
    <3> HIDE DEF T
    <3> QED
      BY <3>1, <3>2, FilesJoined
  <2>6. FilesBelow(q, R) \cap Nested = {} /\ FilesBelow(q, aside) \cap Nested = {}
    BY <2>1 DEF SubvolInv, FillSound, q, R, aside
  <2> HIDE DEF T
  <2>7. SubvolTypeOK' /\ TreeSound' /\ tree'[q] = T /\ FilesOf(s)' \subseteq FilesOf(q)' /\ KeepsFiles
    BY <1>4, <2>1, <2>2, <2>4
  <2>8. FilesBelow(q, aside)' = Files({e \in T : IsPrefix(aside, e.at)})
    BY <1>0, <2>7 DEF FilesBelow, Below, q, R, aside
  <2>9. FillSound'
    BY <2>1, <2>5, <2>6, <2>7, <2>8 DEF FillSound, s, q, R, aside
  <2> QED
    BY <1>3, <2>7, <2>9 DEF SubvolInv
<1>6. CASE IdleCheckFails
  <2>1. pc' = "i_discard" /\ UNCHANGED disk
    BY <1>6 DEF IdleCheckFails
  <2>2. SubvolTypeOK' /\ TreeSound'
    BY <1>0, <2>1, AtRest DEF SubvolInv
  <2>3. \A x : FilesOf(x)' = FilesOf(x)
    BY <2>1 DEF disk, FilesOf
  <2>4. FillSound' /\ KeepsFiles
    BY <1>0, <1>2, <2>1, <2>3, KeptInPlace DEF FillSound, s, q
  <2> QED
    BY <1>3, <2>2, <2>4 DEF SubvolInv
<1>7. CASE Unstage
  <2> DEFINE T == (tree[q] \ Below(q, aside)) \cup Under(R, Contents(q, aside))
  <2>1. pc' = "i_discard" /\ (tree' = tree \/ tree' = [tree EXCEPT ![q] = T])
    BY <1>7 DEF Unstage, Aside, s, q, R, aside
  <2>2. T \in SUBSET Entry
    BY <1>1, EntriesStay
  <2>3. Files(T) = Files(tree[q] \ Below(q, aside)) \cup FilesBelow(q, aside)
    BY FilesJoined
  <2>4. FilesOf(q) \subseteq Files(T)
    BY <2>3, FilesJoined DEF FilesOf, FilesBelow
  <2> HIDE DEF T
  <2>5. tree' = tree => tree' = [tree EXCEPT ![q] = tree[q]]
    BY DEF SubvolInv, SubvolTypeOK
  <2>6. SubvolTypeOK' /\ TreeSound' /\ FilesOf(s)' \subseteq FilesOf(q)' /\ KeepsFiles
    <3>1. CASE tree' = tree
      BY <1>1, <1>4, <2>5, <3>1 DEF FilesOf
    <3>2. CASE tree' = [tree EXCEPT ![q] = T]
      BY <1>4, <2>2, <2>4, <3>2
    <3> QED
      BY <2>1, <3>1, <3>2
  <2>7. FillSound'
    BY <2>1, <2>6 DEF FillSound, s, q
  <2> QED
    BY <1>3, <2>6, <2>7 DEF SubvolInv
<1> QED
  BY <1>5, <1>6, <1>7

LEMMA CopiedIn ==
  ASSUME SubvolInv, CopyIn
  PROVE  SubvolInv' /\ KeepsFiles
<1> DEFINE s == work.sub
           q == work.parent
           aside == Staging(work.rel)
<1>1. /\ pc = "i_copy" /\ pc' \in {"i_copied", "i_undo"}
      /\ pc' = "i_copied" => Copyable(Aside) \subseteq tree'[s]
      /\ UNCHANGED <<existing, mounted, fstab, todo, work, decl, managed>>
  BY DEF CopyIn, book
<1>2. PICK part \in SUBSET Copyable(Aside) : tree' = [tree EXCEPT ![s] = tree[s] \cup part]
  BY DEF CopyIn
<1>3. /\ s \in existing /\ q \in existing /\ q # s /\ existing \subseteq Subvols
      /\ aside \in Seq(STRING) /\ tree[s] \in SUBSET Entry /\ tree[q] \in SUBSET Entry
  BY <1>1, BetweenTwo DEF Filling
<1>4. Aside = Contents(q, aside)
  BY DEF Aside
<1>5. FilesOf(s) \subseteq FilesOf(q) /\ FilesBelow(q, aside) \cap Nested = {}
  BY <1>1 DEF SubvolInv, FillSound
<1>6. ItemSound' /\ RemoveSound'
  BY <1>1, SameItem DEF Filling, RemoveSound, CopyingBack
<1>7. s' = s /\ q' = q /\ aside' = aside
  BY <1>1
<1> HIDE DEF s, q, aside
<1>8. Files(Aside) = FilesBelow(q, aside) /\ Aside \subseteq Entry
  BY <1>3, <1>4, FilesJoined, EntriesStay
<1>9. Copyable(Aside) \subseteq Aside /\ Files(Copyable(Aside)) = Files(Aside)
  BY <1>5, <1>8 DEF Copyable, Files
<1>10. Files(part) \subseteq FilesBelow(q, aside) /\ part \subseteq Entry
  BY <1>8, <1>9, FilesJoined
<1>11. FilesBelow(q, aside) \subseteq FilesOf(q)
  BY FilesJoined DEF FilesBelow, FilesOf, Below
<1>12. /\ SubvolTypeOK' /\ TreeSound'
       /\ tree'[s] = tree[s] \cup part /\ \A x \in Subvols \ {s} : tree'[x] = tree[x]
  <2>1. tree[s] \cup part \in SUBSET Entry
    BY <1>3, <1>10
  <2> QED
    BY <1>1, <1>2, <1>3, <2>1, TreeChanges DEF SubvolInv
<1>13. FilesOf(s)' = FilesOf(s) \cup Files(part) /\ FilesOf(q)' = FilesOf(q)
  BY <1>3, <1>7, <1>12, FilesJoined DEF FilesOf
<1>14. FilesBelow(q, aside)' = FilesBelow(q, aside)
  BY <1>3, <1>7, <1>12 DEF FilesBelow, Below
<1>15. FillSound'
  <2>1. pc' = "i_undo" => FilesOf(s)' \subseteq FilesOf(q)'
    BY <1>5, <1>10, <1>11, <1>13
  <2>2. pc' = "i_copied" => FilesBelow(q, aside)' \subseteq FilesOf(s)'
    <3>1. Copyable(Aside) \subseteq tree'[s] => Files(Copyable(Aside)) \subseteq Files(tree'[s])
      BY FilesJoined
    <3>2. FilesOf(s)' = Files(tree'[s])
      BY <1>7 DEF FilesOf
    <3> QED
      BY <1>1, <1>8, <1>9, <1>14, <3>1, <3>2
  <2> QED
    BY <1>1, <2>1, <2>2 DEF FillSound, s, q, aside
<1>16. KeepsFiles
  <2>1. \A x \in Subvols : FilesOf(x) \subseteq FilesOf(x)'
    BY <1>7, <1>12, FilesJoined DEF FilesOf
  <2> QED
    BY <2>1, KeptInPlace
<1> QED
  BY <1>6, <1>12, <1>15, <1>16 DEF SubvolInv

LEMMA StagedRemoved ==
  ASSUME SubvolInv, RemoveStaged
  PROVE  SubvolInv' /\ KeepsFiles
<1> DEFINE s == work.sub
           q == work.parent
           aside == Staging(work.rel)
<1>1. /\ pc = "i_copied" /\ pc' = "i_check"
      /\ UNCHANGED <<existing, mounted, fstab, todo, work, decl, managed>>
  BY DEF RemoveStaged, book
<1>2. PICK left \in SUBSET Aside :
        tree' = [tree EXCEPT ![q] = (tree[q] \ Below(q, aside))
                                      \cup (IF left = {} THEN {} ELSE Under(aside, left))]
  BY DEF RemoveStaged
<1>3. /\ s \in existing /\ q \in existing /\ q # s /\ existing \subseteq Subvols
      /\ aside \in Seq(STRING) /\ tree[s] \in SUBSET Entry /\ tree[q] \in SUBSET Entry
  BY <1>1, BetweenTwo DEF Filling
<1>4. FilesBelow(q, aside) \subseteq FilesOf(s)
  BY <1>1 DEF SubvolInv, FillSound
<1>5. ItemSound' /\ RemoveSound' /\ FillSound'
  BY <1>1, SameItem DEF Filling, RemoveSound, CopyingBack, FillSound
<1>6. s' = s /\ q' = q /\ Aside = Contents(q, aside)
  BY <1>1 DEF Aside
<1> HIDE DEF s, q, aside
<1>7. Under(aside, left) \subseteq Entry
  <2>1. left \in SUBSET Entry
    BY <1>3, <1>6, EntriesStay
  <2> QED
    BY <1>3, <2>1, EntriesStay
<1> DEFINE T == (tree[q] \ Below(q, aside)) \cup (IF left = {} THEN {} ELSE Under(aside, left))
<1>8. T \in SUBSET Entry
  BY <1>3, <1>7
<1>9. /\ SubvolTypeOK' /\ TreeSound'
      /\ tree'[q] = T /\ \A x \in Subvols \ {q} : tree'[x] = tree[x]
  <2>1. tree' = [tree EXCEPT ![q] = T]
    BY <1>2
  <2> HIDE DEF T
  <2> QED
    BY <1>1, <1>3, <1>8, <2>1, TreeChanges DEF SubvolInv
<1>10. FilesOf(q) \subseteq Files(T) \cup FilesOf(s)
  <2>1. tree[q] \ Below(q, aside) \subseteq T
    OBVIOUS
  <2> HIDE DEF T
  <2>2. Files(tree[q] \ Below(q, aside)) \subseteq Files(T)
    BY <2>1, FilesJoined
  <2>3. Files(tree[q]) \subseteq Files(tree[q] \ Below(q, aside)) \cup Files(Below(q, aside))
    BY FilesJoined
  <2> QED
    BY <1>4, <2>2, <2>3 DEF FilesOf, FilesBelow
<1> HIDE DEF T
<1>11. KeepsFiles
  <2>1. \A x \in Subvols \ {q} : FilesOf(x)' = FilesOf(x)
    BY <1>9 DEF FilesOf
  <2>2. FilesOf(q)' = Files(T)
    BY <1>6, <1>9 DEF FilesOf
  <2>3. FilesOf(s)' = FilesOf(s)
    BY <1>3, <1>6, <1>9 DEF FilesOf
  <2>4. \A x \in Subvols : \A d \in FilesOf(x) :
          d \in FilesOf(x)' \/ (d \in FilesOf(q)' \/ d \in FilesOf(s)')
    BY <1>10, <2>1, <2>2, <2>3
  <2> QED
    BY <1>3, <1>6, <2>4, KeptSomewhere DEF s, q
<1> QED
  BY <1>5, <1>9, <1>11 DEF SubvolInv

\* What is deleted or emptied is a copy of what is still in the parent.
LEMMA Emptied ==
  ASSUME SubvolInv, NEW s \in Movable, mounted[s] = NoPath,
         NEW q \in Subvols \ {s}, FilesOf(s) \subseteq FilesOf(q),
         tree' = [tree EXCEPT ![s] = {}], existing' \in {existing, existing \ {s}},
         UNCHANGED <<mounted, fstab, decl, managed>>,
         todo' \subseteq todo, pc' = "idle" => todo' = {}
  PROVE  SubvolTypeOK' /\ TreeSound' /\ KeepsFiles
<1> USE DEF SubvolInv
<1>1. s \in Subvols /\ s # RootSubvol /\ tree'[s] = {} /\ \A x \in Subvols \ {s} : tree'[x] = tree[x]
  BY DEF SubvolTypeOK, Movable
<1>2. SubvolTypeOK'
  <2>1. \A c \in todo' : c.sub \in IF c.op = "install" THEN DOMAIN decl' ELSE managed'
    BY DEF SubvolTypeOK
  <2>2. tree' \in [Subvols -> SUBSET Entry] /\ existing' \subseteq Subvols
    BY DEF SubvolTypeOK
  <2> QED
    BY <2>1, <2>2 DEF SubvolTypeOK
<1>3. TreeSound'
  BY <1>1 DEF TreeSound
<1>4. KeepsFiles
  <2>1. \A x \in Subvols \ {s} : FilesOf(x)' = FilesOf(x)
    BY <1>1 DEF FilesOf
  <2> QED
    BY <2>1, KeptSomewhere
<1> QED
  BY <1>2, <1>3, <1>4

LEMMA Discarded ==
  ASSUME SubvolInv, Discard
  PROVE  SubvolInv' /\ KeepsFiles
<1>1. /\ pc = "i_discard" /\ pc' = "idle" /\ todo' = {}
      /\ UNCHANGED <<mounted, fstab, decl, managed>>
      /\ \/ UNCHANGED <<tree, existing>>
         \/ tree' = [tree EXCEPT ![work.sub] = {}] /\ existing' \in {existing, existing \ {work.sub}}
  BY DEF Discard, Raise, Stop
<1>2. /\ work.sub \in Movable /\ mounted[work.sub] = NoPath
      /\ work.parent \in Subvols \ {work.sub} /\ FilesOf(work.sub) \subseteq FilesOf(work.parent)
  BY <1>1 DEF SubvolInv, ItemSound, FillSound, Adds, Filling
<1>3. SubvolTypeOK' /\ TreeSound' /\ KeepsFiles
  <2>1. CASE UNCHANGED <<tree, existing>>
    <3>1. UNCHANGED disk
      BY <1>1, <2>1 DEF disk
    <3>2. KeepsFiles
      BY <2>1, KeptInPlace DEF FilesOf
    <3> QED
      BY <1>1, <3>1, <3>2, AtRest DEF SubvolInv
  <2> QED
    BY <1>1, <1>2, <2>1, Emptied
<1> QED
  BY <1>1, <1>3, Landed

LEMMA AddEnds ==
  ASSUME SubvolInv, CheckEmpty \/ AddMount \/ AddSetLine
  PROVE  SubvolInv' /\ KeepsFiles
<1> USE DEF SubvolInv
<1>1. CASE CheckEmpty
  <2>1. UNCHANGED disk /\ pc = "i_check" /\ (Stop \/ (pc' = "i_mount" /\ UNCHANGED <<todo, work, book>>))
    BY <1>1 DEF CheckEmpty, Refuse, Raise
  <2>2. KeepsFiles
    BY <2>1, KeptInPlace DEF disk, FilesOf
  <2>3. ASSUME pc' = "i_mount", UNCHANGED <<todo, work, book>>
        PROVE  SubvolInv'
    <3>1. SubvolTypeOK' /\ TreeSound'
      BY <2>1, <2>3, AtRest DEF book
    <3>2. ItemSound'
      BY <2>1, <2>3, SameItem DEF disk
    <3> QED
      BY <2>3, <3>1, <3>2 DEF FillSound, RemoveSound, CopyingBack
  <2> QED
    BY <2>1, <2>2, <2>3, Stopped
<1>2. CASE AddMount
  <2>1. /\ pc = "i_mount" /\ pc' = "i_fstab" /\ tree' = WithDir(mounted, work.at)
        /\ mounted' = [mounted EXCEPT ![work.sub] = work.at]
        /\ UNCHANGED <<existing, fstab, todo, work, decl, managed>>
    BY <1>2 DEF AddMount, book
  <2>2. work.sub \in existing \ {RootSubvol} /\ work.at \in Places
    BY <2>1 DEF ItemSound, Adds, Movable
  <2>3. /\ tree' \in [Subvols -> SUBSET Entry] /\ \A s \in Subvols \ existing : tree'[s] = {}
        /\ \A s \in Subvols : FilesOf(s)' = FilesOf(s)
    BY <2>1, <2>2, DirIsMade DEF Places
  <2>4. SubvolTypeOK' /\ TreeSound'
    BY <2>1, <2>2, <2>3, MountsChange DEF SubvolTypeOK
  <2>5. ItemSound' /\ FillSound' /\ RemoveSound'
    BY <2>1, <2>2 DEF ItemSound, FillSound, RemoveSound, Moves, Adds, Filling, Removes, CopyingBack
  <2> QED
    BY <2>3, <2>4, <2>5, KeptInPlace
<1>3. CASE AddSetLine
  <2>1. /\ pc = "i_fstab" /\ pc' = "next" /\ FstabSet(work.at, work.sub)
        /\ UNCHANGED <<tree, existing, mounted, todo, decl, managed>>
    BY <1>3 DEF AddSetLine, NextItem, book
  <2>2. work.sub \in Movable /\ work.at \in Places
    BY <2>1 DEF ItemSound, Adds, Movable, SubvolTypeOK
  <2>3. SubvolTypeOK' /\ TreeSound'
    BY <2>1, <2>2, LineSet, LinesChange
  <2> QED
    BY <2>1, <2>3, Landed, KeptInPlace DEF FilesOf
<1> QED
  BY <1>1, <1>2, <1>3

-----------------------------------------------------------------------------
(***************************************************************************)
(* Removals                                                                *)
(***************************************************************************)

LEMMA RemoveBegins ==
  ASSUME SubvolInv, BeginRemove
  PROVE  SubvolInv'
<1> USE DEF SubvolInv
<1>1. PICK c \in todo :
        LET n   == c.sub
            p   == WhereOf(n)
            par == Parent(mounted, n, p)
        IN /\ Pick(c) /\ c.op = "remove" /\ MayRemove(n)
           /\ work' = [Idle EXCEPT !.op = "remove", !.sub = n, !.at = p,
                         !.from = mounted[n], !.parent = par,
                         !.rel = Rel(p, mounted[par])]
           /\ mounted' = [mounted EXCEPT ![n] = NoPath]
           /\ pc' = "r_copy"
           /\ UNCHANGED <<tree, existing, fstab, book>>
  BY DEF BeginRemove
<1> DEFINE n   == c.sub
           p   == WhereOf(n)
           par == Parent(mounted, n, p)
           rel == Rel(p, mounted[par])
<1>2. n \in Movable /\ todo' \subseteq todo /\ MayRemove(n)
  BY <1>1, PickedIs
<1>3. p \in Places /\ mounted[n] \in Places \cup {NoPath}
  <2>1. mounted[n] \in Places \cup {NoPath}
    BY <1>2 DEF SubvolTypeOK, TreeSound, Movable, Places
  <2>2. p \notin {NoPath, Root}
    BY <1>2 DEF MayRemove
  <2> QED
    BY <2>1, <2>2 DEF WhereOf, Places
<1>4. par \in Subvols \ {n} /\ mounted[par] \in Paths \ {p} /\ IsPrefix(mounted[par], p)
  BY <1>2, <1>3, ParentIs
<1>5. /\ work'.sub = n /\ work'.at = p /\ work'.from = mounted[n]
      /\ work'.parent = par /\ work'.rel = rel
  BY <1>1 DEF Idle
<1>6. /\ mounted' = [mounted EXCEPT ![n] = NoPath] /\ pc' = "r_copy"
      /\ UNCHANGED <<tree, existing, fstab, decl, managed, exposed>>
  BY <1>1 DEF book
<1>7. (\A e \in tree[n] : e.is \notin Nested) /\ ~Has(par, rel)
  BY <1>2 DEF MayRemove
<1> HIDE DEF n, p, par, rel
<1>8. n \in Subvols \ {RootSubvol}
  BY <1>2 DEF Movable
<1>9. SubvolTypeOK' /\ TreeSound'
  <2>1. \A d \in todo' : d.sub \in IF d.op = "install" THEN DOMAIN decl' ELSE managed'
    BY <1>2, <1>6 DEF SubvolTypeOK
  <2>2. mounted' \in [Subvols -> Paths \cup {NoPath}]
    BY <1>6 DEF SubvolTypeOK
  <2>3. SubvolTypeOK'
    BY <1>6, <2>1, <2>2 DEF SubvolTypeOK
  <2>4. \A s \in Subvols : mounted'[s] = mounted[s] \/ (s = n /\ mounted'[s] = NoPath)
    BY <1>6 DEF SubvolTypeOK
  <2> QED
    BY <1>6, <1>8, <2>3, <2>4, SubvolumesAssumption DEF TreeSound
<1>10. ItemSound'
  <2>1. mounted'[n] = NoPath /\ mounted'[par] = mounted[par]
    BY <1>4, <1>6, <1>8 DEF SubvolTypeOK
  <2>2. mounted[n] # NoPath => n \in existing
    BY <1>8 DEF TreeSound
  <2> QED
    BY <1>2, <1>3, <1>4, <1>5, <1>6, <2>1, <2>2
    DEF ItemSound, Moves, Adds, Filling, Removes, CopyingBack, rel
<1>11. FillSound' /\ RemoveSound'
  <2>1. FilesOf(n) \cap Nested = {}
    BY <1>7 DEF FilesOf, Files
  <2>2. FilesBelow(par, rel) = {}
    BY <1>7 DEF Has, FilesBelow, Files
  <2>3. FilesOf(work.sub)' = FilesOf(n) /\ FilesBelow(work.parent, work.rel)' = FilesBelow(par, rel)
    BY <1>5, <1>6 DEF FilesOf, FilesBelow, Below
  <2> QED
    BY <1>6, <2>1, <2>2, <2>3 DEF FillSound, RemoveSound, Filling, CopyingBack
<1> QED
  BY <1>9, <1>10, <1>11

LEMMA CopiedBack ==
  ASSUME SubvolInv, CopyBack
  PROVE  SubvolInv' /\ KeepsFiles
<1> DEFINE s == work.sub
           q == work.parent
           R == work.rel
           all == Copyable(tree[s])
<1>1. /\ pc = "r_copy" /\ pc' \in {"r_drop", "r_empty"}
      /\ pc' = "r_drop" => Under(R, all) \subseteq tree'[q]
      /\ UNCHANGED <<existing, mounted, fstab, todo, work, decl, managed, exposed>>
  BY DEF CopyBack, book
<1>2. PICK part \in SUBSET all : tree' = [tree EXCEPT ![q] = tree[q] \cup Under(R, part)]
  BY DEF CopyBack
<1>3. /\ s \in Subvols /\ q \in existing /\ q # s /\ existing \subseteq Subvols
      /\ R \in Seq(STRING) /\ tree[s] \in SUBSET Entry /\ tree[q] \in SUBSET Entry
  BY <1>1, BetweenTwo DEF CopyingBack, Movable
<1>4. FilesOf(s) \cap Nested = {} /\ FilesBelow(q, R) \subseteq FilesOf(s) \cup exposed
  BY <1>1 DEF SubvolInv, RemoveSound, CopyingBack
<1>5. ItemSound' /\ FillSound'
  BY <1>1, SameItem DEF Removes, CopyingBack, FillSound
<1>6. s' = s /\ q' = q /\ R' = R
  BY <1>1
<1> HIDE DEF s, q, R
<1>7. all \subseteq tree[s] /\ Files(all) = FilesOf(s)
  BY <1>4 DEF Copyable, FilesOf, Files
<1> HIDE DEF all
<1>8. Files(part) \subseteq FilesOf(s) /\ part \in SUBSET Entry
  BY <1>3, <1>7, FilesJoined
<1>9. /\ SubvolTypeOK' /\ TreeSound'
      /\ tree'[q] = tree[q] \cup Under(R, part) /\ \A x \in Subvols \ {q} : tree'[x] = tree[x]
  <2>1. tree[q] \cup Under(R, part) \in SUBSET Entry
    BY <1>3, <1>8, EntriesStay
  <2> QED
    BY <1>1, <1>2, <1>3, <2>1, TreeChanges DEF SubvolInv
<1>10. FilesOf(s)' = FilesOf(s) /\ FilesOf(q)' = Files(tree'[q])
  BY <1>3, <1>6, <1>9 DEF FilesOf
<1>11. pc' = "r_drop" => FilesOf(s)' \subseteq FilesOf(q)'
  <2>1. Under(R, all) \subseteq tree'[q] => Files(Under(R, all)) \subseteq Files(tree'[q])
    BY FilesJoined
  <2>2. Files(Under(R, all)) = Files(all)
    BY FilesJoined
  <2> QED
    BY <1>1, <1>7, <1>10, <2>1, <2>2
<1>12. FilesBelow(q, R)' \subseteq FilesOf(s)' \cup exposed'
  <2>1. Below(q, R)' \subseteq Below(q, R) \cup Under(R, part)
    BY <1>6, <1>9 DEF Below
  <2>2. FilesBelow(q, R)' = Files(Below(q, R)')
    BY DEF FilesBelow
  <2>3. Files(Below(q, R)') \subseteq Files(Below(q, R) \cup Under(R, part))
    BY <2>1, FilesJoined
  <2>4. Files(Below(q, R) \cup Under(R, part)) = FilesBelow(q, R) \cup Files(part)
    BY FilesJoined DEF FilesBelow
  <2> QED
    BY <1>1, <1>4, <1>8, <1>10, <2>2, <2>3, <2>4
<1>13. RemoveSound'
  BY <1>1, <1>4, <1>10, <1>11, <1>12 DEF RemoveSound, CopyingBack, s, q, R
<1>14. KeepsFiles
  <2>1. \A x \in Subvols : FilesOf(x) \subseteq FilesOf(x)'
    BY <1>9, FilesJoined DEF FilesOf
  <2> QED
    BY <2>1, KeptInPlace
<1> QED
  BY <1>5, <1>9, <1>13, <1>14 DEF SubvolInv

LEMMA PartialEmptied ==
  ASSUME SubvolInv, EmptyPartialCopy
  PROVE  SubvolInv' /\ KeepsFiles
<1> DEFINE s == work.sub
           q == work.parent
           R == work.rel
           T == {e \in tree[q] : ~IsPrefix(R, e.at)} \cup {DirAt(R)}
<1>1. /\ pc = "r_empty" /\ pc' = "r_remount" /\ tree' = [tree EXCEPT ![q] = T]
      /\ UNCHANGED <<existing, mounted, fstab, todo, work, decl, managed>>
  BY DEF EmptyPartialCopy, book
<1>2. /\ s \in Subvols /\ q \in existing /\ q # s /\ existing \subseteq Subvols
      /\ R \in Seq(STRING) /\ tree[q] \in SUBSET Entry
  BY <1>1, BetweenTwo DEF CopyingBack, Movable
<1>3. FilesBelow(q, R) \subseteq FilesOf(s) \cup exposed
  BY <1>1 DEF SubvolInv, RemoveSound, CopyingBack
<1>4. ItemSound' /\ FillSound' /\ RemoveSound'
  BY <1>1, SameItem DEF Removes, CopyingBack, FillSound, RemoveSound
<1>5. s' = s /\ q' = q
  BY <1>1
<1> HIDE DEF s, q, R
<1>6. T \in SUBSET Entry
  BY <1>2, EntriesStay
<1>7. FilesOf(q) \subseteq Files(T) \cup FilesBelow(q, R)
  BY DEF FilesOf, FilesBelow, Below, Files
<1> HIDE DEF T
<1>8. /\ SubvolTypeOK' /\ TreeSound'
      /\ tree'[q] = T /\ \A x \in Subvols \ {q} : tree'[x] = tree[x]
  BY <1>1, <1>2, <1>6, TreeChanges DEF SubvolInv
<1>9. KeepsFiles
  <2>1. \A x \in Subvols \ {q} : FilesOf(x)' = FilesOf(x)
    BY <1>8 DEF FilesOf
  <2>2. FilesOf(q)' = Files(T) /\ FilesOf(s)' = FilesOf(s)
    BY <1>2, <1>5, <1>8 DEF FilesOf
  <2>3. \A x \in Subvols : \A d \in FilesOf(x) :
          d \in exposed \/ (d \in FilesOf(x)' \/ d \in FilesOf(s)')
    <3>1. \A d \in FilesOf(q) : d \in exposed \/ (d \in FilesOf(q)' \/ d \in FilesOf(s)')
      BY <1>3, <1>7, <2>2
    <3> QED
      BY <1>5, <2>1, <3>1
  <2> QED
    BY <1>2, <1>5, <2>3, KeptSomewhere DEF s
<1> QED
  BY <1>4, <1>8, <1>9 DEF SubvolInv

LEMMA RemoveEnds ==
  ASSUME SubvolInv, Remount \/ RemoveDropLine \/ DeleteSubvolume
  PROVE  SubvolInv' /\ KeepsFiles
<1> USE DEF SubvolInv
<1>1. CASE Remount
  <2>1. /\ pc = "r_remount" /\ pc' = "idle" /\ todo' = {}
        /\ UNCHANGED <<tree, existing, fstab, decl, managed>>
        /\ mounted' \in {mounted, [mounted EXCEPT ![work.sub] = work.from]}
    BY <1>1 DEF Remount, Stop
  <2>2. /\ work.sub \in Movable /\ mounted[work.sub] = NoPath
        /\ work.from \in Places \cup {NoPath} /\ (work.from # NoPath => work.sub \in existing)
    BY <2>1 DEF ItemSound, Adds, Removes
  <2>3. KeepsFiles
    BY <2>1, KeptInPlace DEF FilesOf
  <2>4. SubvolTypeOK' /\ TreeSound'
    <3>1. CASE work.sub \in existing
      BY <2>1, <2>2, <3>1, MountsChange DEF Movable, SubvolTypeOK, TreeSound
    <3>2. CASE work.sub \notin existing
      <4>1. mounted' = mounted
        BY <2>1, <2>2, <3>2 DEF SubvolTypeOK
      <4>2. UNCHANGED disk
        BY <2>1, <4>1 DEF disk
      <4> QED
        BY <2>1, <4>2, AtRest
    <3> QED
      BY <3>1, <3>2
  <2> QED
    BY <2>1, <2>3, <2>4, Landed
<1>2. CASE RemoveDropLine
  <2>1. /\ pc = "r_drop" /\ pc' = "r_delete" /\ fstab' = [fstab EXCEPT ![work.at] = NoSubvol]
        /\ UNCHANGED <<tree, existing, mounted, todo, work, decl, managed>>
    BY <1>2 DEF RemoveDropLine, book
  <2>2. work.at \in Places
    BY <2>1 DEF ItemSound, Removes
  <2>3. SubvolTypeOK' /\ TreeSound'
    BY <2>1, <2>2, LineDropped, LinesChange
  <2>4. ItemSound' /\ FillSound'
    BY <2>1, SameItem DEF FillSound
  <2>5. \A x : FilesOf(x)' = FilesOf(x)
    BY <2>1 DEF FilesOf
  <2>6. FilesOf(work.sub)' = FilesOf(work.sub) /\ FilesOf(work.parent)' = FilesOf(work.parent)
    BY <2>1 DEF FilesOf
  <2>7. RemoveSound'
    BY <2>1, <2>6 DEF RemoveSound, CopyingBack
  <2> QED
    BY <2>3, <2>4, <2>5, <2>7, KeptInPlace
<1>3. CASE DeleteSubvolume
  <2>1. /\ pc = "r_delete" /\ pc' = "next" /\ existing' = existing \ {work.sub}
        /\ tree' = [tree EXCEPT ![work.sub] = {}]
        /\ UNCHANGED <<mounted, fstab, todo, decl, managed>>
    BY <1>3 DEF DeleteSubvolume, NextItem, book
  <2>2. /\ work.sub \in Movable /\ mounted[work.sub] = NoPath
        /\ work.parent \in Subvols \ {work.sub} /\ FilesOf(work.sub) \subseteq FilesOf(work.parent)
    BY <2>1 DEF ItemSound, RemoveSound, Adds, Removes
  <2>3. SubvolTypeOK' /\ TreeSound' /\ KeepsFiles
    BY <2>1, <2>2, Emptied
  <2> QED
    BY <2>1, <2>3, Landed
<1> QED
  BY <1>1, <1>2, <1>3

-----------------------------------------------------------------------------
(***************************************************************************)
(* Services, deaths and reboots                                            *)
(***************************************************************************)

\* What is mounted after a boot.
LEMMA BootedIs ==
  ASSUME SubvolTypeOK, TreeSound
  PROVE  /\ Booted \in [Subvols -> Paths \cup {NoPath}]
         /\ \A s \in Subvols : Booted[s] = Root <=> s = RootSubvol
         /\ \A s \in Subvols : Booted[s] # NoPath => s \in existing
<1>1. ASSUME NEW s \in Subvols
      PROVE  \/ /\ s \in existing /\ Booted[s] \in Paths /\ fstab[Booted[s]] = s
             \/ /\ Booted[s] = NoPath /\ ~(s \in existing /\ \E p \in Paths : fstab[p] = s)
  BY DEF Booted
<1>2. Booted \in [Subvols -> Paths \cup {NoPath}]
  BY <1>1 DEF Booted
<1> QED
  BY <1>1, <1>2, SubvolumesAssumption DEF TreeSound

LEMMA Rebooted ==
  ASSUME SubvolInv, Reboot
  PROVE  SubvolInv' /\ KeepsFiles
<1>1. /\ pc' = "idle" /\ todo' = {} /\ mounted' = Booted
      /\ UNCHANGED <<tree, existing, fstab, decl, managed>>
  BY DEF Reboot, Stop, book, SubvolInv, SubvolTypeOK
<1>2. SubvolTypeOK'
  BY <1>1, BootedIs DEF SubvolInv, SubvolTypeOK
<1>3. TreeSound'
  BY <1>1, BootedIs DEF SubvolInv, TreeSound
<1> QED
  BY <1>1, <1>2, <1>3, Landed, KeptInPlace DEF FilesOf

LEMMA FileWritten ==
  ASSUME SubvolInv, WriteFile
  PROVE  SubvolInv' /\ KeepsFiles
<1>1. PICK d \in Data \ Stored, p \in Written :
        LET v == Visible(mounted, p)
        IN /\ ~(d \in Nested /\ pc # "idle")
           /\ tree' = [tree EXCEPT ![v.sub] = @ \cup {[at |-> v.at, is |-> d]}]
           /\ exposed' = IF pc \in {"r_copy", "r_empty"} /\ IsPrefix(work.at, p)
                         THEN exposed \cup {d} ELSE exposed
           /\ UNCHANGED <<existing, mounted, fstab, decl, managed, todo, pc, work>>
  BY DEF WriteFile
<1> DEFINE v == Visible(mounted, p)
           x == v.sub
           e == [at |-> v.at, is |-> d]
<1>2. p \in Seq(STRING)
  BY SubvolumesAssumption
<1>3. /\ x \in Subvols /\ mounted[x] \in Paths /\ IsPrefix(mounted[x], p)
      /\ v.at = Rel(p, mounted[x])
  BY <1>2, VisibleIs DEF SubvolInv
<1>4. x \in existing /\ existing \subseteq Subvols /\ tree[x] \in SUBSET Entry
  BY <1>3, SubvolumesAssumption DEF SubvolInv, SubvolTypeOK, TreeSound
<1>5. e \in Entry /\ e.is = d /\ e.at = Rel(p, mounted[x])
  <2>1. v.at \in Seq(STRING)
    BY <1>2, <1>3, RelAt, SubvolumesAssumption
  <2> QED
    BY <1>3, <2>1 DEF Entry
<1>6. /\ d \in Nested => pc = "idle"
      /\ tree' = [tree EXCEPT ![x] = tree[x] \cup {e}]
      /\ exposed \subseteq exposed'
      /\ pc \in CopyingBack /\ IsPrefix(work.at, p) => d \in exposed'
      /\ UNCHANGED <<existing, mounted, fstab, decl, managed, todo, pc, work>>
  BY <1>1 DEF CopyingBack
<1> HIDE DEF v, x, e
<1>7. /\ SubvolTypeOK' /\ TreeSound'
      /\ tree'[x] = tree[x] \cup {e} /\ \A y \in Subvols \ {x} : tree'[y] = tree[y]
  <2>1. tree[x] \cup {e} \in SUBSET Entry
    BY <1>4, <1>5
  <2>2. pc' = "idle" => todo' = {}
    BY <1>6 DEF SubvolInv, SubvolTypeOK
  <2> QED
    BY <1>4, <1>6, <2>1, <2>2, TreeChanges DEF SubvolInv
<1>8. ItemSound'
  BY <1>6, SameItem
<1>9. KeepsFiles
  <2>1. \A y \in Subvols : tree[y] \subseteq tree'[y]
    BY <1>7
  <2> QED
    BY <2>1, KeptInPlace DEF FilesOf, Files
<1> DEFINE s == work.sub
           q == work.parent
<1>10. ASSUME pc \in Filling \cup CopyingBack \cup {"r_drop", "r_delete"}
       PROVE  /\ s \in Subvols \ {x} /\ q \in Subvols
              /\ FilesOf(s)' = FilesOf(s) /\ FilesOf(q) \subseteq FilesOf(q)'
  <2>1. s \in Movable /\ mounted[s] = NoPath /\ q \in Subvols
    BY <1>10 DEF SubvolInv, ItemSound, Adds, Filling, Removes, CopyingBack
  <2>2. s \in Subvols \ {x}
    BY <1>3, <2>1, SubvolumesAssumption DEF Movable
  <2>3. tree'[s] = tree[s] /\ tree[q] \subseteq tree'[q] /\ s' = s /\ q' = q
    BY <1>6, <1>7, <2>1, <2>2
  <2>4. FilesOf(s)' = FilesOf(s)
    BY <2>3 DEF FilesOf
  <2>5. FilesOf(q) \subseteq FilesOf(q)'
    BY <2>3, FilesJoined DEF FilesOf
  <2> QED
    BY <2>1, <2>2, <2>4, <2>5
<1>11. ASSUME pc \in Filling \cup CopyingBack, NEW rel
       PROVE  /\ FilesBelow(work.parent, rel)' \subseteq FilesBelow(work.parent, rel) \cup {d}
              /\ ~(x = work.parent /\ IsPrefix(rel, e.at))
                   => FilesBelow(work.parent, rel)' = FilesBelow(work.parent, rel)
  <2>1. work' = work /\ work.parent \in Subvols
    BY <1>6, <1>10, <1>11
  <2>2. Below(work.parent, rel)' \subseteq Below(work.parent, rel) \cup {e}
    BY <1>7, <2>1 DEF Below
  <2>3. Files(Below(work.parent, rel) \cup {e}) \subseteq FilesBelow(work.parent, rel) \cup {d}
    BY <1>5 DEF Files, FilesBelow
  <2>4. ~(x = work.parent /\ IsPrefix(rel, e.at)) => Below(work.parent, rel)' = Below(work.parent, rel)
    BY <1>7, <2>1 DEF Below
  <2>5. FilesBelow(work.parent, rel)' = Files(Below(work.parent, rel)')
    BY DEF FilesBelow
  <2>6. Files(Below(work.parent, rel)') \subseteq Files(Below(work.parent, rel) \cup {e})
    BY <2>2, FilesJoined
  <2> QED
    BY <2>3, <2>4, <2>5, <2>6 DEF FilesBelow
<1>12. ASSUME pc \in Filling \cup CopyingBack
       PROVE  /\ work.at \in Paths /\ mounted[q] \in Paths \ {work.at}
              /\ IsPrefix(mounted[q], work.at) /\ work.rel = Rel(work.at, mounted[q])
  BY <1>12 DEF SubvolInv, ItemSound, Adds, Removes, Places
<1>13. FillSound'
  <2>1. ASSUME pc \in Filling, FilesOf(s) \subseteq FilesOf(q)
        PROVE  FilesOf(work.sub)' \subseteq FilesOf(work.parent)'
    BY <1>10, <2>1
  <2>2. ASSUME pc \in Filling, NEW rel, FilesBelow(q, rel) \cap Nested = {}
        PROVE  FilesBelow(work.parent, rel)' \cap Nested = {}
    <3>1. d \notin Nested
      BY <1>6, <2>2 DEF Filling
    <3> QED
      BY <1>11, <2>2, <3>1
  <2>3. ASSUME pc = "i_copied"
        PROVE  FilesBelow(work.parent, Staging(work.rel))' \subseteq FilesOf(work.sub)'
    <3>1. pc \in Filling /\ FilesBelow(q, Staging(work.rel)) \subseteq FilesOf(s)
      BY <2>3 DEF SubvolInv, FillSound, Filling
    <3>2. x = work.parent => ~IsPrefix(Staging(work.rel), e.at)
      BY <1>3, <1>5, <1>12, <3>1, NotStaged
    <3> DEFINE aside == Staging(work.rel)
    <3>3. aside' = aside
      BY <1>6
    <3> HIDE DEF aside
    <3>4. FilesBelow(work.parent, aside)' = FilesBelow(work.parent, aside)
      BY <1>11, <3>1, <3>2, <3>3 DEF aside
    <3> QED
      BY <1>10, <3>1, <3>4 DEF aside
  <2> QED
    BY <1>6, <2>1, <2>2, <2>3 DEF SubvolInv, FillSound, Filling
<1>14. RemoveSound'
  <2>1. pc \in CopyingBack \cup {"r_drop", "r_delete"} => FilesOf(work.sub)' = FilesOf(work.sub)
    BY <1>10
  <2>2. pc \in {"r_drop", "r_delete"} => FilesOf(work.parent) \subseteq FilesOf(work.parent)'
    BY <1>10
  <2>3. ASSUME pc \in CopyingBack
        PROVE  FilesBelow(work.parent, work.rel)' \subseteq FilesOf(work.sub) \cup exposed'
    <3>1. FilesBelow(work.parent, work.rel) \subseteq FilesOf(work.sub) \cup exposed
      BY <2>3 DEF SubvolInv, RemoveSound
    <3>2. x = work.parent /\ IsPrefix(work.rel, e.at) => d \in exposed'
      <4> SUFFICES ASSUME x = work.parent, IsPrefix(work.rel, e.at)
                   PROVE  IsPrefix(work.at, p)
        BY <1>6, <2>3
      <4>1. work.at \in Seq(STRING) /\ mounted[q] \in Seq(STRING)
        BY <1>12, <2>3, SubvolumesAssumption
      <4> QED
        BY <1>2, <1>3, <1>5, <1>12, <2>3, <4>1, SameBelow
    <3> DEFINE R == work.rel
    <3>3. R' = R
      BY <1>6
    <3> HIDE DEF R
    <3>4. /\ FilesBelow(work.parent, R)' \subseteq FilesBelow(work.parent, R) \cup {d}
          /\ ~(x = work.parent /\ IsPrefix(R, e.at))
               => FilesBelow(work.parent, R)' = FilesBelow(work.parent, R)
      BY <1>11, <2>3, <3>3
    <3> QED
      BY <1>6, <3>1, <3>2, <3>4 DEF R
  <2> QED
    BY <1>6, <2>1, <2>2, <2>3 DEF SubvolInv, RemoveSound, CopyingBack
<1> QED
  BY <1>7, <1>8, <1>9, <1>13, <1>14 DEF SubvolInv

-----------------------------------------------------------------------------
(***************************************************************************)
(* The theorems                                                            *)
(***************************************************************************)

LEMMA SubvolInit == Init => SubvolInv
<1> SUFFICES ASSUME Init
             PROVE  SubvolInv
  OBVIOUS
<1>1. SubvolTypeOK
  BY SubvolumesAssumption DEF Init, SubvolTypeOK
<1>2. TreeSound
  BY SubvolumesAssumption DEF Init, TreeSound
<1> QED
  BY <1>1, <1>2 DEF SubvolInv, Init, ItemSound, FillSound, RemoveSound, Moves, Adds, Filling,
                    Removes, CopyingBack

\* Steps after which every subvolume has the files it had.
LEMMA NothingMoves ==
  ASSUME SubvolInv,
         \/ StartApply \/ Finish \/ Edit
         \/ InstallFstabOnly \/ BeginMove \/ MoveDropLine \/ MoveSetLine \/ MoveMount
         \/ BeginAdd \/ BeginRemove
  PROVE  SubvolInv' /\ KeepsFiles
<1>1. CASE MoveMount
  <2>1. work.at \in Paths /\ tree' = WithDir(mounted, work.at)
    BY <1>1 DEF MoveMount, SubvolInv, ItemSound, Moves, Places
  <2> QED
    BY <1>1, <2>1, DirIsMade, KeptInPlace, MoveStep DEF SubvolInv
<1>2. CASE StartApply \/ Finish \/ Edit
  <2>1. tree' = tree
    BY <1>2 DEF StartApply, Finish, Edit, disk
  <2> QED
    BY <1>2, <2>1, PlanStep, KeptInPlace DEF FilesOf
<1>3. CASE InstallFstabOnly \/ BeginMove \/ MoveDropLine \/ MoveSetLine
  <2>1. tree' = tree
    BY <1>3 DEF InstallFstabOnly, BeginMove, MoveDropLine, MoveSetLine
  <2> QED
    BY <1>3, <2>1, MoveStep, KeptInPlace DEF FilesOf
<1>4. CASE BeginAdd \/ BeginRemove
  <2>1. tree' = tree
    BY <1>4 DEF BeginAdd, BeginRemove
  <2> QED
    BY <1>4, <2>1, AddBegins, RemoveBegins, KeptInPlace DEF FilesOf
<1> QED
  BY <1>1, <1>2, <1>3, <1>4

\* A refusal, a command that fails and a process that dies leave the disk as it is.
LEMMA CutShortInPlace ==
  ASSUME SubvolInv, RefuseItem \/ CommandFails \/ Die
  PROVE  SubvolInv' /\ KeepsFiles
<1>1. Stop /\ UNCHANGED disk
  BY DEF RefuseItem, Refuse, Raise, CommandFails, Die
<1>2. tree' = tree
  BY <1>1 DEF disk
<1> QED
  BY <1>1, <1>2, Stopped, KeptInPlace DEF FilesOf

LEMMA SubvolStep ==
  ASSUME SubvolInv, [Next]_vars
  PROVE  SubvolInv' /\ KeepsFiles
<1>1. CASE UNCHANGED vars
  <2>1. UNCHANGED disk /\ UNCHANGED <<tree, existing, mounted, todo, pc, work, decl, managed, exposed>>
    BY <1>1 DEF vars, disk, book
  <2>2. SubvolTypeOK' /\ TreeSound'
    BY <2>1, AtRest DEF SubvolInv, SubvolTypeOK
  <2>3. ItemSound'
    BY <2>1, SameItem
  <2>4. FillSound' /\ RemoveSound'
    BY <2>1 DEF SubvolInv, FillSound, RemoveSound, FilesOf, FilesBelow, Below
  <2> QED
    BY <2>1, <2>2, <2>3, <2>4, KeptInPlace DEF SubvolInv, FilesOf
<1>2. CASE Next
  <2>1. CASE \/ StartApply \/ Finish \/ Edit
             \/ InstallFstabOnly \/ BeginMove \/ MoveDropLine \/ MoveSetLine \/ MoveMount
             \/ BeginAdd \/ BeginRemove
    BY <2>1, NothingMoves
  <2>2. CASE Rename \/ IdleCheckFails \/ Unstage
    BY <2>2, StagedAside
  <2>3. CASE CopyIn
    BY <2>3, CopiedIn
  <2>4. CASE RemoveStaged
    BY <2>4, StagedRemoved
  <2>5. CASE Discard
    BY <2>5, Discarded
  <2>6. CASE CheckEmpty \/ AddMount \/ AddSetLine
    BY <2>6, AddEnds
  <2>7. CASE CopyBack
    BY <2>7, CopiedBack
  <2>8. CASE EmptyPartialCopy
    BY <2>8, PartialEmptied
  <2>9. CASE Remount \/ RemoveDropLine \/ DeleteSubvolume
    BY <2>9, RemoveEnds
  <2>10. CASE RefuseItem \/ CommandFails \/ Die
    BY <2>10, CutShortInPlace
  <2>11. CASE WriteFile
    BY <2>11, FileWritten
  <2>12. CASE Reboot
    BY <2>12, Rebooted
  <2> QED
    BY <1>2, <2>1, <2>2, <2>3, <2>4, <2>5, <2>6, <2>7, <2>8, <2>9, <2>10, <2>11, <2>12
    DEF Next, Apply
<1> QED
  BY <1>1, <1>2

\* Whatever is declared, and wherever an apply fails, dies or is rebooted: a mounted
\* subvolume exists, one that does not exist holds nothing, / stays the root subvolume,
\* and of a directory that is being moved between two subvolumes one whole copy is there.
THEOREM SubvolumesAreSound == Spec => []SubvolInv
<1>1. Init => SubvolInv
  BY SubvolInit
<1>2. SubvolInv /\ [Next]_vars => SubvolInv'
  BY SubvolStep
<1> QED
  BY <1>1, <1>2, PTL DEF Spec

\* No step of dasik makes a file disappear: not the copies of an add or of a removal, not
\* what undoes one that failed, not the deletion of a subvolume or of a directory put
\* aside.  Only what services wrote, meanwhile, to the directory a removal copies back to
\* is exempt, since the clean-up of a failed copy empties it.
THEOREM NothingIsLost == Spec => NothingLost
<1>1. SubvolInv /\ [Next]_vars => [KeepsFiles]_vars
  BY SubvolStep
<1>2. [KeepsFiles]_vars => [Stored \ exposed \subseteq Stored']_vars
  BY DEF KeepsFiles
<1> QED
  BY <1>1, <1>2, SubvolumesAreSound, PTL DEF Spec, NothingLost

-----------------------------------------------------------------------------
(***************************************************************************)
(* Mounts, lines and the plan                                              *)
(***************************************************************************)


\* No two subvolumes are mounted at one place, none has two lines, and nothing is
\* mounted where the item under way will mount, or found its subvolume mounted.
MountsApart ==
  /\ \A s, t \in Subvols : mounted[s] = mounted[t] /\ mounted[s] # NoPath => s = t
  /\ \A p, q \in Paths : fstab[p] = fstab[q] /\ fstab[p] # NoSubvol => p = q
  /\ pc \in Moves \cup (Adds \ {"i_fstab"}) =>
        mounted[work.sub] = NoPath /\ \A s \in Subvols : mounted[s] # work.at
  /\ pc = "i_fstab" => mounted[work.sub] = work.at
  /\ pc = "m_drop" => \A s \in Subvols : mounted[s] # work.from
  /\ pc = "m_mount" => fstab[work.at] = work.sub
  /\ pc \in Removes \ {"r_delete"} =>
        IF work.from = NoPath THEN fstab[work.at] = work.sub
        ELSE work.at = work.from /\ \A s \in Subvols : mounted[s] # work.at

\* A declared subvolume that is mounted where it should be, with its line.
InPlace(s) == mounted[s] = decl[s] /\ fstab[decl[s]] = s

Installs(s) == \E c \in todo : c.op = "install" /\ c.sub = s

\* While an apply runs, what is not in place is planned or under way; when it has
\* ended well, all is.
PlanKept ==
  /\ \A c \in todo : c.op = "install" \/ (c.op = "remove" /\ c.sub \notin DOMAIN decl)
  /\ pc \in Moves \cup Adds => work.sub \in DOMAIN decl /\ work.at = decl[work.sub]
  /\ pc \in Removes => work.sub \notin DOMAIN decl
  /\ pc # "idle" => ~ok /\ \A s \in DOMAIN decl :
        \/ InPlace(s) \/ Installs(s)
        \/ pc \in Moves \cup Adds /\ work.sub = s
  /\ pc = "idle" /\ ok => managed = DOMAIN decl /\ \A s \in DOMAIN decl : InPlace(s)

NoLine(s) == \A p \in Paths : fstab[p] # s
LineOnlyAt(s, q) == \A p \in Paths : fstab[p] = s => p = q

\* Until an item is cut short, every line is that of a mounted subvolume; until a
\* second one is, a mounted subvolume has no line elsewhere, and a subvolume that is
\* to be deleted has none.
LinesSound ==
  /\ cuts \in Nat
  /\ cuts = 0 =>
        /\ \A s \in Subvols : \/ pc \in Moves \cup Adds \cup Removes /\ s = work.sub
                              \/ LineOnlyAt(s, mounted[s])
        /\ pc \in Adds => NoLine(work.sub)
        /\ pc \in Removes => work.from # NoPath
  /\ cuts <= 1 =>
        /\ FstabNamesExisting
        /\ \A s \in Subvols : \/ pc = "i_fstab" /\ s = work.sub
                              \/ mounted[s] = NoPath \/ LineOnlyAt(s, mounted[s])
        /\ pc = "r_delete" => NoLine(work.sub)
        /\ pc \in Removes \ {"r_delete"} => LineOnlyAt(work.sub, work.at)
        /\ pc \in Filling /\ work.created => NoLine(work.sub)

\* An apply that ends between two commands.
LEMMA CutThere ==
  ASSUME SubvolInv, MountsApart, PlanKept, LinesSound, Stop, UNCHANGED <<existing, mounted, fstab>>,
         cuts' = cuts + 1 \/ (cuts' = cuts /\ pc \in {"next", "i_check"})
  PROVE  MountsApart' /\ PlanKept' /\ LinesSound'
<1>1. pc' = "idle" /\ ~ok' /\ todo' = {}
  BY DEF Stop
<1>2. MountsApart'
  BY <1>1 DEF MountsApart, Moves, Adds, Removes, Filling, CopyingBack
<1>3. PlanKept'
  BY <1>1 DEF PlanKept, Moves, Adds, Removes, Filling, CopyingBack
<1>4. LinesSound'
  <2>1. cuts' \in Nat /\ (cuts' <= 1 => cuts <= 1) /\ (cuts' = 0 => cuts = 0 /\ pc \in {"next", "i_check"})
        /\ (cuts' <= 1 /\ pc \notin {"next", "i_check"} => cuts = 0)
    BY DEF LinesSound
  <2>2. cuts' <= 1 => FstabNamesExisting'
    BY <2>1 DEF LinesSound, FstabNamesExisting
  <2>3. cuts' <= 1 => \A s \in Subvols : mounted[s] = NoPath \/ LineOnlyAt(s, mounted[s])
    BY <2>1 DEF LinesSound, MountsApart, LineOnlyAt, NoLine, Adds, Filling
  <2>4. cuts' = 0 => \A s \in Subvols : LineOnlyAt(s, mounted[s])
    BY <2>1 DEF LinesSound, LineOnlyAt, NoLine, Adds, Moves, Removes, Filling, CopyingBack
  <2> QED
    BY <1>1, <2>1, <2>2, <2>3, <2>4 DEF LinesSound, LineOnlyAt, NoLine, Adds, Moves, Removes, Filling, CopyingBack
<1> QED
  BY <1>2, <1>3, <1>4

LEMMA PlanMade ==
  ASSUME SubvolInv, MountsApart, PlanKept, LinesSound, StartApply \/ Finish \/ Edit
  PROVE  MountsApart' /\ PlanKept' /\ LinesSound'
<1> USE DEF SubvolInv, disk, book
<1>1. MountsApart'
  BY DEF MountsApart, StartApply, Finish, Edit, Moves, Adds, Removes, Filling, CopyingBack
<1>2. LinesSound'
  BY DEF LinesSound, FstabNamesExisting, NoLine, LineOnlyAt, StartApply, Finish, Edit, Moves, Adds, Removes, Filling, CopyingBack
<1>3. CASE StartApply
  <2>1. PICK listing \in Listings : todo' = Diff(Probe(listing))
    BY <1>3 DEF StartApply
  <2>2. /\ \A c \in todo' : c.op = "install" \/ (c.op = "remove" /\ c.sub \notin DOMAIN decl)
        /\ \A s \in DOMAIN decl : InPlace(s) \/ \E c \in todo' : c.op = "install" /\ c.sub = s
    <3>1. ASSUME NEW c \in todo'
          PROVE  c.op = "install" \/ (c.op = "remove" /\ c.sub \notin DOMAIN decl)
      BY <2>1, <3>1 DEF Diff
    <3>2. ASSUME NEW s \in DOMAIN decl, ~InPlace(s)
          PROVE  \E c \in todo' : c.op = "install" /\ c.sub = s
      <4> DEFINE c == [op |-> "install", sub |-> s,
                       asked |-> Probe(listing).mounted[s] = NoPath /\ WouldDeleteContents(decl[s])]
      <4>1. \/ Probe(listing).mounted[s] = NoPath \/ Probe(listing).mounted[s] # decl[s]
            \/ Probe(listing).fstab[decl[s]] # s
        BY <3>2 DEF InPlace, Probe
      <4>2. c \in todo'
        BY <2>1, <4>1 DEF Diff
      <4> QED
        BY <4>2
    <3> QED
      BY <3>1, <3>2
  <2> QED
    BY <1>1, <1>2, <1>3, <2>2 DEF PlanKept, InPlace, Installs, StartApply, Moves, Adds, Removes, Filling, CopyingBack
<1>4. CASE Finish
  <2>1. \A s \in DOMAIN decl : InPlace(s)
    BY <1>4 DEF PlanKept, Finish, Installs, Moves, Adds, Removes, Filling, CopyingBack
  <2>2. ManagedKeys = DOMAIN decl
    BY <2>1 DEF ManagedKeys, InPlace
  <2> QED
    BY <1>1, <1>2, <1>4, <2>1, <2>2 DEF PlanKept, InPlace, Installs, Finish, Moves, Adds, Removes, Filling, CopyingBack
<1>5. CASE Edit
  BY <1>1, <1>2, <1>5 DEF PlanKept, InPlace, Installs, Edit, Moves, Adds, Removes, Filling, CopyingBack, SubvolTypeOK
<1> QED
  BY <1>3, <1>4, <1>5

LEMMA MoveSettles ==
  ASSUME SubvolInv, MountsApart, PlanKept, LinesSound,
         InstallFstabOnly \/ BeginMove \/ MoveDropLine \/ MoveSetLine \/ MoveMount
  PROVE  MountsApart' /\ PlanKept' /\ LinesSound'
<1> USE DEF book, NextItem
<1>1. CASE InstallFstabOnly
  <2>1. PICK c \in todo : /\ Pick(c) /\ c.op = "install" /\ mounted[c.sub] = decl[c.sub]
                          /\ FstabSet(decl[c.sub], c.sub)
                          /\ UNCHANGED <<tree, existing, mounted, pc, work, book>>
    BY <1>1 DEF InstallFstabOnly
  <2>2. c.sub \in Movable /\ decl[c.sub] \in Places /\ c.sub \in DOMAIN decl
    BY <2>1, PickedIs DEF SubvolInv, SubvolTypeOK
  <2>3. pc = "next" /\ c.sub \in existing
    BY <2>1, <2>2, SubvolumesAssumption DEF Pick, SubvolInv, TreeSound, Movable, Places
  <2>4. MountsApart'
    BY <2>1, <2>2, <2>3 DEF MountsApart, FstabSet, Moves, Adds, Removes, Filling, CopyingBack
  <2>5. PlanKept'
    BY <2>1, <2>2, <2>3, SubvolumesAssumption DEF PlanKept, MountsApart, InPlace, Installs, FstabSet, Pick, Moves, Adds, Removes, Filling, CopyingBack, SubvolInv, SubvolTypeOK, Movable, Places
  <2>6. LinesSound'
    BY <2>1, <2>2, <2>3, SubvolumesAssumption DEF LinesSound, FstabSet, FstabNamesExisting, NoLine, LineOnlyAt, Moves, Adds, Removes, Filling, CopyingBack, SubvolInv, SubvolTypeOK, Movable, Places
  <2> QED
    BY <2>4, <2>5, <2>6
<1>2. CASE BeginMove
  <2>1. PICK c \in todo :
            /\ Pick(c) /\ c.op = "install" /\ mounted[c.sub] \notin {NoPath, decl[c.sub]}
            /\ MayMove(c.sub, decl[c.sub])
            /\ mounted' = [mounted EXCEPT ![c.sub] = NoPath]
            /\ work' = [Idle EXCEPT !.op = "move", !.sub = c.sub, !.at = decl[c.sub],
                                    !.from = mounted[c.sub]]
            /\ pc' = "m_drop"
            /\ UNCHANGED <<tree, existing, fstab, book>>
    BY <1>2 DEF BeginMove
  <2>2. c.sub \in Movable /\ decl[c.sub] \in Places /\ c.sub \in DOMAIN decl
    BY <2>1, PickedIs DEF SubvolInv, SubvolTypeOK
  <2>3. /\ pc = "next" /\ work'.sub = c.sub /\ work'.at = decl[c.sub] /\ work'.from = mounted[c.sub]
        /\ \A s \in Subvols : mounted[s] # decl[c.sub]
    BY <2>1 DEF Pick, Idle, MayMove, IsMountpoint
  <2>4. MountsApart'
    BY <2>1, <2>2, <2>3, SubvolumesAssumption DEF MountsApart, Moves, Adds, Removes, Filling, CopyingBack, SubvolInv, SubvolTypeOK, Movable, Places
  <2>5. PlanKept'
    BY <2>1, <2>2, <2>3, SubvolumesAssumption DEF PlanKept, InPlace, Installs, Pick, Moves, Adds, Removes, Filling, CopyingBack, SubvolInv, SubvolTypeOK, Movable, Places
  <2>6. LinesSound'
    BY <2>1, <2>2, <2>3, SubvolumesAssumption DEF LinesSound, FstabNamesExisting, NoLine, LineOnlyAt, Moves, Adds, Removes, Filling, CopyingBack, SubvolInv, SubvolTypeOK, Movable, Places
  <2> QED
    BY <2>4, <2>5, <2>6
<1>3. CASE MoveDropLine
  <2>1. /\ pc = "m_drop" /\ pc' = "m_set" /\ fstab' = [fstab EXCEPT ![work.from] = NoSubvol]
        /\ UNCHANGED <<existing, mounted, todo, work, decl, managed, ok, cuts>>
    BY <1>3 DEF MoveDropLine
  <2>2. work.from \in Places /\ work.sub \in Movable
    BY <2>1 DEF SubvolInv, ItemSound, Moves
  <2>3. \A p \in Paths : fstab'[p] = IF p = work.from THEN NoSubvol ELSE fstab[p]
    BY <2>1, <2>2 DEF SubvolInv, SubvolTypeOK, Places
  <2>4. MountsApart'
    BY <2>1, <2>2, <2>3 DEF MountsApart, Moves, Adds, Removes, Filling, CopyingBack
  <2>5. PlanKept'
    BY <2>1, <2>2, <2>3 DEF PlanKept, MountsApart, InPlace, Installs, Moves, Adds, Removes, Filling, CopyingBack, SubvolInv, SubvolTypeOK, Movable, Places
  <2>6. LinesSound'
    BY <2>1, <2>2, <2>3, SubvolumesAssumption DEF LinesSound, FstabNamesExisting, NoLine, LineOnlyAt, Moves, Adds, Removes, Filling, CopyingBack, SubvolInv, SubvolTypeOK, Movable, Places
  <2> QED
    BY <2>4, <2>5, <2>6
<1>4. CASE MoveSetLine
  <2>1. /\ pc = "m_set" /\ pc' = "m_mount" /\ FstabSet(work.at, work.sub)
        /\ UNCHANGED <<existing, mounted, todo, work, decl, managed, ok, cuts>>
    BY <1>4 DEF MoveSetLine
  <2>2. work.at \in Places /\ work.sub \in Movable /\ work.sub \in existing
    BY <2>1 DEF SubvolInv, ItemSound, Moves
  <2>3. \A p \in Paths : fstab'[p] = IF p = work.at THEN work.sub
                                     ELSE IF fstab[p] = work.sub THEN NoSubvol ELSE fstab[p]
    BY <2>1 DEF FstabSet
  <2>4. MountsApart'
    BY <2>1, <2>2, <2>3 DEF MountsApart, Moves, Adds, Removes, Filling, CopyingBack, Places
  <2>5. PlanKept'
    BY <2>1, <2>2, <2>3 DEF PlanKept, MountsApart, InPlace, Installs, Moves, Adds, Removes, Filling, CopyingBack, SubvolInv, SubvolTypeOK, Movable, Places
  <2>6. pc' \notin Adds \cup Removes /\ cuts' = cuts /\ cuts \in Nat
    BY <2>1 DEF Adds, Filling, Removes, CopyingBack, LinesSound
  <2>7. \A s \in Subvols \ {work.sub} : \A q : LineOnlyAt(s, q) => LineOnlyAt(s, q)'
    BY <2>3, SubvolumesAssumption DEF LineOnlyAt
  <2>8. cuts <= 1 => FstabNamesExisting'
    BY <2>1, <2>2, <2>3 DEF LinesSound, FstabNamesExisting
  <2>9. mounted[work.sub] = NoPath
    BY <2>1 DEF MountsApart, Moves
  <2>10. LinesSound'
    BY <2>1, <2>6, <2>7, <2>8, <2>9 DEF LinesSound, Moves, Adds, Filling
  <2> QED
    BY <2>4, <2>5, <2>10
<1>5. CASE MoveMount
  <2>1. /\ pc = "m_mount" /\ pc' = "next" /\ mounted' = [mounted EXCEPT ![work.sub] = work.at]
        /\ UNCHANGED <<existing, fstab, todo, decl, managed, ok, cuts>>
    BY <1>5 DEF MoveMount
  <2>2. work.at \in Places /\ work.sub \in Movable /\ work.sub \in existing
    BY <2>1 DEF SubvolInv, ItemSound, Moves
  <2>3. \A s \in Subvols : mounted'[s] = IF s = work.sub THEN work.at ELSE mounted[s]
    BY <2>1, <2>2 DEF SubvolInv, SubvolTypeOK
  <2>4. MountsApart'
    BY <2>1, <2>2, <2>3 DEF MountsApart, Moves, Adds, Removes, Filling, CopyingBack, Places
  <2>5. PlanKept'
    BY <2>1, <2>2, <2>3 DEF PlanKept, MountsApart, InPlace, Installs, Moves, Adds, Removes, Filling, CopyingBack, SubvolInv, SubvolTypeOK, Movable, Places
  <2>6. LinesSound'
    BY <2>1, <2>2, <2>3, SubvolumesAssumption DEF LinesSound, MountsApart, FstabNamesExisting, NoLine, LineOnlyAt, Moves, Adds, Removes, Filling, CopyingBack, SubvolInv, SubvolTypeOK, Movable, Places
  <2> QED
    BY <2>4, <2>5, <2>6
<1> QED
  BY <1>1, <1>2, <1>3, <1>4, <1>5

LEMMA AddBeginSettles ==
  ASSUME SubvolInv, MountsApart, PlanKept, LinesSound, BeginAdd
  PROVE  MountsApart' /\ PlanKept' /\ LinesSound'
<1>1. PICK c \in todo :
        /\ Pick(c) /\ c.op = "install" /\ mounted[c.sub] = NoPath
        /\ \A s \in Subvols : mounted[s] # decl[c.sub]
        /\ existing' = existing \cup {c.sub}
        /\ work'.sub = c.sub /\ work'.at = decl[c.sub] /\ work'.created = (c.sub \notin existing)
        /\ pc' \in {"i_check", "i_rename"}
        /\ UNCHANGED <<mounted, fstab, book>>
  BY DEF BeginAdd, Idle, MayAdd, IsMountpoint
<1>2. c.sub \in Movable /\ decl[c.sub] \in Places /\ c.sub \in DOMAIN decl /\ pc = "next"
  BY <1>1, PickedIs DEF SubvolInv, SubvolTypeOK, Pick
<1> USE DEF book
<1>3. MountsApart'
  BY <1>1, <1>2 DEF MountsApart, Moves, Adds, Removes, Filling, CopyingBack
<1>4. PlanKept'
  BY <1>1, <1>2 DEF PlanKept, InPlace, Installs, Pick, Moves, Adds, Removes, Filling, CopyingBack
<1>5. LinesSound'
  <2>1. cuts = 0 => NoLine(c.sub)
    BY <1>1, <1>2, SubvolumesAssumption DEF LinesSound, LineOnlyAt, NoLine, Moves, Adds, Removes, Filling, CopyingBack, Movable
  <2>2. cuts <= 1 => FstabNamesExisting'
    BY <1>1 DEF LinesSound, FstabNamesExisting
  <2>3. cuts <= 1 /\ c.sub \notin existing => NoLine(c.sub)
    BY <1>1, <1>2, SubvolumesAssumption DEF LinesSound, FstabNamesExisting, NoLine, Movable
  <2>4. pc \notin Moves \cup Adds \cup Removes /\ pc' \in Adds \ {"i_fstab"} /\ pc' \notin Removes
    BY <1>1, <1>2 DEF Moves, Adds, Filling, Removes, CopyingBack
  <2>5. /\ \A s, q : LineOnlyAt(s, q)' <=> LineOnlyAt(s, q)
        /\ NoLine(work'.sub) => NoLine(work.sub)'
    BY <1>1 DEF LineOnlyAt, NoLine
  <2> QED
    BY <1>1, <2>1, <2>2, <2>3, <2>4, <2>5 DEF LinesSound, Adds
<1> QED
  BY <1>3, <1>4, <1>5

\* The item goes on, and neither mounts nor lines change.
LEMMA ItemGoesOn ==
  ASSUME SubvolInv, MountsApart, PlanKept, LinesSound,
         UNCHANGED <<existing, mounted, fstab, todo, work, decl, managed, ok, cuts>>,
         \/ pc \in Filling /\ pc' \in Filling \cup {"i_check"}
         \/ pc = "i_check" /\ pc' = "i_mount"
         \/ pc \in CopyingBack /\ pc' \in Removes \ {"r_delete"}
         \/ pc' = pc
  PROVE  MountsApart' /\ PlanKept' /\ LinesSound'
<1>1. MountsApart'
  BY DEF MountsApart, Moves, Adds, Removes, Filling, CopyingBack
<1>2. PlanKept'
  BY DEF PlanKept, InPlace, Installs, Moves, Adds, Removes, Filling, CopyingBack
<1>3. LinesSound'
  BY DEF LinesSound, FstabNamesExisting, LineOnlyAt, NoLine, Moves, Adds, Removes, Filling, CopyingBack
<1> QED
  BY <1>1, <1>2, <1>3

LEMMA AddEndSettles ==
  ASSUME SubvolInv, MountsApart, PlanKept, LinesSound, AddMount \/ AddSetLine
  PROVE  MountsApart' /\ PlanKept' /\ LinesSound'
<1> USE DEF book, NextItem
<1>1. CASE AddMount
  <2>1. /\ pc = "i_mount" /\ pc' = "i_fstab" /\ mounted' = [mounted EXCEPT ![work.sub] = work.at]
        /\ UNCHANGED <<existing, fstab, todo, work, decl, managed, ok, cuts>>
    BY <1>1 DEF AddMount
  <2>2. work.at \in Places /\ work.sub \in Movable /\ work.sub \in existing
    BY <2>1 DEF SubvolInv, ItemSound, Adds
  <2>3. \A s \in Subvols : mounted'[s] = IF s = work.sub THEN work.at ELSE mounted[s]
    BY <2>1, <2>2 DEF SubvolInv, SubvolTypeOK
  <2>4. MountsApart'
    BY <2>1, <2>2, <2>3 DEF MountsApart, Moves, Adds, Removes, Filling, CopyingBack, Movable
  <2>5. PlanKept'
    BY <2>1, <2>2, <2>3 DEF PlanKept, MountsApart, InPlace, Installs, Moves, Adds, Removes, Filling, CopyingBack, SubvolInv, SubvolTypeOK, Movable
  <2>6. LinesSound'
    BY <2>1, <2>2, <2>3 DEF LinesSound, FstabNamesExisting, NoLine, LineOnlyAt, Moves, Adds, Removes, Filling, CopyingBack, Movable
  <2> QED
    BY <2>4, <2>5, <2>6
<1>2. CASE AddSetLine
  <2>1. /\ pc = "i_fstab" /\ pc' = "next" /\ FstabSet(work.at, work.sub)
        /\ UNCHANGED <<existing, mounted, todo, decl, managed, ok, cuts>>
    BY <1>2 DEF AddSetLine
  <2>2. work.at \in Places /\ work.sub \in Movable /\ work.sub \in existing /\ mounted[work.sub] = work.at
    BY <2>1 DEF SubvolInv, ItemSound, Adds, MountsApart
  <2>3. \A p \in Paths : fstab'[p] = IF p = work.at THEN work.sub
                                     ELSE IF fstab[p] = work.sub THEN NoSubvol ELSE fstab[p]
    BY <2>1 DEF FstabSet
  <2>4. MountsApart'
    BY <2>1, <2>2, <2>3 DEF MountsApart, Moves, Adds, Removes, Filling, CopyingBack
  <2>5. PlanKept'
    BY <2>1, <2>2, <2>3, SubvolumesAssumption DEF PlanKept, MountsApart, InPlace, Installs, Moves, Adds, Removes, Filling, CopyingBack, SubvolInv, SubvolTypeOK, Movable, Places
  <2>6. /\ \A s \in Subvols \ {work.sub} : \A q : LineOnlyAt(s, q) => LineOnlyAt(s, q)'
        /\ \A p \in Paths : fstab'[p] = work.sub => p = work.at
    <3>1. \A s \in Subvols \ {work.sub} : \A q : LineOnlyAt(s, q) => LineOnlyAt(s, q)'
      BY <2>3, SubvolumesAssumption DEF LineOnlyAt
    <3>2. \A p \in Paths : fstab'[p] = work.sub => p = work.at
      BY <2>2, <2>3, SubvolumesAssumption DEF Movable
    <3> QED
      BY <3>1, <3>2
  <2>7. cuts <= 1 => FstabNamesExisting'
    BY <2>1, <2>2, <2>3 DEF LinesSound, FstabNamesExisting
  <2>8. ASSUME cuts <= 1, NEW s \in Subvols, s = work.sub \/ mounted[s] = NoPath \/ LineOnlyAt(s, mounted[s])
        PROVE  mounted'[s] = NoPath \/ LineOnlyAt(s, mounted[s])'
    BY <2>1, <2>2, <2>6, <2>8 DEF LineOnlyAt
  <2>9. ASSUME cuts = 0, NEW s \in Subvols, s = work.sub \/ LineOnlyAt(s, mounted[s])
        PROVE  LineOnlyAt(s, mounted[s])'
    BY <2>1, <2>2, <2>6, <2>9 DEF LineOnlyAt
  <2>10. LinesSound'
    BY <2>1, <2>7, <2>8, <2>9 DEF LinesSound, Moves, Adds, Filling, Removes, CopyingBack
  <2> QED
    BY <2>4, <2>5, <2>10
<1> QED
  BY <1>1, <1>2

LEMMA RemoveBeginSettles ==
  ASSUME SubvolInv, MountsApart, PlanKept, LinesSound, BeginRemove
  PROVE  MountsApart' /\ PlanKept' /\ LinesSound'
<1>1. PICK c \in todo :
        /\ Pick(c) /\ c.op = "remove" /\ MayRemove(c.sub)
        /\ work'.sub = c.sub /\ work'.at = WhereOf(c.sub) /\ work'.from = mounted[c.sub]
        /\ mounted' = [mounted EXCEPT ![c.sub] = NoPath]
        /\ pc' = "r_copy"
        /\ UNCHANGED <<existing, fstab, book>>
  BY DEF BeginRemove, Idle
<1> DEFINE n == c.sub
<1>2. n \in Movable /\ n \notin DOMAIN decl /\ pc = "next"
  BY <1>1, PickedIs DEF SubvolInv, SubvolTypeOK, Pick, PlanKept
<1>3. \A s \in Subvols : mounted'[s] = IF s = n THEN NoPath ELSE mounted[s]
  BY <1>1, <1>2 DEF SubvolInv, SubvolTypeOK
<1>4. IF mounted[n] = NoPath THEN work'.at \in Paths /\ fstab[work'.at] = n ELSE work'.at = mounted[n]
  BY <1>1 DEF MayRemove, WhereOf
<1> HIDE DEF n
<1>5. work'.sub = n /\ work'.from = mounted[n] /\ n \in Subvols
  BY <1>1, <1>2 DEF n, Movable
<1> USE DEF book
<1>6. MountsApart'
  <2>1. mounted[n] # NoPath => \A s \in Subvols : mounted'[s] # work'.at
    BY <1>3, <1>4, <1>5, SubvolumesAssumption DEF MountsApart, SubvolInv, SubvolTypeOK
  <2> QED
    BY <1>1, <1>2, <1>3, <1>4, <1>5, <2>1 DEF MountsApart, Moves, Adds, Removes, Filling, CopyingBack
<1>7. PlanKept'
  <2>1. todo' \subseteq todo /\ \A s \in DOMAIN decl : Installs(s) => Installs(s)'
    BY <1>1 DEF Pick, Installs
  <2>2. \A s \in DOMAIN decl : InPlace(s) => InPlace(s)'
    BY <1>1, <1>2, <1>3 DEF InPlace, SubvolInv, SubvolTypeOK, Movable
  <2> QED
    BY <1>1, <1>2, <1>5, <2>1, <2>2 DEF PlanKept, Moves, Adds, Removes, Filling, CopyingBack
<1>8. LinesSound'
  <2>1. cuts <= 1 => \A p \in Paths : fstab[p] = n => p = work'.at
    BY <1>2, <1>4, <1>5, SubvolumesAssumption DEF LinesSound, LineOnlyAt, MountsApart
  <2>2. cuts <= 1 => LineOnlyAt(work.sub, work.at)'
    BY <1>1, <1>5, <2>1 DEF LineOnlyAt
  <2>3. \A s \in Subvols \ {n} : \A q : LineOnlyAt(s, q)' <=> LineOnlyAt(s, q)
    BY <1>1 DEF LineOnlyAt
  <2>4. \A s \in Subvols \ {n} : LineOnlyAt(s, mounted[s]) => LineOnlyAt(s, mounted[s])'
    BY <1>1, <1>3 DEF LineOnlyAt
  <2>5. cuts = 0 => mounted[n] # NoPath
    BY <1>2, <1>4, <1>5, SubvolumesAssumption DEF LinesSound, LineOnlyAt, Moves, Adds, Filling, Removes, CopyingBack
  <2> QED
    BY <1>1, <1>2, <1>3, <1>5, <2>2, <2>4, <2>5 DEF LinesSound, FstabNamesExisting, Moves, Adds, Removes, Filling, CopyingBack
<1> QED
  BY <1>6, <1>7, <1>8

LEMMA RemoveEndSettles ==
  ASSUME SubvolInv, MountsApart, PlanKept, LinesSound, Remount \/ RemoveDropLine \/ DeleteSubvolume
  PROVE  MountsApart' /\ PlanKept' /\ LinesSound'
<1> USE DEF book, NextItem, Stop
<1>1. CASE Remount
  <2>1. /\ pc = "r_remount" /\ pc' = "idle" /\ todo' = {} /\ ~ok' /\ UNCHANGED <<existing, fstab, decl>>
        /\ \/ mounted' = [mounted EXCEPT ![work.sub] = work.from] /\ cuts' = cuts
           \/ mounted' = mounted /\ cuts' = cuts + 1
    BY <1>1 DEF Remount, Cut
  <2>2. CASE mounted' = mounted /\ cuts' = cuts + 1
    BY <1>1, <2>2, CutThere DEF Remount
  <2>3. CASE mounted' = [mounted EXCEPT ![work.sub] = work.from] /\ cuts' = cuts
    <3>1. work.sub \in Movable /\ mounted[work.sub] = NoPath /\ pc \in Removes \ {"r_delete"}
      BY <2>1 DEF SubvolInv, ItemSound, Removes
    <3>2. \A s \in Subvols : mounted'[s] = IF s = work.sub THEN work.from ELSE mounted[s]
      BY <2>3, <3>1 DEF SubvolInv, SubvolTypeOK
    <3>3. MountsApart'
      BY <2>1, <3>1, <3>2 DEF MountsApart, Moves, Adds, Removes, Filling, CopyingBack
    <3>4. PlanKept'
      BY <2>1 DEF PlanKept, Moves, Adds, Removes, Filling, CopyingBack
    <3>5. ASSUME cuts <= 1, NEW s \in Subvols
          PROVE  mounted'[s] = NoPath \/ LineOnlyAt(s, mounted[s])'
      BY <2>1, <3>1, <3>2, <3>5 DEF MountsApart, LinesSound, LineOnlyAt
    <3>6. ASSUME cuts = 0, NEW s \in Subvols
          PROVE  LineOnlyAt(s, mounted[s])'
      BY <2>1, <3>1, <3>2, <3>6, SubvolumesAssumption DEF MountsApart, LinesSound, LineOnlyAt, Movable
    <3>7. LinesSound'
      BY <2>1, <2>3, <3>5, <3>6 DEF LinesSound, FstabNamesExisting, Moves, Adds, Filling, Removes, CopyingBack
    <3> QED
      BY <3>3, <3>4, <3>7
  <2> QED
    BY <2>1, <2>2, <2>3
<1>2. CASE RemoveDropLine
  <2>1. /\ pc = "r_drop" /\ pc' = "r_delete" /\ fstab' = [fstab EXCEPT ![work.at] = NoSubvol]
        /\ UNCHANGED <<existing, mounted, todo, work, decl, managed, ok, cuts>>
    BY <1>2 DEF RemoveDropLine
  <2>2. work.sub \in Movable /\ work.at \in Paths
    BY <2>1 DEF SubvolInv, ItemSound, Removes, Places
  <2>3. \A p \in Paths : fstab'[p] = IF p = work.at THEN NoSubvol ELSE fstab[p]
    BY <2>1, <2>2 DEF SubvolInv, SubvolTypeOK
  <2>4. MountsApart'
    BY <2>1, <2>3 DEF MountsApart, Moves, Adds, Removes, Filling, CopyingBack
  <2>5. ASSUME NEW s \in DOMAIN decl, InPlace(s)
        PROVE  InPlace(s)'
    <3>1. s \in Subvols /\ decl[s] \in Paths /\ s # work.sub
      BY <2>1, <2>5 DEF SubvolInv, SubvolTypeOK, Movable, Places, PlanKept, Removes
    <3>2. decl[s] # work.at
      BY <2>1, <2>5, <3>1 DEF MountsApart, InPlace, Removes
    <3> QED
      BY <2>1, <2>3, <2>5, <3>1, <3>2 DEF InPlace
  <2>6. PlanKept'
    BY <2>1, <2>5 DEF PlanKept, Installs, Moves, Adds, Removes, Filling, CopyingBack
  <2>7. cuts <= 1 => NoLine(work.sub)'
    BY <2>1, <2>2, <2>3, SubvolumesAssumption DEF LinesSound, LineOnlyAt, NoLine, Removes, Movable
  <2>8. \A s \in Subvols : LineOnlyAt(s, mounted[s]) => LineOnlyAt(s, mounted[s])'
    BY <2>1, <2>3, SubvolumesAssumption DEF LineOnlyAt
  <2>9. FstabNamesExisting => FstabNamesExisting'
    BY <2>1, <2>3 DEF FstabNamesExisting
  <2>10. LinesSound'
    BY <2>1, <2>7, <2>8, <2>9 DEF LinesSound, Moves, Adds, Filling, Removes, CopyingBack
  <2> QED
    BY <2>4, <2>6, <2>10
<1>3. CASE DeleteSubvolume
  <2>1. /\ pc = "r_delete" /\ pc' = "next" /\ existing' = existing \ {work.sub}
        /\ UNCHANGED <<fstab, mounted, todo, decl, managed, ok, cuts>>
    BY <1>3 DEF DeleteSubvolume
  <2>2. MountsApart'
    BY <2>1 DEF MountsApart, Moves, Adds, Removes, Filling, CopyingBack
  <2>3. PlanKept'
    BY <2>1 DEF PlanKept, InPlace, Installs, Moves, Adds, Removes, Filling, CopyingBack
  <2>4. work.sub \in Subvols /\ mounted[work.sub] = NoPath
    BY <2>1 DEF SubvolInv, ItemSound, Removes, Movable
  <2>5. cuts <= 1 => NoLine(work.sub) /\ FstabNamesExisting'
    BY <2>1 DEF LinesSound, NoLine, FstabNamesExisting
  <2>6. LinesSound'
    BY <2>1, <2>4, <2>5 DEF LinesSound, NoLine, LineOnlyAt, Moves, Adds, Filling, Removes, CopyingBack
  <2> QED
    BY <2>2, <2>3, <2>6
<1> QED
  BY <1>1, <1>2, <1>3

LEMMA DiscardSettles ==
  ASSUME SubvolInv, MountsApart, PlanKept, LinesSound, Discard
  PROVE  MountsApart' /\ PlanKept' /\ LinesSound'
<1>1. /\ pc = "i_discard" /\ pc' = "idle" /\ todo' = {} /\ ~ok' /\ UNCHANGED <<mounted, fstab, decl, cuts>>
      /\ \/ work.created /\ existing' = existing \ {work.sub}
         \/ existing' = existing
  BY DEF Discard, Raise, Stop
<1>2. MountsApart' /\ PlanKept'
  BY <1>1 DEF MountsApart, PlanKept, Moves, Adds, Removes, Filling, CopyingBack
<1>3. cuts <= 1 => FstabNamesExisting'
  BY <1>1 DEF LinesSound, FstabNamesExisting, NoLine, Filling
<1>4. ASSUME cuts = 0, NEW s \in Subvols
      PROVE  LineOnlyAt(s, mounted[s])
  BY <1>1, <1>4 DEF LinesSound, NoLine, LineOnlyAt, Adds, Filling
<1>5. LinesSound'
  BY <1>1, <1>3, <1>4 DEF LinesSound, LineOnlyAt, Moves, Adds, Filling, Removes, CopyingBack
<1> QED
  BY <1>2, <1>5

\* A boot mounts what has a line, where the line says.
LEMMA RebootSettles ==
  ASSUME SubvolInv, MountsApart, PlanKept, LinesSound, Reboot
  PROVE  MountsApart' /\ PlanKept' /\ LinesSound'
<1>1. /\ mounted' = Booted /\ UNCHANGED <<existing, fstab, decl, managed>> /\ pc' = "idle"
      /\ IF pc = "idle" THEN UNCHANGED <<ok, cuts, todo>>
         ELSE todo' = {} /\ ~ok' /\ (cuts' = cuts + 1 \/ (cuts' = cuts /\ pc = "next"))
  BY DEF Reboot, Cut, Stop, book
<1>2. \A s \in Subvols : IF s \in existing /\ \E p \in Paths : fstab[p] = s
                         THEN Booted[s] \in Paths /\ fstab[Booted[s]] = s ELSE Booted[s] = NoPath
  BY DEF Booted
<1>3. MountsApart'
  BY <1>1, <1>2 DEF MountsApart, Moves, Adds, Removes, Filling, CopyingBack
<1>4. ASSUME pc = "idle", ok, NEW s \in DOMAIN decl
      PROVE  InPlace(s)'
  <2>1. s \in Subvols /\ decl[s] \in Paths /\ InPlace(s)
    BY <1>4 DEF PlanKept, SubvolInv, SubvolTypeOK, Movable, Places
  <2>2. s \in existing
    BY <2>1, SubvolumesAssumption DEF InPlace, SubvolInv, TreeSound
  <2> QED
    BY <1>1, <1>2, <2>1, <2>2, SubvolumesAssumption DEF InPlace, MountsApart
<1>5. PlanKept'
  BY <1>1, <1>4 DEF PlanKept, SubvolInv, SubvolTypeOK, Moves, Adds, Removes, Filling, CopyingBack
<1>6. ASSUME NEW s \in Subvols, Booted[s] # NoPath
      PROVE  LineOnlyAt(s, mounted[s])'
  BY <1>1, <1>2, <1>6, SubvolumesAssumption DEF LineOnlyAt, MountsApart
<1>7. ASSUME cuts <= 1, NEW s \in Subvols, Booted[s] = NoPath
      PROVE  NoLine(s)'
  BY <1>1, <1>2, <1>7, SubvolumesAssumption DEF NoLine, LinesSound, FstabNamesExisting
<1>8. LinesSound'
  <2>1. cuts' \in Nat /\ (cuts' <= 1 => cuts <= 1) /\ (cuts' = 0 => cuts = 0)
    BY <1>1 DEF LinesSound
  <2>2. cuts <= 1 => FstabNamesExisting'
    BY <1>1 DEF LinesSound, FstabNamesExisting
  <2>3. cuts <= 1 => \A s \in Subvols : LineOnlyAt(s, mounted[s])'
    BY <1>6, <1>7 DEF LineOnlyAt, NoLine
  <2> QED
    BY <1>1, <2>1, <2>2, <2>3 DEF LinesSound, Moves, Adds, Filling, Removes, CopyingBack
<1> QED
  BY <1>3, <1>5, <1>8

LEMMA SettleStep ==
  ASSUME SubvolInv, MountsApart, PlanKept, LinesSound, [Next]_vars
  PROVE  MountsApart' /\ PlanKept' /\ LinesSound'
<1> USE DEF disk, book
<1>1. CASE \/ UNCHANGED vars \/ WriteFile
           \/ Rename \/ CopyIn \/ Unstage \/ RemoveStaged \/ IdleCheckFails \/ CopyBack \/ EmptyPartialCopy
  <2>1. /\ UNCHANGED <<existing, mounted, fstab, todo, work, decl, managed, ok, cuts>>
        /\ \/ pc \in Filling /\ pc' \in Filling \cup {"i_check"}
           \/ pc \in CopyingBack /\ pc' \in Removes \ {"r_delete"}
           \/ pc' = pc
    BY <1>1 DEF vars, WriteFile, Rename, CopyIn, Unstage, RemoveStaged, IdleCheckFails, CopyBack,
                EmptyPartialCopy, Filling, Removes, CopyingBack
  <2> QED
    BY <2>1, ItemGoesOn
<1>2. CASE CheckEmpty
  <2>1. CASE Refuse
    BY <1>2, <2>1, CutThere DEF CheckEmpty, Refuse, Raise
  <2>2. CASE ~Refuse
    BY <1>2, <2>2, ItemGoesOn DEF CheckEmpty
  <2> QED
    BY <2>1, <2>2
<1>3. CASE RefuseItem \/ CommandFails \/ Die
  <2>1. /\ Stop /\ UNCHANGED <<existing, mounted, fstab>>
        /\ cuts' = cuts + 1 \/ (cuts' = cuts /\ pc \in {"next", "i_check"})
    BY <1>3 DEF RefuseItem, Refuse, Raise, CommandFails, Die, Cut
  <2> QED
    BY <2>1, CutThere
<1>4. CASE StartApply \/ Finish \/ Edit
  BY <1>4, PlanMade
<1>5. CASE InstallFstabOnly \/ BeginMove \/ MoveDropLine \/ MoveSetLine \/ MoveMount
  BY <1>5, MoveSettles
<1>6. CASE BeginAdd \/ AddMount \/ AddSetLine \/ Discard
  BY <1>6, AddBeginSettles, AddEndSettles, DiscardSettles
<1>7. CASE BeginRemove \/ Remount \/ RemoveDropLine \/ DeleteSubvolume
  BY <1>7, RemoveBeginSettles, RemoveEndSettles
<1>8. CASE Reboot
  BY <1>8, RebootSettles
<1> QED
  BY <1>1, <1>2, <1>3, <1>4, <1>5, <1>6, <1>7, <1>8 DEF Next, Apply

LEMMA SettleInit == Init => MountsApart /\ PlanKept /\ LinesSound
<1> SUFFICES ASSUME Init
             PROVE  MountsApart /\ PlanKept /\ LinesSound
  OBVIOUS
<1>1. MountsApart /\ PlanKept
  BY SubvolumesAssumption DEF Init, MountsApart, PlanKept, Moves, Adds, Filling, Removes, CopyingBack
<1>2. LinesSound
  BY SubvolumesAssumption DEF Init, LinesSound, FstabNamesExisting, NoLine, LineOnlyAt, Moves, Adds, Filling, Removes, CopyingBack
<1> QED
  BY <1>1, <1>2

\* An apply that ended well is followed by a plan that asks for nothing, after a boot too:
\* whatever was cut short before, moved, added or removed, each declared subvolume is
\* mounted where the document says and has the one line that says so.
THEOREM SecondPlanIsEmpty == Spec => []SecondPlanIsSilent
<1>1. Init => MountsApart /\ PlanKept /\ LinesSound
  BY SettleInit
<1>2. SubvolInv /\ (MountsApart /\ PlanKept /\ LinesSound) /\ [Next]_vars
        => (MountsApart /\ PlanKept /\ LinesSound)'
  BY SettleStep
<1>3. SubvolInv /\ (MountsApart /\ PlanKept /\ LinesSound) => SecondPlanIsSilent
  <2> SUFFICES ASSUME SubvolInv, PlanKept, pc = "idle", ok
               PROVE  Diff(Probe(existing)) = {}
    BY DEF SecondPlanIsSilent
  <2>1. managed = DOMAIN decl /\ \A s \in DOMAIN decl : mounted[s] = decl[s] /\ fstab[decl[s]] = s
    BY DEF PlanKept, InPlace
  <2>2. \A s \in DOMAIN decl : decl[s] # NoPath
    BY SubvolumesAssumption DEF SubvolInv, SubvolTypeOK, Places
  <2> QED
    BY <2>1, <2>2 DEF Diff, Probe
<1> QED
  BY <1>1, <1>2, <1>3, SubvolumesAreSound, PTL DEF Spec

\* While no more than one item was cut short, fstab names no subvolume that is not there,
\* at whatever command the power goes: the next boot does not stop at it.
THEOREM BootFindsAll == Spec => [](cuts <= 1 => FstabNamesExisting)
<1>1. Init => MountsApart /\ PlanKept /\ LinesSound
  BY SettleInit
<1>2. SubvolInv /\ (MountsApart /\ PlanKept /\ LinesSound) /\ [Next]_vars
        => (MountsApart /\ PlanKept /\ LinesSound)'
  BY SettleStep
<1>3. (MountsApart /\ PlanKept /\ LinesSound) => (cuts <= 1 => FstabNamesExisting)
  BY DEF LinesSound
<1> QED
  BY <1>1, <1>2, <1>3, SubvolumesAreSound, PTL DEF Spec


-----------------------------------------------------------------------------
(***************************************************************************)
(* What shows in the tree                                                  *)
(***************************************************************************)

MountsIn(m) ==
  /\ m \in [Subvols -> Paths \cup {NoPath}]
  /\ \A s, t \in Subvols : m[s] = m[t] /\ m[s] # NoPath => s = t

\* No mount is deeper over a path of a mounted subvolume.
Open(m, s, rel) ==
  /\ m[s] # NoPath
  /\ \A t \in Subvols : m[t] # NoPath /\ IsPrefix(m[t], m[s] \o rel) => Len(m[t]) <= Len(m[s])

\* Nothing is mounted at a path or below.
Clear(m, p) == \A t \in Subvols : m[t] # NoPath => ~IsPrefix(p, m[t])

\* A subvolume is the one that shows at a path.
Deepest(m, s, p) ==
  /\ m[s] # NoPath /\ IsPrefix(m[s], p)
  /\ \A t \in Subvols : m[t] # NoPath /\ IsPrefix(m[t], p) => Len(m[t]) <= Len(m[s])

\* A file of a tree can be reached under some mounts, and not only below one directory.
Seen(tr, m, d) == \E s \in Subvols : \E e \in tr[s] : e.is = d /\ Open(m, s, e.at)
SeenBeside(tr, m, d, x, rel) ==
  \E s \in Subvols : \E e \in tr[s] :
    e.is = d /\ Open(m, s, e.at) /\ ~(s = x /\ IsPrefix(rel, e.at))

LEMMA PathsJoined ==
  ASSUME NEW a \in Seq(STRING), NEW b \in Seq(STRING)
  PROVE  /\ a \o b \in Seq(STRING) /\ IsPrefix(a, a \o b) /\ Rel(a \o b, a) = b
         /\ Len(a) <= Len(a \o b)
<1> DEFINE c == a \o b
<1>1. /\ c \in Seq(STRING) /\ Len(c) = Len(a) + Len(b)
      /\ \A i \in 1 .. Len(a) + Len(b) : c[i] = IF i <= Len(a) THEN a[i] ELSE b[i - Len(a)]
  BY ConcatProperties
<1>2. Len(a) \in Nat /\ Len(b) \in Nat
  BY LenProperties
<1> HIDE DEF c
<1>3. Len(a) <= Len(c) /\ \A i \in 1 .. Len(a) : a[i] = c[i]
  BY <1>1, <1>2
<1>4. IsPrefix(a, c)
  BY <1>1, <1>3, PrefixAt
<1>5. /\ Rel(c, a) \in Seq(STRING) /\ Len(Rel(c, a)) = Len(c) - Len(a)
      /\ \A i \in 1 .. Len(c) - Len(a) : Rel(c, a)[i] = c[Len(a) + i]
  BY <1>1, <1>4, RelAt
<1>6. ASSUME NEW i \in 1 .. Len(b)
      PROVE  Rel(c, a)[i] = b[i]
  <2>1. /\ i \in 1 .. Len(c) - Len(a) /\ Len(a) + i \in 1 .. Len(a) + Len(b)
        /\ ~(Len(a) + i <= Len(a)) /\ Len(a) + i - Len(a) = i
    BY <1>1, <1>2
  <2>2. Rel(c, a)[i] = c[Len(a) + i]
    BY <1>5, <2>1
  <2>3. c[Len(a) + i] = b[Len(a) + i - Len(a)]
    BY <1>1, <2>1
  <2> QED
    BY <2>1, <2>2, <2>3
<1>7. Len(Rel(c, a)) = Len(b)
  BY <1>1, <1>2, <1>5
<1>8. Rel(c, a) = b
  BY <1>5, <1>6, <1>7, SeqEqual
<1> QED
  BY <1>1, <1>3, <1>4, <1>8 DEF c

\* Two paths over a third are over each other.
LEMMA PrefixesNest ==
  ASSUME NEW a \in Seq(STRING), NEW b \in Seq(STRING), NEW c \in Seq(STRING),
         IsPrefix(b, c)
  PROVE  /\ IsPrefix(a, b) => IsPrefix(a, c)
         /\ IsPrefix(a, c) /\ Len(a) <= Len(b) => IsPrefix(a, b)
         /\ IsPrefix(a, c) /\ Len(a) = Len(b) => a = b
<1>1. Len(a) \in Nat /\ Len(b) \in Nat /\ Len(c) \in Nat
  BY LenProperties
<1>2. Len(b) <= Len(c) /\ \A i \in 1 .. Len(b) : b[i] = c[i]
  BY PrefixAt
<1>3. IsPrefix(a, c) => Len(a) <= Len(c) /\ \A i \in 1 .. Len(a) : a[i] = c[i]
  BY PrefixAt
<1>4. IsPrefix(a, b) => IsPrefix(a, c)
  <2> SUFFICES ASSUME IsPrefix(a, b)
               PROVE  IsPrefix(a, c)
    OBVIOUS
  <2>1. Len(a) <= Len(b) /\ \A i \in 1 .. Len(a) : a[i] = b[i]
    BY PrefixAt
  <2>2. Len(a) <= Len(c) /\ \A i \in 1 .. Len(a) : a[i] = c[i]
    BY <1>1, <1>2, <2>1
  <2> QED
    BY <2>2, PrefixAt
<1>5. IsPrefix(a, c) /\ Len(a) <= Len(b) => IsPrefix(a, b)
  <2> SUFFICES ASSUME IsPrefix(a, c), Len(a) <= Len(b)
               PROVE  IsPrefix(a, b)
    OBVIOUS
  <2>1. \A i \in 1 .. Len(a) : a[i] = b[i]
    BY <1>1, <1>2, <1>3
  <2> QED
    BY <2>1, PrefixAt
<1>6. IsPrefix(a, c) /\ Len(a) = Len(b) => a = b
  <2> SUFFICES ASSUME IsPrefix(a, c), Len(a) = Len(b)
               PROVE  a = b
    OBVIOUS
  <2>1. \A i \in 1 .. Len(a) : a[i] = b[i]
    BY <1>1, <1>2, <1>3
  <2> QED
    BY <2>1, SeqEqual
<1> QED
  BY <1>4, <1>5, <1>6

\* A path below another is what is left of it below that one, after that one.
LEMMA RelJoined ==
  ASSUME NEW p \in Seq(STRING), NEW q \in Seq(STRING), IsPrefix(q, p)
  PROVE  q \o Rel(p, q) = p
<1> DEFINE r == Rel(p, q)
<1>1. /\ r \in Seq(STRING) /\ Len(r) = Len(p) - Len(q) /\ Len(q) <= Len(p)
      /\ Len(p) \in Nat /\ Len(q) \in Nat
      /\ \A i \in 1 .. Len(p) - Len(q) : r[i] = p[Len(q) + i]
  BY RelAt
<1> HIDE DEF r
<1>2. /\ q \o r \in Seq(STRING) /\ Len(q \o r) = Len(q) + Len(r)
      /\ \A i \in 1 .. Len(q) + Len(r) : (q \o r)[i] = IF i <= Len(q) THEN q[i] ELSE r[i - Len(q)]
  BY <1>1, ConcatProperties
<1>3. \A i \in 1 .. Len(q) : q[i] = p[i]
  BY PrefixAt
<1>4. ASSUME NEW i \in 1 .. Len(p)
      PROVE  (q \o r)[i] = p[i]
  <2>1. CASE i <= Len(q)
    BY <1>1, <1>2, <1>3, <2>1
  <2>2. CASE i > Len(q)
    <3>1. i - Len(q) \in 1 .. Len(p) - Len(q) /\ Len(q) + (i - Len(q)) = i /\ i \in 1 .. Len(q) + Len(r)
      BY <1>1, <2>2
    <3>2. (q \o r)[i] = r[i - Len(q)]
      BY <1>1, <1>2, <2>2, <3>1
    <3> QED
      BY <1>1, <3>1, <3>2
  <2> QED
    BY <1>1, <2>1, <2>2
<1>5. q \o r \in Seq(STRING) /\ Len(q \o r) = Len(p)
  BY <1>1, <1>2
<1>6. q \o r = p
  BY <1>4, <1>5, SeqEqual
<1> QED
  BY <1>6 DEF r

\* A subvolume shows at a path of its own when no mount is deeper there.
LEMMA ShownIs ==
  ASSUME NEW m, MountsIn(m), NEW s \in Subvols, NEW rel \in Seq(STRING)
  PROVE  Shown(m, s, rel) <=> Open(m, s, rel)
<1> SUFFICES ASSUME m[s] # NoPath
             PROVE  (Visible(m, m[s] \o rel) = [sub |-> s, at |-> rel]) <=> Open(m, s, rel)
  BY DEF Shown, Open
<1> DEFINE p == m[s] \o rel
           over == {t \in Subvols : m[t] # NoPath /\ IsPrefix(m[t], p)}
           top == CHOOSE t \in over : \A u \in over : Len(m[u]) <= Len(m[t])
<1>1. m[s] \in Seq(STRING) /\ p \in Seq(STRING) /\ IsPrefix(m[s], p) /\ Rel(p, m[s]) = rel
  BY PathsJoined, SubvolumesAssumption DEF MountsIn
<1>2. s \in over
  BY <1>1
<1>3. \A t \in over : m[t] \in Seq(STRING) /\ Len(m[t]) <= Len(p)
  BY <1>1, PrefixAt, SubvolumesAssumption DEF MountsIn
<1>4. \E t \in over : \A u \in over : Len(m[u]) <= Len(m[t])
  <2>1. Len(p) \in Nat
    BY <1>1, LenProperties
  <2> HIDE DEF over, p
  <2> QED
    BY <1>2, <1>3, <2>1, DeepestExists
<1>5. top \in over /\ \A u \in over : Len(m[u]) <= Len(m[top])
  <2> HIDE DEF over
  <2> QED
    BY <1>4
<1>6. Visible(m, p) = [sub |-> top, at |-> Rel(p, m[top])]
  BY DEF Visible
<1>7. Open(m, s, rel) <=> \A u \in over : Len(m[u]) <= Len(m[s])
  BY DEF Open
<1> HIDE DEF over, top, p
<1>8. ASSUME Open(m, s, rel)
      PROVE  top = s
  <2>1. Len(m[s]) = Len(m[top])
    BY <1>2, <1>3, <1>5, <1>7, <1>8, LenProperties
  <2>2. IsPrefix(m[top], p) /\ top \in Subvols /\ m[top] # NoPath
    BY <1>5 DEF over
  <2>3. m[s] = m[top]
    BY <1>1, <1>3, <1>5, <2>1, <2>2, PrefixesNest
  <2> QED
    BY <2>2, <2>3 DEF MountsIn
<1>9. (Visible(m, p) = [sub |-> s, at |-> rel]) <=> Open(m, s, rel)
  BY <1>1, <1>5, <1>6, <1>7, <1>8
<1> QED
  BY <1>9 DEF p

LEMMA PrefixCancelled ==
  ASSUME NEW a \in Seq(STRING), NEW b \in Seq(STRING), NEW c \in Seq(STRING),
         IsPrefix(a \o b, a \o c)
  PROVE  IsPrefix(b, c)
<1> DEFINE x == a \o b
           y == a \o c
<1>1. x \in Seq(STRING) /\ IsPrefix(a, x) /\ Rel(x, a) = b
  BY PathsJoined
<1>2. y \in Seq(STRING) /\ IsPrefix(a, y) /\ Rel(y, a) = c
  BY PathsJoined
<1>3. IsPrefix(x, y)
  OBVIOUS
<1> HIDE DEF x, y
<1>4. /\ Len(b) = Len(x) - Len(a) /\ Len(a) <= Len(x) /\ Len(x) \in Nat /\ Len(a) \in Nat
      /\ \A i \in 1 .. Len(x) - Len(a) : b[i] = x[Len(a) + i]
  BY <1>1, RelAt
<1>5. /\ Len(c) = Len(y) - Len(a) /\ Len(y) \in Nat
      /\ \A i \in 1 .. Len(y) - Len(a) : c[i] = y[Len(a) + i]
  BY <1>2, RelAt
<1>6. Len(x) <= Len(y) /\ \A i \in 1 .. Len(x) : x[i] = y[i]
  BY <1>1, <1>2, <1>3, PrefixAt
<1>7. Len(b) <= Len(c)
  BY <1>4, <1>5, <1>6
<1>8. ASSUME NEW i \in 1 .. Len(b)
      PROVE  b[i] = c[i]
  <2>1. i \in 1 .. Len(x) - Len(a) /\ i \in 1 .. Len(y) - Len(a) /\ Len(a) + i \in 1 .. Len(x)
    BY <1>4, <1>5, <1>6
  <2> QED
    BY <1>4, <1>5, <1>6, <2>1
<1> QED
  BY <1>7, <1>8, PrefixAt

LEMMA MountAdded ==
  ASSUME NEW m, MountsIn(m), NEW n \in Subvols, m[n] = NoPath, NEW p \in Paths, Clear(m, p),
         NEW w, w = [m EXCEPT ![n] = p]
  PROVE  /\ MountsIn(w)
         /\ \A rel \in Seq(STRING) : Open(w, n, rel)
         /\ \A s \in Subvols, rel \in Seq(STRING) :
               Open(m, s, rel) /\ ~IsPrefix(p, m[s] \o rel) => Open(w, s, rel)
<1>1. w[n] = p /\ \A t \in Subvols \ {n} : w[t] = m[t]
  BY DEF MountsIn
<1>2. p \in Seq(STRING) /\ p # NoPath /\ IsPrefix(p, p)
  <2>1. p \in Seq(STRING) /\ p # NoPath
    BY SubvolumesAssumption
  <2> QED
    BY <2>1, PrefixAt, LenProperties
<1>3. MountsIn(w)
  <2>1. w \in [Subvols -> Paths \cup {NoPath}]
    BY DEF MountsIn
  <2>2. \A t \in Subvols : m[t] # p
    BY <1>2 DEF Clear
  <2> QED
    BY <1>1, <2>1, <2>2 DEF MountsIn
<1>4. ASSUME NEW rel \in Seq(STRING)
      PROVE  Open(w, n, rel)
  <2>1. p \o rel \in Seq(STRING) /\ IsPrefix(p, p \o rel)
    BY <1>2, PathsJoined
  <2>2. ASSUME NEW t \in Subvols, w[t] # NoPath, IsPrefix(w[t], p \o rel)
        PROVE  Len(w[t]) <= Len(p)
    <3>1. CASE t = n
      BY <1>1, <1>2, <3>1, LenProperties
    <3>2. CASE t # n
      <4>1. w[t] = m[t] /\ m[t] \in Seq(STRING) /\ ~IsPrefix(p, m[t])
        BY <1>1, <2>2, <3>2, SubvolumesAssumption DEF Clear, MountsIn
      <4>2. ~(Len(p) <= Len(m[t]))
        BY <1>2, <2>1, <2>2, <4>1, PrefixesNest
      <4> QED
        BY <1>2, <4>1, <4>2, LenProperties
    <3> QED
      BY <3>1, <3>2
  <2> QED
    BY <1>1, <1>2, <2>2 DEF Open
<1>5. ASSUME NEW s \in Subvols, NEW rel \in Seq(STRING), Open(m, s, rel), ~IsPrefix(p, m[s] \o rel)
      PROVE  Open(w, s, rel)
  <2>1. s # n /\ w[s] = m[s] /\ m[s] # NoPath
    BY <1>1, <1>5 DEF Open
  <2> QED
    BY <1>1, <1>5, <2>1 DEF Open
<1> QED
  BY <1>3, <1>4, <1>5

LEMMA MountDropped ==
  ASSUME NEW m, MountsIn(m), NEW n \in Subvols, NEW w, w = [m EXCEPT ![n] = NoPath]
  PROVE  /\ MountsIn(w)
         /\ \A s \in Subvols \ {n} : w[s] = m[s]
         /\ \A s \in Subvols \ {n}, rel \in Seq(STRING) : Open(m, s, rel) => Open(w, s, rel)
<1>1. w[n] = NoPath /\ \A t \in Subvols \ {n} : w[t] = m[t]
  BY DEF MountsIn
<1>2. MountsIn(w)
  BY <1>1 DEF MountsIn
<1> QED
  BY <1>1, <1>2 DEF Open

\* What shows below a path where nothing is mounted is of the subvolume that shows there.
LEMMA BelowIsParents ==
  ASSUME NEW m, MountsIn(m), NEW p \in Paths, NEW x \in Subvols, Deepest(m, x, p), Clear(m, p),
         NEW s \in Subvols, NEW rel \in Seq(STRING), Open(m, s, rel), IsPrefix(p, m[s] \o rel)
  PROVE  s = x /\ IsPrefix(Rel(p, m[x]), rel)
<1> DEFINE q == m[s] \o rel
<1>1. /\ p \in Seq(STRING) /\ m[s] \in Seq(STRING) /\ m[x] \in Seq(STRING)
      /\ m[s] # NoPath /\ m[x] # NoPath /\ IsPrefix(m[x], p)
  BY SubvolumesAssumption DEF MountsIn, Open, Deepest
<1>2. q \in Seq(STRING) /\ IsPrefix(m[s], q) /\ IsPrefix(p, q)
  BY <1>1, PathsJoined
<1>3. \A t \in Subvols : m[t] # NoPath /\ IsPrefix(m[t], q) => Len(m[t]) <= Len(m[s])
  BY DEF Open
<1> HIDE DEF q
<1>4. ~(Len(p) <= Len(m[s]))
  <2>1. ~IsPrefix(p, m[s])
    BY <1>1 DEF Clear
  <2> QED
    BY <1>1, <1>2, <2>1, PrefixesNest
<1>5. Len(p) \in Nat /\ Len(m[s]) \in Nat /\ Len(m[x]) \in Nat
  BY <1>1, LenProperties
<1>6. IsPrefix(m[s], p)
  BY <1>1, <1>2, <1>4, <1>5, PrefixesNest
<1>7. IsPrefix(m[x], q)
  BY <1>1, <1>2, PrefixesNest
<1>8. Len(m[s]) <= Len(m[x]) /\ Len(m[x]) <= Len(m[s])
  BY <1>1, <1>3, <1>6, <1>7 DEF Deepest
<1>9. Len(m[s]) = Len(m[x])
  BY <1>5, <1>8
<1>10. m[s] = m[x]
  BY <1>1, <1>2, <1>7, <1>9, PrefixesNest
<1>11. s = x
  BY <1>1, <1>10 DEF MountsIn
<1>12. Rel(p, m[x]) \in Seq(STRING) /\ m[x] \o Rel(p, m[x]) = p
  BY <1>1, RelAt, RelJoined
<1>13. IsPrefix(m[x] \o Rel(p, m[x]), m[x] \o rel)
  BY <1>2, <1>11, <1>12 DEF q
<1> QED
  BY <1>1, <1>11, <1>12, <1>13, PrefixCancelled

\* And all of it shows.
LEMMA ParentShowsBelow ==
  ASSUME NEW m, MountsIn(m), NEW p \in Paths, NEW x \in Subvols, Deepest(m, x, p), Clear(m, p),
         NEW rel \in Seq(STRING)
  PROVE  Open(m, x, Rel(p, m[x]) \o rel)
<1> DEFINE q == p \o rel
<1>1. p \in Seq(STRING) /\ m[x] \in Seq(STRING) /\ m[x] # NoPath /\ IsPrefix(m[x], p)
  BY SubvolumesAssumption DEF MountsIn, Deepest
<1>2. Rel(p, m[x]) \in Seq(STRING) /\ m[x] \o Rel(p, m[x]) = p
  BY <1>1, RelAt, RelJoined
<1>3. m[x] \o (Rel(p, m[x]) \o rel) = q
  <2> DEFINE a == m[x]
             b == Rel(p, m[x])
  <2>0. a \in Seq(STRING) /\ b \in Seq(STRING) /\ rel \in Seq(STRING)
    BY <1>1, <1>2
  <2> HIDE DEF a, b
  <2>1. (a \o b) \o rel = a \o (b \o rel)
    BY <2>0, ConcatAssociative
  <2> QED
    BY <1>2, <2>1, Zenon DEF a, b
<1>4. q \in Seq(STRING) /\ IsPrefix(p, q)
  BY <1>1, PathsJoined
<1> HIDE DEF q
<1>5. ASSUME NEW t \in Subvols, m[t] # NoPath, IsPrefix(m[t], q)
      PROVE  Len(m[t]) <= Len(m[x])
  <2>1. m[t] \in Seq(STRING) /\ ~IsPrefix(p, m[t])
    BY <1>5, SubvolumesAssumption DEF MountsIn, Clear
  <2>2. ~(Len(p) <= Len(m[t]))
    BY <1>1, <1>4, <1>5, <2>1, PrefixesNest
  <2>3. Len(m[t]) <= Len(p)
    BY <1>1, <2>1, <2>2, LenProperties
  <2>4. IsPrefix(m[t], p)
    BY <1>1, <1>4, <1>5, <2>1, <2>3, PrefixesNest
  <2> QED
    BY <1>5, <2>4 DEF Deepest
<1> QED
  BY <1>1, <1>3, <1>5 DEF Open

LEMMA NameAppended ==
  \A path \in Seq(STRING), name \in STRING :
     /\ Len(Append(path, name)) = Len(path) + 1
     /\ \A i \in 1 .. Len(path) : Append(path, name)[i] = path[i]
BY AppendProperties

\* The path of a directory put aside differs from the directory's in its last name alone.
LEMMA StagingBeside ==
  ASSUME NEW p \in Paths, NEW q \in Paths, IsPrefix(q, p), q # p, NEW rel \in Seq(STRING)
  PROVE  LET z == q \o (Staging(Rel(p, q)) \o rel) IN
           /\ Staging(Rel(p, q)) \o rel \in Seq(STRING) /\ z \in Seq(STRING)
           /\ Len(p) \in DOMAIN p /\ Len(p) <= Len(z)
           /\ \A i \in 1 .. Len(p) - 1 : z[i] = p[i]
           /\ z[Len(p)] = Moving[p[Len(p)]]
<1> DEFINE R == Rel(p, q)
           S == Staging(R)
           y == S \o rel
           z == q \o y
           n == Len(R)
<1>1. p \in Seq(STRING) /\ q \in Seq(STRING)
  BY SubvolumesAssumption
<1>2. /\ R \in Seq(STRING) /\ n = Len(p) - Len(q) /\ Len(q) <= Len(p)
      /\ Len(p) \in Nat /\ Len(q) \in Nat
      /\ \A i \in 1 .. Len(p) - Len(q) : R[i] = p[Len(q) + i]
  BY <1>1, RelAt
<1>3. /\ S \in Seq(STRING) /\ Len(S) \in Nat \ {0}
      /\ Len(p) \in DOMAIN p /\ S[Len(S)] = Moving[p[Len(p)]]
  BY StagingIs
<1>4. S = Append(Front(R), Moving[Last(R)])
  BY DEF Staging
<1>5. n # 0
  <2> SUFFICES ASSUME Len(p) = Len(q)
               PROVE  FALSE
    BY <1>2
  <2>1. \A i \in 1 .. Len(q) : q[i] = p[i]
    BY <1>1, PrefixAt
  <2> QED
    BY <1>1, <2>1, SeqEqual
<1> HIDE DEF R, S, n
<1>6. Len(S) = n /\ \A i \in 1 .. n - 1 : S[i] = R[i]
  <2>1. \A i \in 1 .. n - 1 : R[i] \in STRING
    BY <1>2, ElementOfSeq DEF n
  <2>2. n \in Nat /\ n - 1 \in Nat /\ n - 1 - 1 + 1 = n - 1 /\ (1 <= n - 1 \/ n - 1 = 0)
        /\ \A i \in 1 .. n - 1 : 1 + i - 1 = i
    BY <1>2, <1>5
  <2>3. /\ Front(R) \in Seq(STRING) /\ Len(Front(R)) = n - 1
        /\ \A i \in 1 .. n - 1 : Front(R)[i] = R[i]
    BY <2>1, <2>2, SubSeqProperties DEF Front, n
  <2> DEFINE g == Front(R)
             a == Moving[Last(R)]
  <2>4. g \in Seq(STRING) /\ Len(g) = n - 1 /\ S = Append(g, a) /\ \A i \in 1 .. n - 1 : g[i] = R[i]
    BY <1>4, <2>3
  <2>5. a \in STRING
    <3>1. Last(R) = R[n]
      BY DEF Last, n
    <3>2. n \in 1 .. Len(p) - Len(q) /\ Len(q) + n = Len(p)
      BY <1>2, <2>2, <1>5
    <3>3. Last(R) = p[Len(p)]
      BY <1>2, <3>1, <3>2
    <3> QED
      BY <1>3, <3>3, MovingAssumption
  <2> HIDE DEF g, a
  <2>6. /\ Len(S) = Len(g) + 1
        /\ \A i \in 1 .. Len(g) : S[i] = g[i]
    <3>1. /\ Len(Append(g, a)) = Len(g) + 1
          /\ \A i \in 1 .. Len(g) : Append(g, a)[i] = g[i]
      BY <2>4, <2>5, NameAppended, Zenon
    <3> QED
      BY <2>4, <3>1
  <2> QED
    BY <2>2, <2>4, <2>6
<1>7. /\ y \in Seq(STRING) /\ Len(y) = Len(S) + Len(rel) /\ Len(rel) \in Nat
      /\ \A i \in 1 .. Len(S) : y[i] = S[i]
  <2>1. /\ y \in Seq(STRING) /\ Len(y) = Len(S) + Len(rel)
        /\ \A i \in 1 .. Len(S) + Len(rel) : y[i] = IF i <= Len(S) THEN S[i] ELSE rel[i - Len(S)]
    BY <1>3, ConcatProperties
  <2>2. Len(rel) \in Nat /\ \A i \in 1 .. Len(S) : i \in 1 .. Len(S) + Len(rel) /\ i <= Len(S)
    BY <1>3, LenProperties
  <2> HIDE DEF y
  <2> QED
    BY <2>1, <2>2
<1> HIDE DEF y
<1>8. /\ z \in Seq(STRING) /\ Len(z) = Len(q) + Len(y)
      /\ \A i \in 1 .. Len(q) + Len(y) : z[i] = IF i <= Len(q) THEN q[i] ELSE y[i - Len(q)]
  <2>1. q \in Seq(STRING) /\ y \in Seq(STRING)
    BY <1>1, <1>7
  <2> QED
    BY <2>1, ConcatProperties
<1> HIDE DEF z
<1>9. Len(p) <= Len(z)
  BY <1>2, <1>3, <1>6, <1>7, <1>8
<1>10. ASSUME NEW i \in 1 .. Len(p) - 1
       PROVE  z[i] = p[i]
  <2>1. i \in 1 .. Len(q) + Len(y)
    BY <1>2, <1>3, <1>6, <1>7
  <2>2. CASE i <= Len(q)
    <3>1. i \in 1 .. Len(q) /\ z[i] = q[i]
      BY <1>2, <1>8, <2>1, <2>2
    <3> QED
      BY <1>1, <3>1, PrefixAt
  <2>3. CASE ~(i <= Len(q))
    <3>1. /\ i - Len(q) \in 1 .. Len(S) /\ i - Len(q) \in 1 .. n - 1
          /\ i - Len(q) \in 1 .. Len(p) - Len(q) /\ Len(q) + (i - Len(q)) = i
      BY <1>2, <1>6, <2>3
    <3>2. z[i] = y[i - Len(q)]
      BY <1>8, <2>1, <2>3
    <3>3. y[i - Len(q)] = R[i - Len(q)]
      BY <1>6, <1>7, <3>1
    <3>4. R[i - Len(q)] = p[Len(q) + (i - Len(q))]
      BY <1>2, <3>1
    <3> QED
      BY <3>1, <3>2, <3>3, <3>4
  <2> QED
    BY <2>2, <2>3
<1>11. z[Len(p)] = Moving[p[Len(p)]]
  <2>1. /\ Len(p) \in 1 .. Len(q) + Len(y) /\ ~(Len(p) <= Len(q))
        /\ Len(p) - Len(q) = Len(S) /\ Len(S) \in 1 .. Len(S)
    BY <1>2, <1>3, <1>6, <1>7
  <2>2. z[Len(p)] = y[Len(p) - Len(q)]
    BY <1>8, <2>1
  <2>3. y[Len(S)] = S[Len(S)]
    BY <1>7, <2>1
  <2> QED
    BY <1>3, <2>1, <2>2, <2>3
<1> QED
  BY <1>3, <1>7, <1>8, <1>9, <1>10, <1>11 DEF z, y, S, R

\* What is put aside shows, and not at the mountpoint.
LEMMA AsideShows ==
  ASSUME NEW m, MountsIn(m), NEW p \in Paths, NEW x \in Subvols, Deepest(m, x, p), m[x] # p,
         NEW rel \in Seq(STRING)
  PROVE  LET aside == Staging(Rel(p, m[x])) \o rel IN
           aside \in Seq(STRING) /\ Open(m, x, aside) /\ ~IsPrefix(Rel(p, m[x]), aside)
<1> DEFINE q == m[x]
           y == Staging(Rel(p, q)) \o rel
           z == q \o y
<1>1. q \in Paths /\ q # NoPath /\ p \in Seq(STRING) /\ q \in Seq(STRING) /\ IsPrefix(q, p)
  BY SubvolumesAssumption DEF MountsIn, Deepest
<1>2. /\ y \in Seq(STRING) /\ z \in Seq(STRING)
      /\ Len(p) \in DOMAIN p /\ Len(p) <= Len(z)
      /\ \A i \in 1 .. Len(p) - 1 : z[i] = p[i]
      /\ z[Len(p)] = Moving[p[Len(p)]]
  BY <1>1, StagingBeside
<1>3. IsPrefix(q, z) /\ Rel(z, q) = y
  BY <1>1, <1>2, PathsJoined
<1>4. Len(p) \in Nat /\ Len(p) \in 1 .. Len(p)
  BY <1>1, <1>2, LenProperties
<1> HIDE DEF z, y
<1>5. ASSUME NEW t \in Subvols, m[t] # NoPath, IsPrefix(m[t], z)
      PROVE  Len(m[t]) <= Len(q)
  <2>1. m[t] \in Paths /\ m[t] \in Seq(STRING) /\ Len(m[t]) \in Nat /\ DOMAIN m[t] = 1 .. Len(m[t])
    BY <1>5, SubvolumesAssumption, LenProperties DEF MountsIn
  <2>2. \A i \in 1 .. Len(m[t]) : m[t][i] = z[i]
    BY <1>2, <1>5, <2>1, PrefixAt
  <2>3. ~(Len(p) <= Len(m[t]))
    <3> SUFFICES ASSUME Len(p) <= Len(m[t])
                 PROVE  FALSE
      OBVIOUS
    <3>1. Len(p) \in DOMAIN m[t]
      BY <1>4, <2>1
    <3>2. m[t][Len(p)] = Moving[p[Len(p)]]
      BY <1>2, <2>1, <2>2, <3>1
    <3> QED
      BY <1>2, <2>1, <3>1, <3>2, MovingAssumption
  <2>4. Len(m[t]) <= Len(p) /\ \A i \in 1 .. Len(m[t]) : m[t][i] = p[i]
    BY <1>2, <1>4, <2>1, <2>2, <2>3
  <2>5. IsPrefix(m[t], p)
    BY <1>1, <2>1, <2>4, PrefixAt
  <2> QED
    BY <1>5, <2>5 DEF Deepest
<1>6. ~IsPrefix(Rel(p, q), y)
  <2> SUFFICES ASSUME IsPrefix(Rel(p, q), y)
               PROVE  FALSE
    OBVIOUS
  <2>1. IsPrefix(p, z)
    BY <1>1, <1>2, <1>3, SameBelow
  <2>2. p[Len(p)] = z[Len(p)]
    BY <1>1, <1>2, <1>4, <2>1, PrefixAt
  <2>3. p \in Written \cup Paths
    OBVIOUS
  <2>4. \A j \in DOMAIN p : Moving[p[Len(p)]] # p[j]
    BY <1>2, <2>3, MovingAssumption
  <2> QED
    BY <1>2, <2>2, <2>4
<1>7. Open(m, x, y)
  BY <1>1, <1>5 DEF Open, z
<1> QED
  BY <1>2, <1>6, <1>7 DEF y

\* What is not below a mountpoint still shows when something is mounted there.
LEMMA BesideShows ==
  ASSUME NEW m, MountsIn(m), NEW n \in Subvols, m[n] = NoPath, NEW p \in Paths, Clear(m, p),
         NEW x \in Subvols, Deepest(m, x, p),
         NEW s \in Subvols, NEW rel \in Seq(STRING), Open(m, s, rel),
         ~(s = x /\ IsPrefix(Rel(p, m[x]), rel))
  PROVE  Open([m EXCEPT ![n] = p], s, rel)
<1>1. ~IsPrefix(p, m[s] \o rel)
  BY BelowIsParents
<1> QED
  BY <1>1, MountAdded

LEMMA OnlyDirectories ==
  ASSUME NEW s, NEW rel, ~Has(s, rel) \/ ~IsDir(s, rel), NEW e \in tree[s], IsPrefix(rel, e.at)
  PROVE  e.is = Directory
BY DEF Has, IsDir, Below

\* Whatever is mounted over directories only hides no file.
LEMMA MountHidesNothing ==
  ASSUME SubvolTypeOK,
         NEW m, MountsIn(m), NEW n \in Subvols, m[n] = NoPath, NEW p \in Paths, Clear(m, p),
         NEW x \in Subvols, Deepest(m, x, p),
         ~Has(x, Rel(p, m[x])) \/ ~IsDir(x, Rel(p, m[x])),
         NEW s \in Subvols, NEW e \in tree[s], e.is # Directory, Open(m, s, e.at)
  PROVE  Open([m EXCEPT ![n] = p], s, e.at)
<1>1. e.at \in Seq(STRING)
  BY DEF SubvolTypeOK, Entry
<1>2. ~(s = x /\ IsPrefix(Rel(p, m[x]), e.at))
  BY OnlyDirectories
<1> QED
  BY <1>1, <1>2, BesideShows

LEMMA SeenGrows ==
  ASSUME NEW tr, NEW tr2, \A s \in Subvols : tr[s] \subseteq tr2[s], NEW m, NEW d, NEW x, NEW rel
  PROVE  /\ Seen(tr, m, d) => Seen(tr2, m, d)
         /\ SeenBeside(tr, m, d, x, rel) => SeenBeside(tr2, m, d, x, rel)
BY DEF Seen, SeenBeside

LEMMA ReachableIs ==
  ASSUME SubvolTypeOK, NEW m, MountsIn(m), NEW d
  PROVE  d \in ReachableBy(m) <=> d # Directory /\ Seen(tree, m, d)
<1>1. \A s \in Subvols : \A e \in tree[s] : e.at \in Seq(STRING)
  BY DEF SubvolTypeOK, Entry
<1>2. \A s \in Subvols : \A e \in tree[s] : Shown(m, s, e.at) <=> Open(m, s, e.at)
  BY <1>1, ShownIs
<1> QED
  BY <1>2 DEF ReachableBy, Seen

\* The parent of a place nothing is mounted at is what shows there.
LEMMA ParentIsDeepest ==
  ASSUME SubvolTypeOK, TreeSound, NEW n \in Movable, NEW p \in Places,
         \A s \in Subvols \ {n} : mounted[s] # p,
         NEW w, w = [mounted EXCEPT ![n] = NoPath]
  PROVE  LET par == Parent(mounted, n, p) IN
           par \in Subvols \ {n} /\ w[par] = mounted[par] /\ Deepest(w, par, p)
<1> DEFINE over == {s \in Subvols \ {n} : mounted[s] \notin {NoPath, p} /\ IsPrefix(mounted[s], p)}
           par == Parent(mounted, n, p)
<1>1. par \in Subvols \ {n} /\ mounted[par] \in Paths \ {p} /\ IsPrefix(mounted[par], p)
  BY ParentIs
<1>2. w[n] = NoPath /\ \A s \in Subvols \ {n} : w[s] = mounted[s]
  BY DEF SubvolTypeOK, Movable
<1>3. p \in Seq(STRING)
  BY SubvolumesAssumption DEF Places
<1>4. \A s \in over : mounted[s] \in Seq(STRING) /\ mounted[s] \in Paths /\ Len(mounted[s]) <= Len(p)
  BY <1>3, PrefixAt, SubvolumesAssumption DEF SubvolTypeOK
<1>5. par \in over
  BY <1>1, SubvolumesAssumption
<1>6. \E s \in over : \A t \in over : Len(mounted[t]) <= Len(mounted[s])
  <2>1. Len(p) \in Nat
    BY <1>3, LenProperties
  <2> HIDE DEF over, par
  <2> QED
    BY <1>4, <1>5, <2>1, DeepestExists
<1>7. \A t \in over : Len(mounted[t]) <= Len(mounted[par])
  <2>1. par = CHOOSE s \in over : \A t \in over : Len(mounted[t]) <= Len(mounted[s])
    BY DEF Parent
  <2> HIDE DEF over, par
  <2> QED
    BY <1>6, <2>1
<1>8. ASSUME NEW t \in Subvols, w[t] # NoPath, IsPrefix(w[t], p)
      PROVE  Len(w[t]) <= Len(w[par])
  <2>1. t # n /\ w[t] = mounted[t] /\ w[par] = mounted[par]
    BY <1>1, <1>2, <1>8
  <2>2. t \in over
    BY <1>8, <2>1
  <2> QED
    BY <1>7, <2>1, <2>2
<1> HIDE DEF par
<1>9. w[par] = mounted[par] /\ w[par] # NoPath
  BY <1>1, <1>2, SubvolumesAssumption
<1> QED
  BY <1>1, <1>8, <1>9 DEF Deepest, par

-----------------------------------------------------------------------------
(***************************************************************************)
(* What could be reached stays reachable                                   *)
(***************************************************************************)

\* The mounts, once the item under way has ended well.
Planned == [mounted EXCEPT ![work.sub] = work.at]

\* The place of the item under way.
PlaceSound ==
  /\ pc \in Moves \cup (Adds \ {"i_fstab"}) => Clear(mounted, work.at)
  /\ pc \in CopyingBack /\ work.from # NoPath => Clear(mounted, work.at)
  /\ pc \in Filling \/ (pc \in CopyingBack /\ work.from # NoPath) => Deepest(mounted, work.parent, work.at)

\* Until an item is cut short, what is mounted has its line.
LinesKept ==
  cuts = 0 =>
    /\ \A s \in Subvols : \/ pc = "i_fstab" /\ s = work.sub
                          \/ mounted[s] = NoPath \/ fstab[mounted[s]] = s
    /\ pc \in CopyingBack \cup {"r_remount"} => fstab[work.at] = work.sub

\* And what could be reached when the apply started can be reached, or will be when the
\* item under way has ended well.
FoundSound ==
  cuts = 0 => \A d \in found :
    /\ d # Directory
    /\ pc \in {"idle", "next", "i_rename", "i_fstab", "r_drop", "r_delete"} => Seen(tree, mounted, d)
    /\ pc = "i_copy" => SeenBeside(tree, mounted, d, work.parent, work.rel)
    /\ pc = "i_copied" => SeenBeside(tree, Planned, d, work.parent, Staging(work.rel))
    /\ pc \in Moves \cup {"i_check", "i_mount", "r_copy"} => Seen(tree, Planned, d)

HideInv == PlaceSound /\ LinesKept /\ FoundSound

\* An apply that ends before its end.
LEMMA StoppedHides ==
  ASSUME SubvolInv, MountsApart, LinesSound, HideInv, Stop, mounted' = mounted, fstab' = fstab,
         cuts' = cuts + 1 \/ (cuts' = cuts /\ pc # "i_fstab")
  PROVE  HideInv'
<1>1. pc' = "idle" /\ found' = {}
  BY DEF Stop
<1>2. cuts' = 0 => cuts = 0 /\ pc # "i_fstab"
  BY DEF LinesSound
<1>3. PlaceSound'
  BY <1>1 DEF PlaceSound, Moves, Adds, Filling, CopyingBack
<1>4. LinesKept'
  BY <1>1, <1>2 DEF HideInv, LinesKept, CopyingBack
<1>5. FoundSound'
  BY <1>1 DEF FoundSound
<1> QED
  BY <1>3, <1>4, <1>5 DEF HideInv

\* What a boot mounts, before an item was cut short.
LEMMA BootedNow ==
  ASSUME SubvolInv, MountsApart, LinesSound, LinesKept, cuts = 0, pc \in {"idle", "next"}
  PROVE  Booted = mounted
<1> SUFFICES ASSUME NEW s \in Subvols
             PROVE  Booted[s] = mounted[s]
  BY DEF Booted, SubvolInv, SubvolTypeOK
<1>1. LineOnlyAt(s, mounted[s])
  BY DEF LinesSound, Moves, Adds, Filling, Removes, CopyingBack
<1>2. CASE mounted[s] = NoPath
  BY <1>1, <1>2, SubvolumesAssumption DEF Booted, LineOnlyAt
<1>3. CASE mounted[s] # NoPath
  <2>1. mounted[s] \in Paths /\ s \in existing /\ fstab[mounted[s]] = s
    BY <1>3 DEF SubvolInv, SubvolTypeOK, TreeSound, LinesKept
  <2> QED
    BY <1>1, <2>1 DEF Booted, LineOnlyAt
<1> QED
  BY <1>2, <1>3

LEMMA PlanHides ==
  ASSUME SubvolInv, MountsApart, LinesSound, HideInv, StartApply \/ Finish \/ Edit
  PROVE  HideInv'
<1>1. MountsIn(mounted)
  BY DEF SubvolInv, SubvolTypeOK, MountsApart, MountsIn
<1>2. /\ UNCHANGED disk /\ pc \in {"idle", "next"} /\ pc' \in {"idle", "next"} /\ cuts' = cuts
      /\ found' \in {found, {}, Reachable}
  BY DEF StartApply, Finish, Edit
<1>3. UNCHANGED <<tree, mounted, fstab>>
  BY <1>2 DEF disk
<1>4. PlaceSound' /\ LinesKept'
  BY <1>2, <1>3 DEF HideInv, PlaceSound, LinesKept, Moves, Adds, Filling, CopyingBack
<1>5. \A d \in Reachable : d # Directory /\ Seen(tree, mounted, d)
  BY <1>1, ReachableIs DEF Reachable, SubvolInv
<1>6. FoundSound'
  BY <1>2, <1>3, <1>5 DEF HideInv, FoundSound, Moves
<1> QED
  BY <1>4, <1>6 DEF HideInv

\* A place nothing is mounted at or below.
LEMMA PlaceIsClear ==
  ASSUME NEW p, ~IsMountpoint(mounted, p), ~MountedBelow(mounted, p)
  PROVE  Clear(mounted, p)
BY DEF Clear, IsMountpoint, MountedBelow, IsStrictPrefix

LEMMA MoveHides ==
  ASSUME SubvolInv, MountsApart, LinesSound, HideInv,
         InstallFstabOnly \/ BeginMove \/ MoveDropLine \/ MoveSetLine \/ MoveMount
  PROVE  HideInv'
<1>0. MountsIn(mounted)
  BY DEF SubvolInv, SubvolTypeOK, MountsApart, MountsIn
<1>1. CASE InstallFstabOnly
  <2>1. PICK c \in todo : /\ Pick(c) /\ c.op = "install" /\ mounted[c.sub] = decl[c.sub]
                          /\ FstabSet(decl[c.sub], c.sub)
                          /\ UNCHANGED <<tree, existing, mounted, pc, work, book>>
    BY <1>1 DEF InstallFstabOnly
  <2>2. /\ pc = "next" /\ c.sub \in Subvols /\ decl[c.sub] \in Paths
        /\ UNCHANGED <<tree, mounted, pc, work, found, cuts>>
    BY <2>1, PickedIs DEF Pick, book, SubvolInv, Movable, Places
  <2>3. PlaceSound'
    BY <2>2 DEF PlaceSound, Moves, Adds, Filling, CopyingBack
  <2>4. LinesKept'
    BY <2>1, <2>2, SubvolumesAssumption DEF HideInv, LinesKept, FstabSet, MountsApart, CopyingBack, SubvolInv, SubvolTypeOK
  <2>5. FoundSound'
    BY <2>2 DEF HideInv, FoundSound, Moves
  <2> QED
    BY <2>3, <2>4, <2>5 DEF HideInv
<1>2. CASE BeginMove
  <2>1. PICK c \in todo :
            /\ Pick(c) /\ c.op = "install" /\ mounted[c.sub] \notin {NoPath, decl[c.sub]}
            /\ MayMove(c.sub, decl[c.sub])
            /\ mounted' = [mounted EXCEPT ![c.sub] = NoPath]
            /\ work' = [Idle EXCEPT !.op = "move", !.sub = c.sub, !.at = decl[c.sub],
                                    !.from = mounted[c.sub]]
            /\ pc' = "m_drop"
            /\ UNCHANGED <<tree, existing, fstab, book>>
    BY <1>2 DEF BeginMove
  <2> DEFINE n == c.sub
             p == decl[c.sub]
             x == Parent(mounted, n, p)
  <2>2. n \in Movable /\ n \in Subvols /\ p \in Places /\ p \in Paths /\ pc = "next"
    BY <2>1, PickedIs DEF Pick, SubvolInv, Movable, Places
  <2>3. work'.sub = n /\ work'.at = p
    BY <2>1 DEF Idle
  <2>4. UNCHANGED <<tree, fstab, found, cuts>>
    BY <2>1 DEF book
  <2>5. /\ ~IsMountpoint(mounted, p) /\ ~MountedBelow(mounted, p)
        /\ ~Has(x, Rel(p, mounted[x]))
    BY <2>1 DEF MayMove
  <2> HIDE DEF n, p, x
  <2>6. mounted' = [mounted EXCEPT ![n] = NoPath]
    BY <2>1 DEF n
  <2>7. Clear(mounted, p)
    BY <2>5, PlaceIsClear
  <2>8. MountsIn(mounted') /\ mounted'[n] = NoPath /\ \A s \in Subvols \ {n} : mounted'[s] = mounted[s]
    BY <1>0, <2>2, <2>6, MountDropped DEF MountsIn
  <2>9. Clear(mounted', p)
    BY <2>7, <2>8 DEF Clear
  <2>10. x \in Subvols \ {n} /\ mounted'[x] = mounted[x] /\ Deepest(mounted', x, p)
    BY <2>2, <2>5, <2>6, ParentIsDeepest DEF x, SubvolInv, IsMountpoint
  <2>11. ASSUME NEW s \in Subvols, NEW e \in tree[s], e.is # Directory, Open(mounted, s, e.at)
         PROVE  Open([mounted' EXCEPT ![n] = p], s, e.at)
    <3>1. e.at \in Seq(STRING)
      BY DEF SubvolInv, SubvolTypeOK, Entry
    <3>2. CASE s = n
      BY <2>2, <2>8, <2>9, <3>1, <3>2, MountAdded
    <3>3. CASE s # n
      <4>1. Open(mounted', s, e.at)
        BY <1>0, <2>2, <2>6, <2>11, <3>1, <3>3, MountDropped
      <4>2. ~Has(x, Rel(p, mounted'[x]))
        BY <2>5, <2>10
      <4> QED
        BY <2>2, <2>8, <2>9, <2>10, <2>11, <4>1, <4>2, MountHidesNothing DEF SubvolInv
    <3> QED
      BY <3>2, <3>3
  <2>12. PlaceSound'
    BY <2>1, <2>3, <2>9 DEF PlaceSound, Moves, Adds, Filling, CopyingBack, p
  <2>13. LinesKept'
    BY <2>1, <2>2, <2>4, <2>8 DEF HideInv, LinesKept, CopyingBack
  <2>14. Planned' = [mounted' EXCEPT ![n] = p]
    BY <2>3 DEF Planned
  <2>15. \A d : d # Directory /\ Seen(tree, mounted, d) => Seen(tree', Planned', d)
    BY <2>4, <2>11, <2>14 DEF Seen
  <2>16. FoundSound'
    BY <2>1, <2>2, <2>4, <2>15 DEF HideInv, FoundSound, Moves
  <2> QED
    BY <2>12, <2>13, <2>16 DEF HideInv
<1>3. CASE MoveDropLine \/ MoveSetLine
  <2>1. /\ pc \in {"m_drop", "m_set"} /\ pc' \in {"m_set", "m_mount"}
        /\ UNCHANGED <<tree, mounted, work, found, cuts>>
        /\ work.sub \in Subvols /\ work.at \in Paths
    BY <1>3 DEF MoveDropLine, MoveSetLine, book, SubvolInv, ItemSound, Moves, Movable, Places
  <2>2. PlaceSound'
    BY <2>1 DEF HideInv, PlaceSound, Moves, Adds, Filling, CopyingBack
  <2>3. cuts = 0 => \A s \in Subvols : mounted[s] # NoPath => fstab'[mounted[s]] = s
    <3>1. CASE MoveDropLine
      <4>1. \A s \in Subvols : mounted[s] # NoPath => mounted[s] \in Paths \ {work.from}
        BY <3>1 DEF MoveDropLine, MountsApart, SubvolInv, SubvolTypeOK
      <4>2. \A q \in Paths \ {work.from} : fstab'[q] = fstab[q]
        BY <3>1 DEF MoveDropLine, SubvolInv, SubvolTypeOK
      <4> QED
        BY <2>1, <4>1, <4>2 DEF HideInv, LinesKept
    <3>2. CASE MoveSetLine
      <4>1. \A s \in Subvols : mounted[s] # NoPath => mounted[s] \in Paths \ {work.at} /\ s # work.sub
        BY <2>1 DEF MountsApart, SubvolInv, SubvolTypeOK, Moves
      <4>2. \A q \in Paths \ {work.at} : fstab'[q] = IF fstab[q] = work.sub THEN NoSubvol ELSE fstab[q]
        BY <3>2 DEF MoveSetLine, FstabSet
      <4> QED
        BY <2>1, <4>1, <4>2 DEF HideInv, LinesKept
    <3> QED
      BY <1>3, <3>1, <3>2
  <2>4. LinesKept'
    BY <2>1, <2>3 DEF HideInv, LinesKept, CopyingBack
  <2>5. Planned' = Planned
    BY <2>1 DEF Planned
  <2>6. FoundSound'
    BY <2>1, <2>5 DEF HideInv, FoundSound, Moves
  <2> QED
    BY <2>2, <2>4, <2>6 DEF HideInv
<1>4. CASE MoveMount
  <2>1. /\ pc = "m_mount" /\ pc' = "next" /\ tree' = WithDir(mounted, work.at)
        /\ mounted' = Planned
        /\ UNCHANGED <<fstab, found, cuts>>
        /\ work.sub \in Subvols /\ work.at \in Paths /\ fstab[work.at] = work.sub
    BY <1>4 DEF MoveMount, NextItem, book, Planned, SubvolInv, ItemSound, MountsApart, Moves, Movable, Places
  <2>2. PlaceSound'
    BY <2>1 DEF PlaceSound, Moves, Adds, Filling, CopyingBack
  <2>3. \A s \in Subvols : mounted'[s] = IF s = work.sub THEN work.at ELSE mounted[s]
    BY <2>1 DEF Planned, SubvolInv, SubvolTypeOK
  <2>4. LinesKept'
    BY <2>1, <2>3 DEF HideInv, LinesKept, CopyingBack
  <2>5. \A s \in Subvols : tree[s] \subseteq tree'[s]
    BY <2>1 DEF WithDir, SubvolInv, SubvolTypeOK
  <2>6. FoundSound'
    BY <2>1, <2>5, SeenGrows DEF HideInv, FoundSound, Moves
  <2> QED
    BY <2>2, <2>4, <2>6 DEF HideInv
<1> QED
  BY <1>1, <1>2, <1>3, <1>4

LEMMA AddBeginHides ==
  ASSUME SubvolInv, MountsApart, LinesSound, HideInv, BeginAdd
  PROVE  HideInv'
<1>0. MountsIn(mounted)
  BY DEF SubvolInv, SubvolTypeOK, MountsApart, MountsIn
<1>1. PICK c \in todo :
        LET p     == decl[c.sub]
            par   == Parent(mounted, c.sub, p)
            rel   == Rel(p, mounted[par])
            adopt == c.sub \in existing
            has   == Has(par, rel)
        IN /\ Pick(c) /\ c.op = "install" /\ mounted[c.sub] = NoPath
           /\ MayAdd(c.sub, p, adopt)
           /\ work' = [Idle EXCEPT !.op = "add", !.sub = c.sub, !.at = p,
                         !.asked = c.asked, !.parent = par, !.rel = rel,
                         !.adopt = adopt, !.had = has, !.created = ~adopt]
           /\ pc' = IF ~IsDir(par, rel) \/ (adopt /\ ~has) THEN "i_check" ELSE "i_rename"
           /\ UNCHANGED <<tree, mounted, fstab, book>>
  BY DEF BeginAdd
<1> DEFINE n   == c.sub
           p   == decl[n]
           x   == Parent(mounted, n, p)
           rel == Rel(p, mounted[x])
<1>2. n \in Movable /\ n \in Subvols /\ p \in Places /\ p \in Paths /\ pc = "next" /\ mounted[n] = NoPath
  BY <1>1, PickedIs DEF Pick, SubvolInv, Movable, Places
<1>3. work'.sub = n /\ work'.at = p /\ work'.parent = x
  BY <1>1 DEF Idle
<1>4. /\ UNCHANGED <<tree, mounted, fstab, found, cuts>>
      /\ pc' \in {"i_check", "i_rename"}
      /\ pc' = "i_check" => ~IsDir(x, rel) \/ ~Has(x, rel)
  BY <1>1 DEF book
<1>5. ~IsMountpoint(mounted, p) /\ ~MountedBelow(mounted, p)
  BY <1>1 DEF MayAdd
<1> HIDE DEF n, p, x
<1>6. Clear(mounted, p)
  BY <1>5, PlaceIsClear
<1>7. x \in Subvols /\ Deepest(mounted, x, p)
  <2>1. mounted = [mounted EXCEPT ![n] = NoPath]
    BY <1>2 DEF SubvolInv, SubvolTypeOK
  <2> QED
    BY <1>2, <1>5, <2>1, ParentIsDeepest DEF x, SubvolInv, IsMountpoint
<1>8. PlaceSound'
  BY <1>3, <1>4, <1>6, <1>7 DEF PlaceSound, Moves, Adds, Filling, CopyingBack
<1>9. LinesKept'
  BY <1>2, <1>4 DEF HideInv, LinesKept, CopyingBack
<1>10. Planned' = [mounted EXCEPT ![n] = p]
  BY <1>3, <1>4 DEF Planned
<1>11. ASSUME NEW d, d # Directory, Seen(tree, mounted, d), pc' = "i_check"
       PROVE  Seen(tree', Planned', d)
  BY <1>0, <1>2, <1>4, <1>6, <1>7, <1>10, <1>11, MountHidesNothing DEF Seen, SubvolInv
<1>12. FoundSound'
  BY <1>2, <1>4, <1>11 DEF HideInv, FoundSound, Moves
<1> QED
  BY <1>8, <1>9, <1>12 DEF HideInv

\* The place of an addition that fills its subvolume.
LEMMA FillPlace ==
  ASSUME SubvolInv, MountsApart, PlaceSound, pc \in Filling
  PROVE  /\ MountsIn(mounted) /\ work.sub \in Subvols /\ mounted[work.sub] = NoPath
         /\ work.at \in Paths /\ Clear(mounted, work.at)
         /\ work.parent \in Subvols \ {work.sub} /\ Deepest(mounted, work.parent, work.at)
         /\ mounted[work.parent] \in Paths \ {work.at}
         /\ work.rel = Rel(work.at, mounted[work.parent]) /\ work.rel \in Seq(STRING)
<1>1. MountsIn(mounted)
  BY DEF SubvolInv, SubvolTypeOK, MountsApart, MountsIn
<1>2. /\ work.sub \in Subvols /\ mounted[work.sub] = NoPath /\ work.at \in Paths
      /\ work.parent \in Subvols \ {work.sub}
      /\ mounted[work.parent] \in Paths \ {work.at} /\ IsPrefix(mounted[work.parent], work.at)
      /\ work.rel = Rel(work.at, mounted[work.parent])
  BY DEF SubvolInv, ItemSound, Adds, Filling, Movable, Places, CopyingBack
<1>3. Clear(mounted, work.at) /\ Deepest(mounted, work.parent, work.at)
  BY DEF PlaceSound, Adds, Filling
<1>4. work.rel \in Seq(STRING)
  BY <1>2, RelAt, SubvolumesAssumption
<1> QED
  BY <1>1, <1>2, <1>3, <1>4

LEMMA RenameHides ==
  ASSUME SubvolInv, MountsApart, LinesSound, HideInv, Rename
  PROVE  HideInv'
<1> DEFINE x == work.parent
           R == work.rel
           S == Staging(R)
           p == work.at
<1>1. /\ pc = "i_rename" /\ pc' = "i_copy" /\ UNCHANGED <<mounted, fstab, work, found, cuts>>
      /\ tree' = [tree EXCEPT ![x] = (@ \ Below(x, R)) \cup Under(S, Contents(x, R)) \cup {DirAt(R)}]
  BY DEF Rename, book
<1>2. /\ MountsIn(mounted) /\ p \in Paths /\ Clear(mounted, p) /\ x \in Subvols
      /\ Deepest(mounted, x, p) /\ mounted[x] # p /\ R = Rel(p, mounted[x]) /\ R \in Seq(STRING)
  BY <1>1, FillPlace DEF HideInv, Filling
<1>3. PlaceSound'
  BY <1>1 DEF HideInv, PlaceSound, Moves, Adds, Filling, CopyingBack
<1>4. LinesKept'
  BY <1>1 DEF HideInv, LinesKept, CopyingBack
<1> DEFINE Kept == (tree[x] \ Below(x, R)) \cup Under(S, Contents(x, R)) \cup {DirAt(R)}
<1>5. tree'[x] = Kept /\ \A s \in Subvols \ {x} : tree'[s] = tree[s]
  BY <1>1, <1>2 DEF SubvolInv, SubvolTypeOK
<1>6. ASSUME NEW s \in Subvols, NEW e \in tree[s], e.is # Directory, Open(mounted, s, e.at)
      PROVE  \E f \in tree'[s] : f.is = e.is /\ Open(mounted, s, f.at) /\ ~(s = x /\ IsPrefix(R, f.at))
  <2>1. CASE ~(s = x /\ IsPrefix(R, e.at))
    <3>1. e \in tree'[s]
      BY <1>5, <2>1 DEF Below
    <3> QED
      BY <1>6, <2>1, <3>1
  <2>2. CASE s = x /\ IsPrefix(R, e.at)
    <3> DEFINE r == Rel(e.at, R)
               g == [at |-> r, is |-> e.is]
               f == [at |-> S \o r, is |-> e.is]
    <3>1. e.at \in Seq(STRING)
      BY DEF SubvolInv, SubvolTypeOK, Entry
    <3>2. r \in Seq(STRING)
      BY <1>2, <2>2, <3>1, RelAt
    <3>3. g \in Contents(x, R)
      BY <1>6, <2>2 DEF Contents, Below, DirAt
    <3>4. f \in Under(S, Contents(x, R))
      <4>1. g.at = r /\ g.is = e.is
        OBVIOUS
      <4> DEFINE C == Contents(x, R)
      <4>2. g \in C
        BY <3>3
      <4> HIDE DEF g, C, S
      <4>3. [at |-> S \o g.at, is |-> g.is] \in Under(S, C)
        BY <4>2 DEF Under
      <4>4. f = [at |-> S \o g.at, is |-> g.is]
        BY <4>1
      <4> QED
        BY <4>3, <4>4 DEF C
    <3>5. f \in tree'[x] /\ f.is = e.is /\ f.at = S \o r
      BY <1>5, <3>4
    <3>6. Open(mounted, x, S \o r) /\ ~IsPrefix(R, S \o r)
      BY <1>2, <3>2, AsideShows
    <3> QED
      BY <2>2, <3>5, <3>6
  <2> QED
    BY <2>1, <2>2
<1>7. \A d : d # Directory /\ Seen(tree, mounted, d) => SeenBeside(tree', mounted', d, work'.parent, work'.rel)
  BY <1>1, <1>6 DEF Seen, SeenBeside
<1>8. FoundSound'
  BY <1>1, <1>7 DEF HideInv, FoundSound, Moves
<1> QED
  BY <1>3, <1>4, <1>8 DEF HideInv

\* Everything that was put aside is in the subvolume when it takes the place.
LEMMA CopyHides ==
  ASSUME SubvolInv, MountsApart, LinesSound, HideInv, CopyIn
  PROVE  HideInv'
<1> DEFINE x == work.parent
           n == work.sub
           R == work.rel
           S == Staging(R)
           p == work.at
<1>1. PICK part \in SUBSET Copyable(Aside) :
        /\ pc = "i_copy" /\ tree' = [tree EXCEPT ![n] = @ \cup part]
        /\ pc' \in {"i_copied", "i_undo"} /\ (pc' = "i_copied" => Copyable(Aside) \subseteq tree'[n])
        /\ UNCHANGED <<mounted, fstab, work, found, cuts>>
  BY DEF CopyIn, book
<1>2. /\ MountsIn(mounted) /\ n \in Subvols /\ mounted[n] = NoPath /\ p \in Paths /\ Clear(mounted, p)
      /\ x \in Subvols \ {n} /\ Deepest(mounted, x, p) /\ R = Rel(p, mounted[x]) /\ R \in Seq(STRING)
  BY <1>1, FillPlace DEF HideInv, Filling
<1>3. PlaceSound'
  BY <1>1 DEF HideInv, PlaceSound, Moves, Adds, Filling, CopyingBack
<1>4. LinesKept'
  BY <1>1 DEF HideInv, LinesKept, CopyingBack
<1>5. \A s \in Subvols : tree[s] \subseteq tree'[s]
  BY <1>1, <1>2 DEF SubvolInv, SubvolTypeOK
<1>6. Planned' = Planned /\ Planned = [mounted EXCEPT ![n] = p]
  BY <1>1 DEF Planned
<1>7. /\ S \in Seq(STRING)
      /\ FilesBelow(x, S) \cap Nested = {}
  BY <1>1, <1>2, StagingIs, FillPlace DEF SubvolInv, FillSound, Filling, HideInv, Deepest
<1>8. ASSUME pc' = "i_copied", NEW s \in Subvols, NEW e \in tree[s], e.is # Directory,
             Open(mounted, s, e.at), ~(s = x /\ IsPrefix(R, e.at))
      PROVE  \E t \in Subvols : \E f \in tree'[t] :
                f.is = e.is /\ Open(Planned, t, f.at) /\ ~(t = x /\ IsPrefix(S, f.at))
  <2>1. e.at \in Seq(STRING) /\ e.is \in Data
    BY <1>8 DEF SubvolInv, SubvolTypeOK, Entry
  <2>2. CASE ~(s = x /\ IsPrefix(S, e.at))
    <3>1. Open(Planned, s, e.at)
      BY <1>2, <1>6, <1>8, <2>1, BesideShows
    <3> QED
      BY <1>5, <1>8, <2>2, <3>1
  <2>3. CASE s = x /\ IsPrefix(S, e.at)
    <3> DEFINE r == Rel(e.at, S)
               g == [at |-> r, is |-> e.is]
    <3>1. r \in Seq(STRING)
      BY <1>7, <2>1, <2>3, RelAt
    <3>2. g \in Aside
      BY <1>8, <2>3 DEF Aside, Contents, Below, DirAt
    <3>3. e.is \notin Nested
      <4>1. e \in Below(x, S)
        BY <2>3 DEF Below
      <4>2. e.is \in FilesBelow(x, S)
        BY <1>8, <4>1 DEF FilesBelow, Files
      <4> QED
        BY <1>7, <4>2
    <3>4. g \in tree'[n]
      BY <1>1, <1>8, <3>2, <3>3 DEF Copyable
    <3>5. Open(Planned, n, r)
      <4>1. Open([mounted EXCEPT ![n] = p], n, r)
        BY <1>2, <3>1, MountAdded
      <4> QED
        BY <1>6, <4>1
    <3> QED
      BY <1>2, <3>4, <3>5
  <2> QED
    BY <2>2, <2>3
<1>9. \A d : pc' = "i_copied" /\ d # Directory /\ SeenBeside(tree, mounted, d, work.parent, work.rel)
               => SeenBeside(tree', Planned', d, work'.parent, Staging(work'.rel))
  BY <1>1, <1>6, <1>8 DEF SeenBeside
<1>10. FoundSound'
  BY <1>1, <1>9 DEF HideInv, FoundSound, Moves
<1> QED
  BY <1>3, <1>4, <1>10 DEF HideInv

LEMMA AddEndHides ==
  ASSUME SubvolInv, MountsApart, LinesSound, HideInv,
         \/ IdleCheckFails \/ Unstage \/ RemoveStaged
         \/ (CheckEmpty /\ pc' = "i_mount") \/ AddMount \/ AddSetLine
  PROVE  HideInv'
<1>1. CASE IdleCheckFails \/ Unstage
  <2>1. /\ pc \in {"i_rename", "i_undo"} /\ pc' = "i_discard"
        /\ UNCHANGED <<mounted, fstab, work, cuts>>
    BY <1>1 DEF IdleCheckFails, Unstage, disk, book
  <2>2. PlaceSound'
    BY <2>1 DEF HideInv, PlaceSound, Moves, Adds, Filling, CopyingBack
  <2>3. LinesKept'
    BY <2>1 DEF HideInv, LinesKept, CopyingBack
  <2>4. FoundSound'
    <3>1. found' = found
      BY <1>1 DEF IdleCheckFails, Unstage, book
    <3> QED
      BY <2>1, <3>1 DEF HideInv, FoundSound, Moves
  <2> QED
    BY <2>2, <2>3, <2>4 DEF HideInv
<1>2. CASE RemoveStaged
  <2> DEFINE x == work.parent
             S == Staging(work.rel)
  <2>1. PICK left \in SUBSET Aside :
          /\ pc = "i_copied" /\ pc' = "i_check" /\ UNCHANGED <<mounted, fstab, work, found, cuts>>
          /\ tree' = [tree EXCEPT ![x] = (@ \ Below(x, S)) \cup (IF left = {} THEN {} ELSE Under(S, left))]
    BY <1>2 DEF RemoveStaged, book
  <2>2. x \in Subvols
    BY <2>1, FillPlace DEF HideInv, Filling
  <2>3. \A s \in Subvols : \A e \in tree[s] : ~(s = x /\ IsPrefix(S, e.at)) => e \in tree'[s]
    BY <2>1, <2>2 DEF Below, SubvolInv, SubvolTypeOK
  <2>4. Planned' = Planned
    BY <2>1 DEF Planned
  <2>5. \A d : SeenBeside(tree, Planned, d, work.parent, Staging(work.rel)) => Seen(tree', Planned', d)
    BY <2>3, <2>4 DEF SeenBeside, Seen
  <2>6. FoundSound'
    BY <2>1, <2>5 DEF HideInv, FoundSound, Moves
  <2> QED
    BY <2>1, <2>6 DEF HideInv, PlaceSound, LinesKept, Moves, Adds, Filling, CopyingBack
<1>3. CASE CheckEmpty /\ pc' = "i_mount"
  <2>1. /\ pc = "i_check" /\ UNCHANGED <<tree, mounted, fstab, work, found, cuts>>
    BY <1>3 DEF CheckEmpty, Refuse, Raise, Stop, disk, book
  <2>2. Planned' = Planned
    BY <2>1 DEF Planned
  <2>3. FoundSound'
    BY <1>3, <2>1, <2>2 DEF HideInv, FoundSound, Moves
  <2> QED
    BY <1>3, <2>1, <2>3 DEF HideInv, PlaceSound, LinesKept, Moves, Adds, Filling, CopyingBack
<1>4. CASE AddMount
  <2>1. /\ pc = "i_mount" /\ pc' = "i_fstab" /\ tree' = WithDir(mounted, work.at)
        /\ mounted' = Planned /\ UNCHANGED <<fstab, work, found, cuts>>
    BY <1>4 DEF AddMount, Planned, book
  <2>2. \A s \in Subvols \ {work.sub} : mounted'[s] = mounted[s]
    BY <2>1 DEF Planned, SubvolInv, SubvolTypeOK
  <2>3. \A s \in Subvols : tree[s] \subseteq tree'[s]
    BY <2>1 DEF WithDir, SubvolInv, SubvolTypeOK
  <2>4. LinesKept'
    BY <2>1, <2>2 DEF HideInv, LinesKept, CopyingBack
  <2>5. FoundSound'
    BY <2>1, <2>3, SeenGrows DEF HideInv, FoundSound, Moves
  <2> QED
    BY <2>1, <2>4, <2>5 DEF HideInv, PlaceSound, Moves, Adds, Filling, CopyingBack
<1>5. CASE AddSetLine
  <2>1. /\ pc = "i_fstab" /\ pc' = "next" /\ FstabSet(work.at, work.sub)
        /\ UNCHANGED <<tree, mounted, found, cuts>>
        /\ work.sub \in Subvols /\ work.at \in Paths /\ mounted[work.sub] = work.at
    BY <1>5 DEF AddSetLine, NextItem, book, SubvolInv, ItemSound, MountsApart, Adds, Movable, Places
  <2>2. \A s \in Subvols \ {work.sub} : mounted[s] # NoPath => mounted[s] \in Paths \ {work.at}
    BY <2>1, SubvolumesAssumption DEF MountsApart, SubvolInv, SubvolTypeOK
  <2>3. \A q \in Paths : fstab'[q] = IF q = work.at THEN work.sub
                                      ELSE IF fstab[q] = work.sub THEN NoSubvol ELSE fstab[q]
    BY <2>1 DEF FstabSet
  <2>4. LinesKept'
    BY <2>1, <2>2, <2>3 DEF HideInv, LinesKept, CopyingBack
  <2>5. FoundSound'
    BY <2>1 DEF HideInv, FoundSound, Moves
  <2> QED
    BY <2>1, <2>4, <2>5 DEF HideInv, PlaceSound, Moves, Adds, Filling, CopyingBack
<1> QED
  BY <1>1, <1>2, <1>3, <1>4, <1>5

LEMMA RemoveBeginHides ==
  ASSUME SubvolInv, MountsApart, LinesSound, HideInv, BeginRemove, LinesSound'
  PROVE  HideInv'
<1>0. MountsIn(mounted)
  BY DEF SubvolInv, SubvolTypeOK, MountsApart, MountsIn
<1>1. PICK c \in todo :
        LET n   == c.sub
            p   == WhereOf(n)
            par == Parent(mounted, n, p)
        IN /\ Pick(c) /\ c.op = "remove" /\ MayRemove(n)
           /\ work' = [Idle EXCEPT !.op = "remove", !.sub = n, !.at = p,
                         !.from = mounted[n], !.parent = par,
                         !.rel = Rel(p, mounted[par])]
           /\ mounted' = [mounted EXCEPT ![n] = NoPath]
           /\ pc' = "r_copy"
           /\ UNCHANGED <<tree, existing, fstab, book>>
  BY DEF BeginRemove
<1> DEFINE n == c.sub
           p == WhereOf(n)
           x == Parent(mounted, n, p)
<1>2. n \in Movable /\ n \in Subvols /\ pc = "next" /\ pc' = "r_copy"
  BY <1>1, PickedIs DEF Pick, SubvolInv, Movable
<1>3. work'.sub = n /\ work'.at = p /\ work'.parent = x /\ work'.from = mounted[n]
  BY <1>1 DEF Idle
<1>4. UNCHANGED <<tree, fstab, found, cuts>> /\ mounted' = [mounted EXCEPT ![n] = NoPath]
  BY <1>1 DEF book
<1>5. cuts = 0 => mounted[n] # NoPath
  BY <1>2, <1>3, <1>4 DEF LinesSound, Removes, CopyingBack
<1>6. mounted[n] # NoPath => /\ p = mounted[n] /\ p \in Places /\ p \in Paths
                             /\ ~MountedBelow(mounted, p)
                             /\ \A s \in Subvols \ {n} : mounted[s] # p
  BY <1>1, <1>2 DEF WhereOf, MayRemove, Places, MountsApart, SubvolInv, SubvolTypeOK
<1> HIDE DEF n, p, x
<1>7. ASSUME mounted[n] # NoPath
      PROVE  Clear(mounted', p) /\ Deepest(mounted', x, p)
  <2>1. Clear(mounted', p)
    BY <1>2, <1>4, <1>6, <1>7 DEF Clear, MountedBelow, IsStrictPrefix, SubvolInv, SubvolTypeOK
  <2>2. Deepest(mounted', x, p)
    BY <1>2, <1>4, <1>6, <1>7, ParentIsDeepest DEF x, SubvolInv
  <2> QED
    BY <2>1, <2>2
<1>8. PlaceSound'
  BY <1>2, <1>3, <1>7 DEF PlaceSound, Moves, Adds, Filling, CopyingBack
<1>9. LinesKept'
  <2>1. \A s \in Subvols : mounted'[s] = IF s = n THEN NoPath ELSE mounted[s]
    BY <1>4 DEF SubvolInv, SubvolTypeOK
  <2>2. cuts = 0 => fstab[p] = n
    BY <1>2, <1>5, <1>6 DEF HideInv, LinesKept
  <2> QED
    BY <1>2, <1>3, <1>4, <2>1, <2>2 DEF HideInv, LinesKept
<1>10. mounted[n] # NoPath => Planned' = mounted
  BY <1>2, <1>3, <1>4, <1>6 DEF Planned, SubvolInv, SubvolTypeOK
<1>11. FoundSound'
  BY <1>2, <1>4, <1>5, <1>10 DEF HideInv, FoundSound, Moves
<1> QED
  BY <1>8, <1>9, <1>11 DEF HideInv

\* The subvolume's files show in the parent once all are copied back.
LEMMA CopyBackHides ==
  ASSUME SubvolInv, MountsApart, LinesSound, HideInv, CopyBack
  PROVE  HideInv'
<1> DEFINE x == work.parent
           n == work.sub
           R == work.rel
           p == work.at
<1>1. PICK part \in SUBSET Copyable(tree[n]) :
        /\ pc = "r_copy" /\ tree' = [tree EXCEPT ![x] = @ \cup Under(R, part)]
        /\ pc' \in {"r_drop", "r_empty"}
        /\ pc' = "r_drop" => Under(R, Copyable(tree[n])) \subseteq tree'[x]
        /\ UNCHANGED <<mounted, fstab, work, found, cuts>>
  BY DEF CopyBack, book
<1>2. /\ MountsIn(mounted) /\ n \in Subvols /\ mounted[n] = NoPath /\ p \in Paths
      /\ x \in Subvols \ {n} /\ R = Rel(p, mounted[x])
  BY <1>1 DEF SubvolInv, SubvolTypeOK, ItemSound, MountsApart, MountsIn, Adds, Removes, CopyingBack, Movable, Places
<1>3. cuts = 0 => work.from # NoPath /\ Clear(mounted, p) /\ Deepest(mounted, x, p)
  BY <1>1 DEF HideInv, PlaceSound, LinesSound, Removes, CopyingBack
<1>4. PlaceSound'
  BY <1>1 DEF HideInv, PlaceSound, Moves, Adds, Filling, CopyingBack
<1>5. LinesKept'
  BY <1>1 DEF HideInv, LinesKept, CopyingBack
<1>6. \A s \in Subvols : tree[s] \subseteq tree'[s]
  BY <1>1, <1>2 DEF SubvolInv, SubvolTypeOK
<1>7. FilesOf(n) \cap Nested = {}
  BY <1>1 DEF SubvolInv, RemoveSound, CopyingBack
<1>8. ASSUME cuts = 0, pc' = "r_drop", NEW s \in Subvols, NEW e \in tree[s], e.is # Directory,
             Open(Planned, s, e.at)
      PROVE  \E t \in Subvols : \E f \in tree'[t] : f.is = e.is /\ Open(mounted, t, f.at)
  <2>1. e.at \in Seq(STRING)
    BY DEF SubvolInv, SubvolTypeOK, Entry
  <2>2. CASE s # n
    <3>1. MountsIn(Planned)
      BY <1>2, <1>3, <1>8, MountAdded DEF Planned
    <3>2. mounted = [Planned EXCEPT ![n] = NoPath]
      BY <1>2 DEF Planned, MountsIn
    <3>3. Open(mounted, s, e.at)
      BY <1>2, <1>8, <2>1, <2>2, <3>1, <3>2, MountDropped
    <3> QED
      BY <1>6, <1>8, <3>3
  <2>3. CASE s = n
    <3> DEFINE f == [at |-> R \o e.at, is |-> e.is]
               C == Copyable(tree[n])
    <3>1. e.is \notin Nested
      BY <1>7, <1>8, <2>3 DEF FilesOf, Files
    <3>2. e \in C
      BY <1>8, <2>3, <3>1 DEF Copyable
    <3>3. f.is = e.is /\ f.at = R \o e.at
      OBVIOUS
    <3>4. f \in Under(R, C)
      <4> HIDE DEF C, R
      <4> QED
        BY <3>2 DEF Under
    <3>5. Open(mounted, x, R \o e.at)
      BY <1>2, <1>3, <1>8, <2>1, ParentShowsBelow
    <3> QED
      BY <1>1, <1>2, <1>8, <3>3, <3>4, <3>5
  <2> QED
    BY <2>2, <2>3
<1>9. \A d : cuts = 0 /\ pc' = "r_drop" /\ d # Directory /\ Seen(tree, Planned, d) => Seen(tree', mounted', d)
  BY <1>1, <1>8 DEF Seen
<1>10. FoundSound'
  BY <1>1, <1>9 DEF HideInv, FoundSound, Moves
<1> QED
  BY <1>4, <1>5, <1>10 DEF HideInv

LEMMA RemoveEndHides ==
  ASSUME SubvolInv, MountsApart, LinesSound, HideInv,
         EmptyPartialCopy \/ Remount \/ RemoveDropLine \/ DeleteSubvolume
  PROVE  HideInv'
<1>1. CASE EmptyPartialCopy
  <2>1. pc = "r_empty" /\ pc' = "r_remount" /\ UNCHANGED <<mounted, fstab, work, found, cuts>>
    BY <1>1 DEF EmptyPartialCopy, book
  <2> QED
    BY <2>1 DEF HideInv, PlaceSound, LinesKept, FoundSound, Moves, Adds, Filling, CopyingBack
<1>2. CASE Remount
  <2>1. /\ pc = "r_remount" /\ pc' = "idle" /\ found' = {} /\ fstab' = fstab
        /\ \/ mounted' = [mounted EXCEPT ![work.sub] = work.from] /\ cuts' = cuts
           \/ mounted' = mounted /\ cuts' = cuts + 1
        /\ work.sub \in Subvols
    BY <1>2 DEF Remount, Stop, Cut, SubvolInv, ItemSound, Removes, Movable
  <2>2. cuts' = 0 => cuts = 0 /\ mounted' = [mounted EXCEPT ![work.sub] = work.from]
                     /\ work.from # NoPath /\ work.from = work.at
    BY <2>1 DEF LinesSound, MountsApart, Removes
  <2>3. LinesKept'
    BY <2>1, <2>2 DEF HideInv, LinesKept, CopyingBack, SubvolInv, SubvolTypeOK
  <2> QED
    BY <2>1, <2>3 DEF HideInv, PlaceSound, FoundSound, Moves, Adds, Filling, CopyingBack
<1>3. CASE RemoveDropLine
  <2>1. /\ pc = "r_drop" /\ pc' = "r_delete" /\ fstab' = [fstab EXCEPT ![work.at] = NoSubvol]
        /\ UNCHANGED <<tree, mounted, work, found, cuts>>
    BY <1>3 DEF RemoveDropLine, book
  <2>2. cuts = 0 => \A s \in Subvols : mounted[s] # NoPath => mounted[s] \in Paths \ {work.at}
    BY <2>1 DEF LinesSound, MountsApart, Removes, CopyingBack, SubvolInv, SubvolTypeOK
  <2>3. \A q \in Paths \ {work.at} : fstab'[q] = fstab[q]
    BY <2>1 DEF SubvolInv, SubvolTypeOK
  <2>4. LinesKept'
    BY <2>1, <2>2, <2>3 DEF HideInv, LinesKept, CopyingBack
  <2>5. FoundSound'
    BY <2>1 DEF HideInv, FoundSound, Moves
  <2> QED
    BY <2>1, <2>4, <2>5 DEF HideInv, PlaceSound, Moves, Adds, Filling, CopyingBack
<1>4. CASE DeleteSubvolume
  <2>1. /\ pc = "r_delete" /\ pc' = "next" /\ tree' = [tree EXCEPT ![work.sub] = {}]
        /\ UNCHANGED <<mounted, fstab, found, cuts>>
    BY <1>4 DEF DeleteSubvolume, NextItem, book
  <2>2. mounted[work.sub] = NoPath
    BY <2>1 DEF SubvolInv, ItemSound, Removes, Adds, Filling
  <2>3. \A s \in Subvols \ {work.sub} : tree'[s] = tree[s]
    BY <2>1 DEF SubvolInv, SubvolTypeOK
  <2>4. \A d : Seen(tree, mounted, d) => Seen(tree', mounted', d)
    BY <2>1, <2>2, <2>3 DEF Seen, Open
  <2>5. FoundSound'
    BY <2>1, <2>4 DEF HideInv, FoundSound, Moves
  <2> QED
    BY <2>1, <2>5 DEF HideInv, PlaceSound, LinesKept, Moves, Adds, Filling, CopyingBack
<1> QED
  BY <1>1, <1>2, <1>3, <1>4

LEMMA MachineHides ==
  ASSUME SubvolInv, MountsApart, LinesSound, HideInv, WriteFile \/ Reboot
  PROVE  HideInv'
<1>1. CASE WriteFile
  <2>1. UNCHANGED <<mounted, fstab, pc, work, found, cuts>>
    BY <1>1 DEF WriteFile
  <2>2. \A s \in Subvols : tree[s] \subseteq tree'[s]
    BY <1>1 DEF WriteFile, SubvolInv, SubvolTypeOK
  <2>3. Planned' = Planned
    BY <2>1 DEF Planned
  <2>4. PlaceSound' /\ LinesKept'
    BY <2>1 DEF HideInv, PlaceSound, LinesKept
  <2>5. FoundSound'
    BY <2>1, <2>2, <2>3, SeenGrows DEF HideInv, FoundSound
  <2> QED
    BY <2>4, <2>5 DEF HideInv
<1>2. CASE Reboot
  <2>1. /\ mounted' = Booted /\ UNCHANGED <<tree, fstab>> /\ pc' = "idle"
        /\ \/ pc = "idle" /\ found' = found /\ cuts' = cuts
           \/ pc # "idle" /\ found' = {} /\ (cuts' = cuts + 1 \/ (pc = "next" /\ cuts' = cuts))
    BY <1>2 DEF Reboot, Stop, Cut, book
  <2>2. cuts' = 0 => cuts = 0 /\ pc \in {"idle", "next"} /\ mounted' = mounted
    BY <2>1, BootedNow DEF HideInv, LinesSound
  <2>3. LinesKept'
    BY <2>1, <2>2 DEF HideInv, LinesKept, CopyingBack
  <2>4. FoundSound'
    BY <2>1, <2>2 DEF HideInv, FoundSound, Moves
  <2> QED
    BY <2>1, <2>3, <2>4 DEF HideInv, PlaceSound, Moves, Adds, Filling, CopyingBack
<1> QED
  BY <1>1, <1>2

LEMMA HideStep ==
  ASSUME SubvolInv, MountsApart, LinesSound, HideInv, LinesSound', [Next]_vars
  PROVE  HideInv'
<1>1. CASE UNCHANGED vars
  BY <1>1 DEF vars, disk, book, HideInv, PlaceSound, LinesKept, FoundSound, Planned
<1>2. CASE RefuseItem \/ CommandFails \/ Die \/ Discard \/ (CheckEmpty /\ pc' # "i_mount")
  <2>1. Stop /\ mounted' = mounted /\ fstab' = fstab
    BY <1>2 DEF RefuseItem, Refuse, Raise, CommandFails, Die, Discard, CheckEmpty, disk
  <2>2. cuts' = cuts + 1 \/ (cuts' = cuts /\ pc # "i_fstab")
    BY <1>2 DEF RefuseItem, Refuse, Raise, CommandFails, Die, Discard, CheckEmpty, Cut
  <2> QED
    BY <2>1, <2>2, StoppedHides
<1>3. CASE StartApply \/ Finish \/ Edit
  BY <1>3, PlanHides
<1>4. CASE InstallFstabOnly \/ BeginMove \/ MoveDropLine \/ MoveSetLine \/ MoveMount
  BY <1>4, MoveHides
<1>5. CASE BeginAdd \/ Rename \/ CopyIn
  BY <1>5, AddBeginHides, RenameHides, CopyHides
<1>6. CASE \/ IdleCheckFails \/ Unstage \/ RemoveStaged
           \/ (CheckEmpty /\ pc' = "i_mount") \/ AddMount \/ AddSetLine
  BY <1>6, AddEndHides
<1>7. CASE BeginRemove \/ CopyBack
  BY <1>7, RemoveBeginHides, CopyBackHides
<1>8. CASE EmptyPartialCopy \/ Remount \/ RemoveDropLine \/ DeleteSubvolume
  BY <1>8, RemoveEndHides
<1>9. CASE WriteFile \/ Reboot
  BY <1>9, MachineHides
<1> QED
  BY <1>1, <1>2, <1>3, <1>4, <1>5, <1>6, <1>7, <1>8, <1>9 DEF Next, Apply

\* An apply that ended well hides no file that could be reached when it started, at once
\* or after a boot: no mount covers files, no subvolume with files is left without its
\* mount or its line, and what is moved between two subvolumes shows where it did.
THEOREM NothingIsHidden == Spec => []NothingHidden
<1>1. Init => (MountsApart /\ PlanKept /\ LinesSound) /\ HideInv
  <2>1. Init => HideInv
    BY SubvolumesAssumption DEF Init, HideInv, PlaceSound, LinesKept, FoundSound, Moves, Adds, Filling, CopyingBack
  <2> QED
    BY <2>1, SettleInit
<1>2. SubvolInv /\ ((MountsApart /\ PlanKept /\ LinesSound) /\ HideInv) /\ [Next]_vars
        => ((MountsApart /\ PlanKept /\ LinesSound) /\ HideInv)'
  BY SettleStep, HideStep
<1>3. SubvolInv /\ ((MountsApart /\ PlanKept /\ LinesSound) /\ HideInv) => NothingHidden
  <2> SUFFICES ASSUME SubvolInv, MountsApart, LinesSound, HideInv, pc = "idle", cuts = 0
               PROVE  found \subseteq Reachable
    BY DEF NothingHidden
  <2>1. Booted = mounted
    BY BootedNow DEF HideInv
  <2>2. MountsIn(mounted)
    BY DEF SubvolInv, SubvolTypeOK, MountsApart, MountsIn
  <2>3. \A d \in found : d # Directory /\ Seen(tree, mounted, d)
    BY DEF HideInv, FoundSound
  <2> QED
    BY <2>1, <2>2, <2>3, ReachableIs DEF Reachable, SubvolInv
<1> QED
  BY <1>1, <1>2, <1>3, SubvolumesAreSound, PTL DEF Spec
=============================================================================
