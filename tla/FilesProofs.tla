----------------------------- MODULE FilesProofs -----------------------------
(***************************************************************************)
(* Whatever an apply writes, deletes and leaves half done: it touches what *)
(* is declared or owned and nothing else, and does not let a secret be     *)
(* read.  Both are about single steps, and what makes them hold is where   *)
(* an apply is in its list of calls: what was opened is no link, and has   *)
(* its mode, when it is filled.                                            *)
(***************************************************************************)
EXTENDS Files, TLAPS, FiniteSetTheorems, SequenceTheorems

-----------------------------------------------------------------------------
(***************************************************************************)
(* The tree                                                                *)
(***************************************************************************)

Opened(p) == p \in DOMAIN tree /\ tree[p].kind # "link"

LEMMA OpenedIs ==
  ASSUME NEW p, ~IsLink(p)
  PROVE  Follow(p) = p /\ (Exists(p) <=> p \in DOMAIN tree) /\ (p \in DOMAIN tree => Opened(p))
BY DEF IsLink, Follow, Exists, Opened

LEMMA OpenedNoLink ==
  ASSUME NEW p, Opened(p)
  PROVE  ~IsLink(p) /\ p \in DOMAIN tree
BY DEF IsLink, Opened

-----------------------------------------------------------------------------
(***************************************************************************)
(* What a step may do                                                      *)
(***************************************************************************)

PrivateHere(p) ==
  (p \in DOMAIN doc.home /\ doc.home[p].private) \/ (p \in DOMAIN doc.files /\ doc.files[p].private)

\* The two properties, of one step.
KeepsSecrets ==
  \A p \in DOMAIN doc.home \cup DOMAIN doc.files :
    (p \in DOMAIN doc.home /\ doc.home[p].private) \/ (p \in DOMAIN doc.files /\ doc.files[p].private)
      => (Shows(p, tree') => Shows(p, tree))

KeepsToItsOwn ==
  \A p \in DOMAIN tree :
    /\ p \notin DOMAIN tree' =>
         \/ p \in (ownedHome \cup ownedFiles) \ Shipped \/ (p \in Mine /\ IsLink(p))
         \/ doc.purge /\ p \in Below(Path)
    /\ p \in DOMAIN tree' /\ tree'[p] # tree[p] =>
         p \in Mine \/ (p \in HomeDirs /\ tree[p].owner = Root)

IsNode(node) == DOMAIN node = DOMAIN Dir(Root)

\* The files several actions write are no links.
TreeOK == (\A p \in DOMAIN tree : IsNode(tree[p])) /\ ~IsLink(Fstab) /\ ~IsLink(Crypttab)

LEMMA NothingMoves ==
  ASSUME TreeOK, UNCHANGED tree
  PROVE  KeepsSecrets /\ KeepsToItsOwn /\ TreeOK'
BY DEF KeepsSecrets, KeepsToItsOwn, TreeOK, IsLink, Shows

LEMMA PutKeeps ==
  ASSUME NEW p, NEW node, TreeOK, IsNode(node), tree' = Put(p, node),
         p \in {Fstab, Crypttab} => node.kind # "link",
         \/ p \notin DOMAIN tree \/ p \in Mine \/ (p \in HomeDirs /\ tree[p].owner = Root)
  PROVE  KeepsToItsOwn /\ TreeOK'
<1>1. KeepsToItsOwn
  <2>1. \A q \in DOMAIN tree : q \in DOMAIN tree' /\ (tree'[q] # tree[q] => q = p)
    BY DEF Put
  <2> QED
    BY <2>1 DEF KeepsToItsOwn
<1>2. TreeOK'
  BY DEF Put, TreeOK, IsLink
<1> QED
  BY <1>1, <1>2

LEMMA PutHides ==
  ASSUME NEW p, NEW node, tree' = Put(p, node),
         \/ ~PrivateHere(p)
         \/ node.content \cap Secrets = {}
         \/ node.private
         \/ p \in DOMAIN tree /\ node.content \cap Secrets \subseteq tree[p].content /\ node.private = tree[p].private
  PROVE  KeepsSecrets
<1> SUFFICES ASSUME NEW q, PrivateHere(q), Shows(q, tree')
             PROVE  Shows(q, tree)
  BY DEF KeepsSecrets, PrivateHere
<1>1. CASE q = p
  <2>1. node.content \cap Secrets # {} /\ ~node.private
    BY <1>1 DEF Shows, Put
  <2>2. p \in DOMAIN tree /\ node.content \cap Secrets \subseteq tree[p].content /\ node.private = tree[p].private
    BY <1>1, <2>1
  <2> QED
    BY <1>1, <2>1, <2>2 DEF Shows
<1>2. CASE q # p
  BY <1>2 DEF Shows, Put
<1> QED
  BY <1>1, <1>2

LEMMA WithoutKeeps ==
  ASSUME NEW paths, TreeOK, tree' = Without(paths),
         \A p \in paths \cap DOMAIN tree :
           \/ p \in (ownedHome \cup ownedFiles) \ Shipped \/ (p \in Mine /\ IsLink(p))
           \/ doc.purge /\ p \in Below(Path)
  PROVE  KeepsSecrets /\ KeepsToItsOwn /\ TreeOK'
<1>1. KeepsToItsOwn
  BY DEF Without, KeepsToItsOwn
<1>2. TreeOK'
  BY DEF Without, TreeOK, IsLink
<1>3. KeepsSecrets
  BY DEF Without, KeepsSecrets, Shows
<1> QED
  BY <1>1, <1>2, <1>3

LEMMA Nodes ==
  /\ \A owner : IsNode(Dir(owner)) /\ Dir(owner).kind = "dir" /\ Dir(owner).content = {} /\ Dir(owner).owner = owner
  /\ \A to : IsNode(Link(to))
  /\ \A content, private, owner :
       /\ IsNode(File(content, private, owner)) /\ File(content, private, owner).kind = "file"
       /\ File(content, private, owner).content = content
BY DEF IsNode, Dir, Link, File

LEMMA NodeChanges ==
  ASSUME NEW n, IsNode(n), NEW v
  PROVE  /\ IsNode([n EXCEPT !.content = v]) /\ [n EXCEPT !.content = v].content = v
         /\ [n EXCEPT !.content = v].kind = n.kind /\ [n EXCEPT !.content = v].private = n.private
         /\ IsNode([n EXCEPT !.private = v]) /\ [n EXCEPT !.private = v].private = v
         /\ [n EXCEPT !.private = v].kind = n.kind /\ [n EXCEPT !.private = v].content = n.content
         /\ IsNode([n EXCEPT !.owner = v]) /\ [n EXCEPT !.owner = v].kind = n.kind
         /\ [n EXCEPT !.owner = v].content = n.content /\ [n EXCEPT !.owner = v].private = n.private
         /\ IsNode([n EXCEPT !.content = v, !.private = FALSE])
         /\ [n EXCEPT !.content = v, !.private = FALSE].kind = n.kind
BY DEF IsNode, Dir

-----------------------------------------------------------------------------
(***************************************************************************)
(* Sequences                                                               *)
(***************************************************************************)

IsSteps(t) == \E S : t \in Seq(S)

LEMMA SeqGrows ==
  ASSUME NEW S, NEW T, NEW t \in Seq(S), S \subseteq T
  PROVE  t \in Seq(T)
<1>1. Len(t) \in Nat /\ t \in [1 .. Len(t) -> S]
  BY LenProperties
<1> QED
  BY <1>1, SeqDef

LEMMA SeqHead ==
  ASSUME NEW S, NEW t \in Seq(S), t # <<>>
  PROVE  Head(t) \in S /\ Tail(t) \in Seq(S)
BY HeadTailProperties

LEMMA SeqJoin ==
  ASSUME NEW S, NEW s \in Seq(S), NEW t \in Seq(S)
  PROVE  s \o t \in Seq(S)
BY ConcatProperties

\* What is in front of a list.
LEMMA InFront ==
  ASSUME NEW s, NEW t, IsSteps(s), IsSteps(t), s # <<>>
  PROVE  s \o t # <<>> /\ Head(s \o t) = Head(s) /\ Tail(s \o t) = Tail(s) \o t
<1>1. PICK S : s \in Seq(S)
  BY DEF IsSteps
<1>2. PICK T : t \in Seq(T)
  BY DEF IsSteps
<1> DEFINE U == S \cup T
<1>3. s \in Seq(U) /\ t \in Seq(U)
  BY <1>1, <1>2, SeqGrows
<1> HIDE DEF U
<1>4. /\ s \o t \in Seq(U) /\ Len(s \o t) = Len(s) + Len(t)
      /\ \A i \in 1 .. Len(s) + Len(t) : (s \o t)[i] = IF i <= Len(s) THEN s[i] ELSE t[i - Len(s)]
  BY <1>3, ConcatProperties
<1>5. /\ Len(s) \in Nat /\ Len(t) \in Nat /\ Len(s) >= 1
      /\ Tail(s) \in Seq(U) /\ Len(Tail(s)) = Len(s) - 1
      /\ \A i \in 1 .. Len(Tail(s)) : Tail(s)[i] = s[i + 1]
  BY <1>3, LenProperties, HeadTailProperties, EmptySeq
<1>6. s \o t # <<>>
  BY <1>4, <1>5, EmptySeq
<1>7. /\ Tail(s \o t) \in Seq(U) /\ Len(Tail(s \o t)) = Len(s) + Len(t) - 1
      /\ \A i \in 1 .. Len(Tail(s \o t)) : Tail(s \o t)[i] = (s \o t)[i + 1]
  BY <1>4, <1>6, HeadTailProperties
<1>8. /\ Tail(s) \o t \in Seq(U) /\ Len(Tail(s) \o t) = Len(Tail(s)) + Len(t)
      /\ \A i \in 1 .. Len(Tail(s)) + Len(t) :
           (Tail(s) \o t)[i] = IF i <= Len(Tail(s)) THEN Tail(s)[i] ELSE t[i - Len(Tail(s))]
  BY <1>3, <1>5, ConcatProperties
<1>9. \A i \in 1 .. Len(s) + Len(t) - 1 : Tail(s \o t)[i] = (Tail(s) \o t)[i]
  <2> SUFFICES ASSUME NEW i \in 1 .. Len(s) + Len(t) - 1
               PROVE  Tail(s \o t)[i] = (Tail(s) \o t)[i]
    OBVIOUS
  <2>1. Tail(s \o t)[i] = (s \o t)[i + 1]
    BY <1>7
  <2>2. i + 1 \in 1 .. Len(s) + Len(t) /\ i \in 1 .. Len(Tail(s)) + Len(t)
    BY <1>5
  <2>3. CASE i <= Len(Tail(s))
    <3>1. (s \o t)[i + 1] = s[i + 1] /\ (Tail(s) \o t)[i] = Tail(s)[i]
      BY <1>4, <1>5, <1>8, <2>2, <2>3
    <3> QED
      BY <1>5, <2>1, <2>3, <3>1
  <2>4. CASE ~(i <= Len(Tail(s)))
    <3>1. (s \o t)[i + 1] = t[i + 1 - Len(s)] /\ (Tail(s) \o t)[i] = t[i - Len(Tail(s))]
      BY <1>4, <1>5, <1>8, <2>2, <2>4
    <3>2. i + 1 - Len(s) = i - Len(Tail(s))
      BY <1>5
    <3> QED
      BY <2>1, <3>1, <3>2
  <2> QED
    BY <2>3, <2>4
<1>10. Tail(s \o t) = Tail(s) \o t
  <2>1. Len(Tail(s \o t)) = Len(Tail(s) \o t)
    BY <1>5, <1>7, <1>8
  <2> QED
    BY <1>7, <1>8, <1>9, <2>1, SeqEqual
<1>11. Head(s \o t) = Head(s)
  <2>1. Head(s \o t) = (s \o t)[1] /\ Head(s) = s[1]
    BY <1>3, <1>4
  <2> QED
    BY <1>4, <1>5, <2>1
<1> QED
  BY <1>6, <1>10, <1>11

LEMMA One ==
  ASSUME NEW s, NEW t, IsSteps(t)
  PROVE  <<s>> \o t # <<>> /\ Head(<<s>> \o t) = s /\ Tail(<<s>> \o t) = t /\ IsSteps(<<s>> \o t)
<1>1. PICK T : t \in Seq(T)
  BY DEF IsSteps
<1> DEFINE U == {s} \cup T
<1>2. <<s>> \in Seq(U) /\ t \in Seq(U)
  BY <1>1, SeqGrows
<1>3. <<s>> \o t \in Seq(U)
  BY <1>2, SeqJoin
<1>4. IsSteps(<<s>>) /\ IsSteps(<<s>> \o t)
  BY <1>2, <1>3 DEF IsSteps
<1>5. <<s>> # <<>> /\ Head(<<s>>) = s /\ Tail(<<s>>) = <<>>
  OBVIOUS
<1>6. <<>> \o t = t
  BY <1>1, ConcatEmptySeq
<1>7. <<s>> \o t # <<>> /\ Head(<<s>> \o t) = Head(<<s>>) /\ Tail(<<s>> \o t) = Tail(<<s>>) \o t
  BY <1>4, <1>5, InFront
<1> QED
  BY <1>4, <1>5, <1>6, <1>7

LEMMA StepsJoin ==
  ASSUME NEW s, NEW t, IsSteps(s), IsSteps(t)
  PROVE  IsSteps(s \o t)
<1>1. PICK S : s \in Seq(S)
  BY DEF IsSteps
<1>2. PICK T : t \in Seq(T)
  BY DEF IsSteps
<1>3. s \in Seq(S \cup T) /\ t \in Seq(S \cup T)
  BY <1>1, <1>2, SeqGrows
<1> QED
  BY <1>3, SeqJoin DEF IsSteps

Regrouped(r, s, t) == (r \o s) \o t = r \o (s \o t)

LEMMA Regroup ==
  ASSUME NEW r, NEW s, NEW t, IsSteps(r), IsSteps(s), IsSteps(t)
  PROVE  Regrouped(r, s, t)
<1>1. PICK R : r \in Seq(R)
  BY DEF IsSteps
<1>2. PICK S : s \in Seq(S)
  BY DEF IsSteps
<1>3. PICK T : t \in Seq(T)
  BY DEF IsSteps
<1> DEFINE U == R \cup S \cup T
<1>4. r \in Seq(U) /\ s \in Seq(U) /\ t \in Seq(U)
  BY <1>1, <1>2, <1>3, SeqGrows
<1> QED
  BY <1>4, ConcatAssociative DEF Regrouped

-----------------------------------------------------------------------------
(***************************************************************************)
(* What an apply has planned                                               *)
(***************************************************************************)

StepsAbout(action, do, paths) ==
  {[action |-> action, do |-> do, path |-> p, arg |-> ""] : p \in paths}

Names == DOMAIN doc.users \cup ownedUsers

\* The steps a plan is made of.
Top ==
  StepsAbout("users", "useradd", Names) \cup StepsAbout("users", "usermod", Names)
    \cup StepsAbout("users", "chpasswd", Names) \cup StepsAbout("users", "userdel", Names)
    \cup StepsAbout("home", "write-home", DOMAIN doc.home) \cup StepsAbout("home", "unlink", ownedHome)
    \cup StepsAbout("files", "write", DOMAIN Desired(doc)) \cup StepsAbout("files", "delete", ownedFiles)
    \cup StepsAbout("files", "reload", {""})
    \cup StepsAbout("swap", "append", {Fstab, Crypttab}) \cup StepsAbout("swap", "strip", {Fstab, Crypttab})
    \cup (IF doc.dracut THEN StepsAbout("initramfs", "compose", {Crypttab}) ELSE {})

\* What is true of documents, accounts and the manifest.
Base ==
  /\ \A d \in docs : DocumentOK(d)
  /\ DocumentOK(doc)
  /\ IsFiniteSet(DOMAIN accounts) /\ IsFiniteSet(ownedUsers)
  /\ ownedHome \subseteq HomePaths /\ ownedFiles \subseteq EtcPaths

\* A finite set in some order.
LEMMA InOrder ==
  ASSUME NEW S, IsFiniteSet(S)
  PROVE  Cardinality(S) \in Nat /\ \A i \in 1 .. Cardinality(S) : SetToSeq(S)[i] \in S
<1> DEFINE n == Cardinality(S)
<1>1. n \in Nat /\ ExistsBijection(1 .. n, S)
  BY FS_CardinalityType
<1>2. \E f \in [1 .. n -> S] : IsInjective(f)
  BY <1>1 DEF ExistsBijection, Bijection, Injection
<1>3. SetToSeq(S) \in [1 .. n -> S]
  BY <1>2 DEF SetToSeq
<1> QED
  BY <1>1, <1>3

LEMMA TopHas ==
  /\ StepsAbout("users", "useradd", Names) \subseteq Top /\ StepsAbout("users", "usermod", Names) \subseteq Top
  /\ StepsAbout("users", "chpasswd", Names) \subseteq Top /\ StepsAbout("users", "userdel", Names) \subseteq Top
  /\ StepsAbout("home", "write-home", DOMAIN doc.home) \subseteq Top
  /\ StepsAbout("home", "unlink", ownedHome) \subseteq Top
  /\ StepsAbout("files", "write", DOMAIN Desired(doc)) \subseteq Top
  /\ StepsAbout("files", "delete", ownedFiles) \subseteq Top
  /\ StepsAbout("files", "reload", {""}) \subseteq Top
  /\ StepsAbout("swap", "append", {Fstab, Crypttab}) \subseteq Top
  /\ StepsAbout("swap", "strip", {Fstab, Crypttab}) \subseteq Top
  /\ doc.dracut => StepsAbout("initramfs", "compose", {Crypttab}) \subseteq Top
BY Zenon DEF Top

LEMMA EachIs ==
  ASSUME NEW action, NEW do, NEW paths, IsFiniteSet(paths)
  PROVE  [i \in 1 .. Cardinality(paths) |->
            [action |-> action, do |-> do, path |-> SetToSeq(paths)[i], arg |-> ""]]
           \in Seq(StepsAbout(action, do, paths))
<1>1. Cardinality(paths) \in Nat /\ \A i \in 1 .. Cardinality(paths) : SetToSeq(paths)[i] \in paths
  BY InOrder
<1>2. \A i \in 1 .. Cardinality(paths) :
        [action |-> action, do |-> do, path |-> SetToSeq(paths)[i], arg |-> ""]
          \in StepsAbout(action, do, paths)
  BY <1>1 DEF StepsAbout
<1>3. [i \in 1 .. Cardinality(paths) |->
         [action |-> action, do |-> do, path |-> SetToSeq(paths)[i], arg |-> ""]]
        \in [1 .. Cardinality(paths) -> StepsAbout(action, do, paths)]
  BY <1>2
<1>4. PICK n, S, f :
        /\ n = Cardinality(paths) /\ S = StepsAbout(action, do, paths)
        /\ f = [i \in 1 .. Cardinality(paths) |->
                  [action |-> action, do |-> do, path |-> SetToSeq(paths)[i], arg |-> ""]]
  OBVIOUS
<1>5. n \in Nat /\ f \in [1 .. n -> S]
  BY <1>1, <1>3, <1>4
<1>6. f \in Seq(S)
  BY <1>5, SeqDef
<1> QED
  BY <1>4, <1>6

LEMMA PairsAre ==
  ASSUME NEW first, NEW second, NEW names, IsFiniteSet(names)
  PROVE  Pairs(first, second, names)
           \in Seq(StepsAbout("users", first, names) \cup StepsAbout("users", second, names))
<1> DEFINE n == Cardinality(names)
           S == StepsAbout("users", first, names) \cup StepsAbout("users", second, names)
<1>1. n \in Nat /\ \A i \in 1 .. n : SetToSeq(names)[i] \in names
  BY InOrder
<1>2. \A k \in 1 .. 2 * n : (k + 1) \div 2 \in 1 .. n
  BY <1>1
<1>3. \A k \in 1 .. 2 * n :
        UserStep(IF k % 2 = 1 THEN first ELSE second, SetToSeq(names)[(k + 1) \div 2]) \in S
  <2> SUFFICES ASSUME NEW k \in 1 .. 2 * n
               PROVE  UserStep(IF k % 2 = 1 THEN first ELSE second, SetToSeq(names)[(k + 1) \div 2]) \in S
    OBVIOUS
  <2>1. SetToSeq(names)[(k + 1) \div 2] \in names
    BY <1>1, <1>2
  <2> QED
    BY <2>1 DEF UserStep, StepsAbout
<1>4. 2 * n \in Nat
  BY <1>1
<1> QED
  BY <1>3, <1>4, SeqDef DEF Pairs

LEMMA WhenIs ==
  ASSUME NEW condition, NEW steps, NEW S, condition => steps \in Seq(S)
  PROVE  When(condition, steps) \in Seq(S)
BY EmptySeq DEF When

LEMMA OneStep ==
  ASSUME NEW S, NEW s \in S
  PROVE  <<s>> \in Seq(S)
OBVIOUS

LEMMA UsersPlanned ==
  ASSUME Base
  PROVE  UserSteps(PlanUsers(doc.users)) \in Seq(Top)
<1> DEFINE p == PlanUsers(doc.users)
<1>1. IsFiniteSet(DOMAIN doc.users) /\ IsFiniteSet(ownedUsers)
  BY DEF Base, DocumentOK
<1>2. /\ p.add \subseteq DOMAIN doc.users /\ p.change \subseteq DOMAIN doc.users
      /\ p.drop \subseteq ownedUsers
  BY DEF PlanUsers, DeclaredNonRoot
<1> HIDE DEF p
<1>3. /\ IsFiniteSet(p.add) /\ IsFiniteSet(p.change \ {RootName}) /\ IsFiniteSet(p.drop)
  BY <1>1, <1>2, FS_Subset
<1>4. /\ StepsAbout("users", "useradd", Names) \subseteq Top
      /\ StepsAbout("users", "usermod", Names) \subseteq Top
      /\ StepsAbout("users", "chpasswd", Names) \subseteq Top
      /\ StepsAbout("users", "userdel", Names) \subseteq Top
  BY TopHas
<1>5. \A do : \A names \in SUBSET Names : StepsAbout("users", do, names) \subseteq StepsAbout("users", do, Names)
  BY DEF StepsAbout
<1>6. p.add \subseteq Names /\ p.change \subseteq Names /\ p.drop \subseteq Names
  BY <1>2 DEF Names
<1>7. Pairs("useradd", "chpasswd", p.add) \in Seq(Top)
  <2>1. StepsAbout("users", "useradd", p.add) \cup StepsAbout("users", "chpasswd", p.add) \subseteq Top
    BY <1>4, <1>5, <1>6
  <2> QED
    BY <1>3, <2>1, PairsAre, SeqGrows
<1>8. Pairs("usermod", "chpasswd", p.change \ {RootName}) \in Seq(Top)
  <2>1. /\ StepsAbout("users", "usermod", p.change \ {RootName}) \subseteq StepsAbout("users", "usermod", Names)
        /\ StepsAbout("users", "chpasswd", p.change \ {RootName}) \subseteq StepsAbout("users", "chpasswd", Names)
    BY <1>6 DEF StepsAbout
  <2>2. StepsAbout("users", "usermod", p.change \ {RootName})
          \cup StepsAbout("users", "chpasswd", p.change \ {RootName}) \subseteq Top
    BY <1>4, <2>1
  <2> QED
    BY <1>3, <2>2, PairsAre, SeqGrows
<1>9. (IF RootName \in p.change THEN <<UserStep("chpasswd", RootName)>> ELSE <<>>) \in Seq(Top)
  <2>1. CASE RootName \in p.change
    <3>1. UserStep("chpasswd", RootName) \in Top
      BY <1>4, <1>6, <2>1 DEF UserStep, StepsAbout
    <3> QED
      BY <2>1, <3>1, OneStep
  <2> QED
    BY <2>1, EmptySeq
<1>10. [i \in 1 .. Cardinality(p.drop) |-> UserStep("userdel", SetToSeq(p.drop)[i])] \in Seq(Top)
  <2>1. StepsAbout("users", "userdel", p.drop) \subseteq Top
    BY <1>4, <1>5, <1>6
  <2>2. [i \in 1 .. Cardinality(p.drop) |->
           [action |-> "users", do |-> "userdel", path |-> SetToSeq(p.drop)[i], arg |-> ""]] \in Seq(Top)
    BY <1>3, <2>1, EachIs, SeqGrows
  <2> QED
    BY <2>2 DEF UserStep
<1>11. UserSteps(p) \in Seq(Top)
  BY <1>7, <1>8, <1>9, <1>10, SeqJoin DEF UserSteps
<1> QED
  BY <1>11 DEF p

LEMMA FilesPlanned ==
  ASSUME Base
  PROVE  HomeSteps(PlanHome(doc.home)) \in Seq(Top) /\ FileSteps(PlanFiles(doc)) \in Seq(Top)
<1> DEFINE h == PlanHome(doc.home)
           f == PlanFiles(doc)
<1>1. /\ h.add \cup h.change \subseteq DOMAIN doc.home /\ h.drop \subseteq ownedHome
      /\ f.add \cup f.change \subseteq DOMAIN Desired(doc) /\ f.drop \subseteq ownedFiles
  BY DEF PlanHome, PlanFiles
<1> HIDE DEF h, f
<1>2. /\ DOMAIN doc.home \subseteq HomePaths /\ ownedHome \subseteq HomePaths
      /\ DOMAIN Desired(doc) \subseteq EtcPaths /\ ownedFiles \subseteq EtcPaths
      /\ IsFiniteSet(HomePaths) /\ IsFiniteSet(EtcPaths)
  BY PathAssumption DEF Base, DocumentOK, Desired
<1>3. /\ IsFiniteSet(h.add) /\ IsFiniteSet(h.change) /\ IsFiniteSet(h.drop)
      /\ IsFiniteSet(f.add \cup f.change) /\ IsFiniteSet(f.drop)
  <2>1. h.add \subseteq HomePaths /\ h.change \subseteq HomePaths /\ h.drop \subseteq HomePaths
    BY <1>1, <1>2
  <2>2. f.add \cup f.change \subseteq EtcPaths /\ f.drop \subseteq EtcPaths
    BY <1>1, <1>2
  <2> QED
    BY <1>2, <2>1, <2>2, FS_Subset
<1>4. /\ StepsAbout("home", "write-home", h.add) \subseteq Top
      /\ StepsAbout("home", "write-home", h.change) \subseteq Top
      /\ StepsAbout("home", "unlink", h.drop) \subseteq Top
      /\ StepsAbout("files", "write", f.add \cup f.change) \subseteq Top
      /\ StepsAbout("files", "delete", f.drop) \subseteq Top
  <2>1. \A action, do : \A X, Y : X \subseteq Y => StepsAbout(action, do, X) \subseteq StepsAbout(action, do, Y)
    BY DEF StepsAbout
  <2>2. /\ StepsAbout("home", "write-home", h.add) \subseteq StepsAbout("home", "write-home", DOMAIN doc.home)
        /\ StepsAbout("home", "write-home", h.change) \subseteq StepsAbout("home", "write-home", DOMAIN doc.home)
        /\ StepsAbout("home", "unlink", h.drop) \subseteq StepsAbout("home", "unlink", ownedHome)
        /\ StepsAbout("files", "write", f.add \cup f.change) \subseteq StepsAbout("files", "write", DOMAIN Desired(doc))
        /\ StepsAbout("files", "delete", f.drop) \subseteq StepsAbout("files", "delete", ownedFiles)
    BY <1>1, <2>1
  <2>3. /\ StepsAbout("home", "write-home", DOMAIN doc.home) \subseteq Top
        /\ StepsAbout("home", "unlink", ownedHome) \subseteq Top
        /\ StepsAbout("files", "write", DOMAIN Desired(doc)) \subseteq Top
        /\ StepsAbout("files", "delete", ownedFiles) \subseteq Top
    BY TopHas
  <2> QED
    BY <2>2, <2>3
<1>5. HomeSteps(h) \in Seq(Top)
  <2>1. EachHome("write-home", h.add) \in Seq(Top)
    <3>1. IsFiniteSet(h.add) /\ StepsAbout("home", "write-home", h.add) \subseteq Top
      BY <1>3, <1>4
    <3> QED
      BY <3>1, EachIs, SeqGrows DEF EachHome
  <2>2. EachHome("unlink", h.drop) \in Seq(Top)
    <3>1. IsFiniteSet(h.drop) /\ StepsAbout("home", "unlink", h.drop) \subseteq Top
      BY <1>3, <1>4
    <3> QED
      BY <3>1, EachIs, SeqGrows DEF EachHome
  <2>3. EachHome("write-home", h.change) \in Seq(Top)
    <3>1. IsFiniteSet(h.change) /\ StepsAbout("home", "write-home", h.change) \subseteq Top
      BY <1>3, <1>4
    <3> QED
      BY <3>1, EachIs, SeqGrows DEF EachHome
  <2>4. EachHome("write-home", h.add) \o EachHome("unlink", h.drop) \in Seq(Top)
    BY <2>1, <2>2, SeqJoin
  <2>5. (EachHome("write-home", h.add) \o EachHome("unlink", h.drop))
           \o EachHome("write-home", h.change) \in Seq(Top)
    BY <2>3, <2>4, SeqJoin
  <2> QED
    BY <2>5 DEF HomeSteps
<1>6. EachPath("files", "write", f.add \cup f.change) \in Seq(Top)
  <2> DEFINE X == f.add \cup f.change
  <2>1. IsFiniteSet(X) /\ StepsAbout("files", "write", X) \subseteq Top
    BY <1>3, <1>4
  <2> HIDE DEF X
  <2>2. EachPath("files", "write", X) \in Seq(Top)
    BY <2>1, EachIs, SeqGrows DEF EachPath, EtcStep
  <2> QED
    BY <2>2 DEF X
<1>7. EachPath("files", "delete", f.drop) \in Seq(Top)
  <2>1. IsFiniteSet(f.drop) /\ StepsAbout("files", "delete", f.drop) \subseteq Top
    BY <1>3, <1>4
  <2> QED
    BY <2>1, EachIs, SeqGrows DEF EachPath, EtcStep
<1>8. <<EtcStep("files", "reload", "")>> \in Seq(Top)
  <2>1. EtcStep("files", "reload", "") \in Top
    BY TopHas DEF EtcStep, StepsAbout
  <2> QED
    BY <2>1, OneStep
<1>9. FileSteps(f) \in Seq(Top)
  <2>1. When((f.add \cup f.change \cup f.drop) \cap SystemdPaths # {}, <<EtcStep("files", "reload", "")>>) \in Seq(Top)
    BY <1>8, WhenIs
  <2> QED
    BY <1>6, <1>7, <2>1, SeqJoin DEF FileSteps
<1> QED
  BY <1>5, <1>9 DEF h, f

LEMMA SwapPlanned ==
  /\ SwapSteps(doc, PlanSwap(doc)) \in Seq(Top)
  /\ CrypttabSteps(PlanCrypttab(doc)) \in Seq(Top)
<1>1. /\ EtcStep("swap", "append", Fstab) \in Top /\ EtcStep("swap", "append", Crypttab) \in Top
      /\ EtcStep("swap", "strip", Fstab) \in Top /\ EtcStep("swap", "strip", Crypttab) \in Top
  <2>1. \A p \in {Fstab, Crypttab} : /\ EtcStep("swap", "append", p) \in StepsAbout("swap", "append", {Fstab, Crypttab})
                                   /\ EtcStep("swap", "strip", p) \in StepsAbout("swap", "strip", {Fstab, Crypttab})
    BY DEF EtcStep, StepsAbout
  <2> QED
    BY <2>1, TopHas
<1>2. /\ <<EtcStep("swap", "append", Fstab)>> \in Seq(Top) /\ <<EtcStep("swap", "append", Crypttab)>> \in Seq(Top)
      /\ <<EtcStep("swap", "strip", Fstab), EtcStep("swap", "strip", Crypttab)>> \in Seq(Top)
  BY <1>1
<1>3. SwapSteps(doc, PlanSwap(doc)) \in Seq(Top)
  <2> DEFINE p == PlanSwap(doc)
  <2>1. When(~doc.dracut, <<EtcStep("swap", "append", Crypttab)>>) \in Seq(Top)
    BY <1>2, WhenIs
  <2>2. <<EtcStep("swap", "append", Fstab)>> \o When(~doc.dracut, <<EtcStep("swap", "append", Crypttab)>>) \in Seq(Top)
    BY <1>2, <2>1, SeqJoin
  <2>3. /\ When(p.add # {}, <<EtcStep("swap", "append", Fstab)>>
                              \o When(~doc.dracut, <<EtcStep("swap", "append", Crypttab)>>)) \in Seq(Top)
        /\ When(p.drop # {}, <<EtcStep("swap", "strip", Fstab), EtcStep("swap", "strip", Crypttab)>>) \in Seq(Top)
    BY <1>2, <2>2, WhenIs
  <2> HIDE DEF p
  <2>4. SwapSteps(doc, p) \in Seq(Top)
    BY <2>3, SeqJoin DEF SwapSteps
  <2> QED
    BY <2>4 DEF p
<1>4. CrypttabSteps(PlanCrypttab(doc)) \in Seq(Top)
  <2> DEFINE change == PlanCrypttab(doc).change
  <2>1. change = {} \/ (doc.dracut /\ change = {Crypttab})
    BY DEF PlanCrypttab
  <2>2. IsFiniteSet(change)
    BY <2>1, FS_EmptySet, FS_Singleton
  <2>3. StepsAbout("initramfs", "compose", change) \subseteq Top
    <3>1. CASE change = {}
      BY <3>1 DEF StepsAbout
    <3> QED
      BY <2>1, <3>1, TopHas
  <2> HIDE DEF change
  <2>4. EachPath("initramfs", "compose", change) \in Seq(Top)
    BY <2>2, <2>3, EachIs, SeqGrows DEF EachPath, EtcStep
  <2> QED
    BY <2>4 DEF CrypttabSteps, change
<1> QED
  BY <1>3, <1>4

LEMMA AllPlanned ==
  ASSUME Base
  PROVE  StepsOf(doc, Planned(doc)) \in Seq(Top)
<1>1. /\ UserSteps(PlanUsers(doc.users)) \in Seq(Top)
      /\ HomeSteps(PlanHome(doc.home)) \in Seq(Top) /\ FileSteps(PlanFiles(doc)) \in Seq(Top)
      /\ SwapSteps(doc, PlanSwap(doc)) \in Seq(Top) /\ CrypttabSteps(PlanCrypttab(doc)) \in Seq(Top)
  BY UsersPlanned, FilesPlanned, SwapPlanned
<1> QED
  BY <1>1, SeqJoin DEF StepsOf, Planned

-----------------------------------------------------------------------------
(***************************************************************************)
(* Where an apply is in the calls of one write                             *)
(***************************************************************************)

CallOf(action, do, p, arg) == [action |-> action, do |-> do, path |-> p, arg |-> arg]
Is(t, s) == t # <<>> /\ Head(t) = s

LEMMA CallIs ==
  ASSUME NEW action, NEW do, NEW p, NEW arg, NEW s, s = CallOf(action, do, p, arg)
  PROVE  s.action = action /\ s.do = do /\ s.path = p /\ s.arg = arg
BY DEF CallOf

LEMMA CallNext ==
  ASSUME NEW action, NEW do, NEW p, NEW arg, NEW t, Is(t, CallOf(action, do, p, arg))
  PROVE  t # <<>> /\ Head(t).action = action /\ Head(t).do = do /\ Head(t).path = p /\ Head(t).arg = arg
BY CallIs DEF Is

Entry(a, p) == IF a = "home" THEN doc.home[p] ELSE doc.files[p]
DeclaredAt(a, p) ==
  \/ a = "home" /\ p \in DOMAIN doc.home
  \/ a = "files" /\ p \in DOMAIN Desired(doc)

\* The file is written; one in a home is still to be handed over.
AtEnd(t, a, p) ==
  IF a = "home" THEN Is(t, CallOf(a, "chown", p, UserOf(p))) /\ Tail(t) \in Seq(Top) ELSE t \in Seq(Top)
AtFill(t, a, p) == Is(t, CallOf(a, "fill", p, Entry(a, p).content)) /\ AtEnd(Tail(t), a, p)
AtMode(t, a, p) ==
  IF Entry(a, p).private THEN Is(t, CallOf(a, "chmod", p, "")) /\ AtFill(Tail(t), a, p) ELSE AtFill(t, a, p)
AtOpen(t, a, p) == Is(t, CallOf(a, "open", p, Entry(a, p).private)) /\ AtMode(Tail(t), a, p)
AtStart(t, a, p) ==
  IF IsLink(p) THEN Is(t, CallOf(a, "detach", p, "")) /\ AtOpen(Tail(t), a, p) ELSE AtOpen(t, a, p)

\* What each call relies on: the file that was opened is there and is no link, and what is
\* filled has its mode.
Writing(t, a, p) ==
  /\ DeclaredAt(a, p)
  /\ \/ AtStart(t, a, p)
     \/ AtMode(t, a, p) /\ Opened(p)
     \/ AtFill(t, a, p) /\ Opened(p) /\ (Entry(a, p).private => tree[p].private)
     \/ AtEnd(t, a, p) /\ Opened(p)

MkdirCalls == {CallOf("home", "mkdir", d, "") : d \in HomeDirs}
ChownCalls(p) == {CallOf("home", "chown", d, UserOf(p)) : d \in HomeDirs}

\* Before that, directories are made, m, and handed over, c: each is root's until then.
Making(t, p, m, c, w) ==
  /\ p \in DOMAIN doc.home /\ m \in Seq(MkdirCalls) /\ c \in Seq(ChownCalls(p)) /\ IsSteps(w)
  /\ t = m \o (c \o w) /\ AtStart(w, "home", p)
  /\ \A i, j \in DOMAIN c : c[i].path = c[j].path => i = j
  /\ \A i \in DOMAIN c :
       \/ c[i].path \in DOMAIN tree /\ tree[c[i].path] = Dir(Root)
       \/ c[i].path \notin DOMAIN tree /\ \E j \in DOMAIN m : m[j].path = c[i].path

Doing(t) ==
  \/ t \in Seq(Top)
  \/ \E a, p : Writing(t, a, p)
  \/ \E p, m, c, w : Making(t, p, m, c, w)

Inner == {"mkdir", "chown", "detach", "open", "chmod", "fill"}

LEMMA TopKinds ==
  ASSUME NEW s \in Top
  PROVE  /\ s.do \notin Inner
         /\ s.do = "unlink" => s.path \in ownedHome
         /\ s.do = "delete" => s.path \in ownedFiles
         /\ s.do \in {"append", "strip"} => s.path \in {Fstab, Crypttab}
         /\ s.do = "compose" => doc.dracut
         /\ s.do = "write-home" => s.action = "home" /\ s.path \in DOMAIN doc.home
         /\ s.do = "write" => s.action = "files" /\ s.path \in DOMAIN Desired(doc)
<1>1. ASSUME NEW action, NEW do, NEW paths, s \in StepsAbout(action, do, paths)
      PROVE  s.action = action /\ s.do = do /\ s.path \in paths
  <2>1. PICK p \in paths : s = [action |-> action, do |-> do, path |-> p, arg |-> ""]
    BY <1>1, Zenon DEF StepsAbout
  <2> QED
    BY <2>1
<1>2. CASE \/ s \in StepsAbout("users", "useradd", Names) \/ s \in StepsAbout("users", "usermod", Names)
           \/ s \in StepsAbout("users", "chpasswd", Names) \/ s \in StepsAbout("users", "userdel", Names)
  <2>1. s.do \in {"useradd", "usermod", "chpasswd", "userdel"}
    BY <1>1, <1>2
  <2> QED
    BY <2>1 DEF Inner
<1>3. CASE s \in StepsAbout("home", "write-home", DOMAIN doc.home)
  <2>1. s.action = "home" /\ s.do = "write-home" /\ s.path \in DOMAIN doc.home
    BY <1>1, <1>3
  <2> QED
    BY <2>1 DEF Inner
<1>4. CASE s \in StepsAbout("home", "unlink", ownedHome)
  <2>1. s.do = "unlink" /\ s.path \in ownedHome
    BY <1>1, <1>4
  <2> QED
    BY <2>1 DEF Inner
<1>5. CASE s \in StepsAbout("files", "write", DOMAIN Desired(doc))
  <2>1. s.action = "files" /\ s.do = "write" /\ s.path \in DOMAIN Desired(doc)
    BY <1>1, <1>5
  <2> QED
    BY <2>1 DEF Inner
<1>6. CASE s \in StepsAbout("files", "delete", ownedFiles)
  <2>1. s.do = "delete" /\ s.path \in ownedFiles
    BY <1>1, <1>6
  <2> QED
    BY <2>1 DEF Inner
<1>7. CASE s \in StepsAbout("files", "reload", {""})
  <2>1. s.do = "reload"
    BY <1>1, <1>7
  <2> QED
    BY <2>1 DEF Inner
<1>8. CASE \/ s \in StepsAbout("swap", "append", {Fstab, Crypttab})
           \/ s \in StepsAbout("swap", "strip", {Fstab, Crypttab})
  <2>1. s.do \in {"append", "strip"} /\ s.path \in {Fstab, Crypttab}
    BY <1>1, <1>8
  <2> QED
    BY <2>1 DEF Inner
<1>9. CASE doc.dracut /\ s \in StepsAbout("initramfs", "compose", {Crypttab})
  <2>1. s.do = "compose" /\ doc.dracut
    BY <1>1, <1>9
  <2> QED
    BY <2>1 DEF Inner
<1> QED
  BY <1>2, <1>3, <1>4, <1>5, <1>6, <1>7, <1>8, <1>9, Zenon DEF Top

LEMMA WritingHead ==
  ASSUME NEW t, NEW a, NEW p, Writing(t, a, p)
  PROVE  \/ t \in Seq(Top)
         \/ t # <<>> /\ Head(t).do \in Inner /\ Head(t).action # "users"
<1>0. a \in {"home", "files"}
  BY DEF Writing, DeclaredAt
<1>1. \A do \in Inner : \A arg :
        Is(t, CallOf(a, do, p, arg)) => t # <<>> /\ Head(t).do \in Inner /\ Head(t).action # "users"
  BY <1>0 DEF Is, CallOf
<1>2. AtEnd(t, a, p) => t \in Seq(Top) \/ \E do \in Inner : \E arg : Is(t, CallOf(a, do, p, arg))
  BY Zenon DEF AtEnd, Inner
<1>3. AtFill(t, a, p) => \E do \in Inner : \E arg : Is(t, CallOf(a, do, p, arg))
  BY Zenon DEF AtFill, Inner
<1>4. AtMode(t, a, p) => \E do \in Inner : \E arg : Is(t, CallOf(a, do, p, arg))
  BY <1>3, Zenon DEF AtMode, Inner
<1>5. AtOpen(t, a, p) => \E do \in Inner : \E arg : Is(t, CallOf(a, do, p, arg))
  BY Zenon DEF AtOpen, Inner
<1>6. AtStart(t, a, p) => \E do \in Inner : \E arg : Is(t, CallOf(a, do, p, arg))
  BY <1>5, Zenon DEF AtStart, Inner
<1> QED
  BY <1>1, <1>2, <1>3, <1>4, <1>6 DEF Writing

\* The next call, and the rest.
NextOf(t, m, c, w) ==
  /\ m # <<>> => t # <<>> /\ Head(t) = Head(m) /\ Tail(t) = Tail(m) \o (c \o w)
  /\ m = <<>> /\ c # <<>> => t # <<>> /\ Head(t) = Head(c) /\ Tail(t) = <<>> \o (Tail(c) \o w)
  /\ m = <<>> /\ c = <<>> => t = w

LEMMA MakingHead ==
  ASSUME NEW t, NEW p, NEW m, NEW c, NEW w, Making(t, p, m, c, w)
  PROVE  NextOf(t, m, c, w)
<1>1. IsSteps(m) /\ IsSteps(c) /\ IsSteps(w) /\ t = m \o (c \o w)
  BY DEF Making, IsSteps
<1>2. IsSteps(c \o w)
  BY <1>1, StepsJoin
<1>3. CASE m # <<>>
  BY <1>1, <1>2, <1>3, InFront DEF NextOf
<1>4. CASE m = <<>>
  <2>1. t = c \o w
    <3>1. PICK S : c \o w \in Seq(S)
      BY <1>2 DEF IsSteps
    <3> QED
      BY <1>1, <1>4, <3>1, ConcatEmptySeq
  <2>2. CASE c # <<>>
    <3>1. t # <<>> /\ Head(t) = Head(c) /\ Tail(t) = Tail(c) \o w
      BY <1>1, <2>1, <2>2, InFront
    <3>2. IsSteps(Tail(c))
      <4>1. Tail(c) \in Seq(ChownCalls(p))
        BY <2>2, SeqHead DEF Making
      <4> QED
        BY <4>1 DEF IsSteps
    <3>3. IsSteps(Tail(c) \o w)
      BY <1>1, <3>2, StepsJoin
    <3>4. PICK S : Tail(c) \o w \in Seq(S)
      BY <3>3 DEF IsSteps
    <3>5. Tail(c) \o w = <<>> \o (Tail(c) \o w)
      BY <3>4, ConcatEmptySeq
    <3> QED
      BY <1>4, <2>2, <3>1, <3>5 DEF NextOf
  <2>3. CASE c = <<>>
    <3>1. PICK S : w \in Seq(S)
      BY <1>1 DEF IsSteps
    <3> QED
      BY <1>4, <2>1, <2>3, <3>1, ConcatEmptySeq DEF NextOf
  <2> QED
    BY <1>4, <2>2, <2>3
<1> QED
  BY <1>3, <1>4 DEF NextOf

NextDoes(t, p, m, c) ==
  /\ m # <<>> => t # <<>> /\ Head(t).do = "mkdir" /\ Head(t).path \in HomeDirs /\ Head(t).action # "users"
  /\ m = <<>> /\ c # <<>> =>
       t # <<>> /\ Head(t).do = "chown" /\ Head(t).path \in HomeDirs /\ Head(t).action # "users"
  /\ m = <<>> /\ c = <<>> => Writing(t, "home", p)

LEMMA MakingDoes ==
  ASSUME NEW t, NEW p, NEW m, NEW c, NEW w, Making(t, p, m, c, w)
  PROVE  NextDoes(t, p, m, c)
<1>0. NextOf(t, m, c, w)
  BY MakingHead
<1>1. m # <<>> => Head(m) \in MkdirCalls
  BY SeqHead DEF Making
<1>2. c # <<>> => Head(c) \in ChownCalls(p)
  BY SeqHead DEF Making
<1>3. m = <<>> /\ c = <<>> => Writing(t, "home", p)
  BY <1>0 DEF NextOf, Making, Writing, DeclaredAt
<1>4. CASE m # <<>>
  <2>1. t # <<>> /\ Head(t) = Head(m)
    BY <1>0, <1>4 DEF NextOf
  <2>2. Head(m).do = "mkdir" /\ Head(m).path \in HomeDirs /\ Head(m).action = "home"
    <3>1. PICK d, arg : d \in HomeDirs /\ Head(m) = CallOf("home", "mkdir", d, arg)
      BY <1>1, <1>4, Zenon DEF MkdirCalls
    <3> QED
      BY <3>1, CallIs
  <2> QED
    BY <1>4, <2>1, <2>2 DEF NextDoes
<1>5. CASE m = <<>> /\ c # <<>>
  <2>1. t # <<>> /\ Head(t) = Head(c)
    BY <1>0, <1>5 DEF NextOf
  <2>2. Head(c).do = "chown" /\ Head(c).path \in HomeDirs /\ Head(c).action = "home"
    <3>1. PICK d \in HomeDirs : Head(c) = CallOf("home", "chown", d, UserOf(p))
      BY <1>2, <1>5, Zenon DEF ChownCalls
    <3> QED
      BY <3>1, CallIs
  <2> QED
    BY <1>5, <2>1, <2>2 DEF NextDoes
<1> QED
  BY <1>3, <1>4, <1>5 DEF NextDoes

\* A step of the plan is only next when no write is under way.
LEMMA DoingTop ==
  ASSUME NEW t, Doing(t), t # <<>> => Head(t).do \notin Inner \/ Head(t).action = "users"
  PROVE  t \in Seq(Top)
<1>1. ASSUME NEW a, NEW p, Writing(t, a, p)
      PROVE  t \in Seq(Top)
  BY <1>1, WritingHead
<1>2. ASSUME NEW p, NEW m, NEW c, NEW w, Making(t, p, m, c, w)
      PROVE  t \in Seq(Top)
  <2>1. CASE m = <<>> /\ c = <<>>
    BY <1>1, <1>2, <2>1, MakingDoes DEF NextDoes
  <2>2. CASE m # <<>> \/ c # <<>>
    BY <1>2, <2>2, MakingDoes DEF NextDoes, Inner
  <2> QED
    BY <2>1, <2>2
<1> QED
  BY <1>1, <1>2 DEF Doing

\* The next call of a write.
LEMMA DoingInner ==
  ASSUME NEW t, Doing(t), t # <<>>, Head(t).do \in Inner
  PROVE  \/ \E a, p : Writing(t, a, p)
         \/ \E p, m, c, w : Making(t, p, m, c, w) /\ (m # <<>> \/ c # <<>>)
<1>1. t \notin Seq(Top)
  BY SeqHead, TopKinds
<1> QED
  BY <1>1, MakingDoes DEF NextDoes, Doing


-----------------------------------------------------------------------------
(***************************************************************************)
(* The calls a write is made of                                            *)
(***************************************************************************)

\* Calls as the action makes them.
Under(a, calls) == [i \in DOMAIN calls |-> [calls[i] EXCEPT !.action = a]]

LEMMA UnderSteps ==
  ASSUME NEW a, NEW s, IsSteps(s)
  PROVE  /\ IsSteps(Under(a, s)) /\ Len(Under(a, s)) = Len(s)
         /\ \A i \in 1 .. Len(s) : Under(a, s)[i] = [s[i] EXCEPT !.action = a]
<1>1. PICK S : s \in Seq(S)
  BY DEF IsSteps
<1>2. Len(s) \in Nat /\ DOMAIN s = 1 .. Len(s)
  BY <1>1, LenProperties
<1> DEFINE T == {[s[i] EXCEPT !.action = a] : i \in 1 .. Len(s)}
<1>3. Under(a, s) \in [1 .. Len(s) -> T]
  BY <1>2 DEF Under
<1>4. Under(a, s) \in Seq(T)
  BY <1>2, <1>3, SeqDef
<1>5. DOMAIN Under(a, s) = 1 .. Len(s)
  BY <1>2 DEF Under
<1>6. Len(Under(a, s)) = Len(s)
  BY <1>2, <1>4, <1>5, LenProperties
<1> QED
  BY <1>2, <1>4, <1>6 DEF IsSteps, Under

LEMMA UnderJoin ==
  ASSUME NEW a, NEW s, NEW t, IsSteps(s), IsSteps(t)
  PROVE  Under(a, s \o t) = Under(a, s) \o Under(a, t)
<1>1. PICK S : s \in Seq(S)
  BY DEF IsSteps
<1>2. PICK T : t \in Seq(T)
  BY DEF IsSteps
<1> DEFINE U == S \cup T
<1>3. s \in Seq(U) /\ t \in Seq(U)
  BY <1>1, <1>2, SeqGrows
<1> HIDE DEF U
<1>4. /\ Len(s \o t) = Len(s) + Len(t) /\ Len(s) \in Nat /\ Len(t) \in Nat
      /\ \A i \in 1 .. Len(s) + Len(t) : (s \o t)[i] = IF i <= Len(s) THEN s[i] ELSE t[i - Len(s)]
  BY <1>3, ConcatProperties, LenProperties
<1>5. IsSteps(s \o t)
  BY StepsJoin
<1> DEFINE us == Under(a, s)
           ut == Under(a, t)
           ust == Under(a, s \o t)
<1>6. /\ IsSteps(us) /\ Len(us) = Len(s)
      /\ \A i \in 1 .. Len(s) : us[i] = [s[i] EXCEPT !.action = a]
  BY UnderSteps
<1>7. /\ IsSteps(ut) /\ Len(ut) = Len(t)
      /\ \A i \in 1 .. Len(t) : ut[i] = [t[i] EXCEPT !.action = a]
  BY UnderSteps
<1>8. /\ IsSteps(ust) /\ Len(ust) = Len(s) + Len(t)
      /\ \A i \in 1 .. Len(s) + Len(t) : ust[i] = [(s \o t)[i] EXCEPT !.action = a]
  BY <1>4, <1>5, UnderSteps
<1> HIDE DEF us, ut, ust
<1>9. PICK A : us \in Seq(A)
  BY <1>6 DEF IsSteps
<1>10. PICK B : ut \in Seq(B)
  BY <1>7 DEF IsSteps
<1>11. PICK C : ust \in Seq(C)
  BY <1>8 DEF IsSteps
<1>12. us \in Seq(A \cup B) /\ ut \in Seq(A \cup B)
  BY <1>9, <1>10, SeqGrows
<1>13. /\ us \o ut \in Seq(A \cup B) /\ Len(us \o ut) = Len(s) + Len(t)
       /\ \A i \in 1 .. Len(s) + Len(t) : (us \o ut)[i] = IF i <= Len(s) THEN us[i] ELSE ut[i - Len(s)]
  <2>1. /\ us \o ut \in Seq(A \cup B) /\ Len(us \o ut) = Len(us) + Len(ut)
        /\ \A i \in 1 .. Len(us) + Len(ut) : (us \o ut)[i] = IF i <= Len(us) THEN us[i] ELSE ut[i - Len(us)]
    BY <1>12, ConcatProperties
  <2>2. Len(us) = Len(s) /\ Len(ut) = Len(t)
    BY <1>6, <1>7
  <2> QED
    BY <2>1, <2>2
<1>14. \A i \in 1 .. Len(s) + Len(t) : ust[i] = (us \o ut)[i]
  <2> SUFFICES ASSUME NEW i \in 1 .. Len(s) + Len(t)
               PROVE  ust[i] = (us \o ut)[i]
    OBVIOUS
  <2>1. CASE i <= Len(s)
    <3>1. i \in 1 .. Len(s)
      BY <1>4, <2>1
    <3>2. (s \o t)[i] = s[i] /\ (us \o ut)[i] = us[i]
      BY <1>4, <1>13, <2>1
    <3>3. ust[i] = [(s \o t)[i] EXCEPT !.action = a] /\ us[i] = [s[i] EXCEPT !.action = a]
      BY <1>6, <1>8, <3>1
    <3> QED
      BY <3>2, <3>3, Zenon
  <2>2. CASE ~(i <= Len(s))
    <3>1. i - Len(s) \in 1 .. Len(t)
      BY <1>4, <2>2
    <3>2. (s \o t)[i] = t[i - Len(s)] /\ (us \o ut)[i] = ut[i - Len(s)]
      BY <1>4, <1>13, <2>2
    <3>3. ust[i] = [(s \o t)[i] EXCEPT !.action = a] /\ ut[i - Len(s)] = [t[i - Len(s)] EXCEPT !.action = a]
      BY <1>7, <1>8, <3>1
    <3> QED
      BY <3>2, <3>3, Zenon
  <2> QED
    BY <2>1, <2>2
<1>15. ust = us \o ut
  <2>1. Len(ust) = Len(s) + Len(t) /\ Len(us \o ut) = Len(s) + Len(t)
    BY <1>8, <1>13
  <2>2. us \o ut \in Seq(A \cup B)
    BY <1>13
  <2>3. Len(ust) = Len(us \o ut) /\ \A i \in 1 .. Len(ust) : ust[i] = (us \o ut)[i]
    BY <1>14, <2>1, Zenon
  <2>4. PICK z : z = us \o ut
    OBVIOUS
  <2>5. z \in Seq(A \cup B) /\ Len(ust) = Len(z) /\ \A i \in 1 .. Len(ust) : ust[i] = z[i]
    BY <2>2, <2>3, <2>4
  <2>6. ust = z
    BY <1>11, <2>5, SeqEqual
  <2> QED
    BY <2>4, <2>6
<1> QED
  BY <1>15 DEF us, ut, ust

LEMMA UnderOne ==
  ASSUME NEW a, NEW do, NEW p, NEW arg
  PROVE  Under(a, <<Call(do, p, arg)>>) = <<CallOf(a, do, p, arg)>>
<1>1. [Call(do, p, arg) EXCEPT !.action = a] = CallOf(a, do, p, arg)
  <2>1. \A x : [CallOf(x, do, p, arg) EXCEPT !.action = a] = CallOf(a, do, p, arg)
    BY DEF CallOf
  <2>2. Call(do, p, arg) = CallOf("", do, p, arg)
    BY Zenon DEF Call, CallOf
  <2> QED
    BY <2>1, <2>2, Zenon
<1>2. Under(a, <<Call(do, p, arg)>>) = [i \in 1 .. 1 |-> [<<Call(do, p, arg)>>[i] EXCEPT !.action = a]]
  BY DEF Under
<1>3. \A i \in 1 .. 1 : <<Call(do, p, arg)>>[i] = Call(do, p, arg)
  OBVIOUS
<1> QED
  BY <1>1, <1>2, <1>3

LEMMA UnderNone ==
  ASSUME NEW a
  PROVE  Under(a, <<>>) = <<>>
BY DEF Under

LEMMA StepsOne ==
  ASSUME NEW s
  PROVE  IsSteps(<<s>>) /\ IsSteps(<<>>)
<1>1. <<s>> \in Seq({s}) /\ <<>> \in Seq({s})
  OBVIOUS
<1> QED
  BY <1>1 DEF IsSteps

\* A call that is only made when it is needed.
Perhaps(a, b, do, p, arg, t) ==
  /\ b => Under(a, When(b, <<Call(do, p, arg)>>)) \o t = <<CallOf(a, do, p, arg)>> \o t
  /\ ~b => Under(a, When(b, <<Call(do, p, arg)>>)) \o t = t

LEMMA UnderWhen ==
  ASSUME NEW a, NEW b, NEW do, NEW p, NEW arg, NEW t, IsSteps(t)
  PROVE  Perhaps(a, b, do, p, arg, t)
<1>1. PICK T : t \in Seq(T)
  BY DEF IsSteps
<1>2. <<>> \o t = t
  BY <1>1, ConcatEmptySeq
<1> QED
  BY <1>2, UnderOne, UnderNone DEF When, Perhaps

LEMMA StepsWhen ==
  ASSUME NEW b, NEW s
  PROVE  IsSteps(When(b, <<s>>))
BY StepsOne DEF When

Lined(r1, r2, r3, r4, t) == (((r1 \o r2) \o r3) \o r4) \o t = r1 \o (r2 \o (r3 \o (r4 \o t)))

LEMMA FourInFront ==
  ASSUME NEW r1, NEW r2, NEW r3, NEW r4, NEW t,
         IsSteps(r1), IsSteps(r2), IsSteps(r3), IsSteps(r4), IsSteps(t)
  PROVE  Lined(r1, r2, r3, r4, t)
<1>1. IsSteps(r1 \o r2) /\ IsSteps(r4 \o t)
  BY StepsJoin
<1>2. IsSteps((r1 \o r2) \o r3) /\ IsSteps(r3 \o (r4 \o t))
  BY <1>1, StepsJoin
<1>3. /\ Regrouped((r1 \o r2) \o r3, r4, t) /\ Regrouped(r1 \o r2, r3, r4 \o t)
      /\ Regrouped(r1, r2, r3 \o (r4 \o t))
  BY <1>1, <1>2, Regroup
<1> QED
  BY <1>3 DEF Regrouped, Lined

UnderEach(a, s1, s2, s3, s4) ==
  /\ IsSteps(((s1 \o s2) \o s3) \o s4)
  /\ Under(a, ((s1 \o s2) \o s3) \o s4) = ((Under(a, s1) \o Under(a, s2)) \o Under(a, s3)) \o Under(a, s4)

LEMMA UnderFour ==
  ASSUME NEW a, NEW s1, NEW s2, NEW s3, NEW s4, IsSteps(s1), IsSteps(s2), IsSteps(s3), IsSteps(s4)
  PROVE  UnderEach(a, s1, s2, s3, s4)
<1>1. IsSteps(s1 \o s2)
  BY StepsJoin
<1>2. IsSteps((s1 \o s2) \o s3)
  BY <1>1, StepsJoin
<1>3. IsSteps(((s1 \o s2) \o s3) \o s4)
  BY <1>2, StepsJoin
<1>4. Under(a, s1 \o s2) = Under(a, s1) \o Under(a, s2)
  BY UnderJoin
<1>5. Under(a, (s1 \o s2) \o s3) = Under(a, s1 \o s2) \o Under(a, s3)
  BY <1>1, UnderJoin
<1>6. Under(a, ((s1 \o s2) \o s3) \o s4) = Under(a, (s1 \o s2) \o s3) \o Under(a, s4)
  BY <1>2, UnderJoin
<1> QED
  BY <1>3, <1>4, <1>5, <1>6, Zenon DEF UnderEach

LEMMA FrontOf ==
  ASSUME NEW s, NEW t, IsSteps(t)
  PROVE  Is(<<s>> \o t, s) /\ Tail(<<s>> \o t) = t /\ IsSteps(<<s>> \o t)
BY One DEF Is

\* The calls of one write, in front of what is to be done after it.
LEMMA WriteStarts ==
  ASSUME NEW a, NEW p, NEW t, IsSteps(t), AtEnd(t, a, p)
  PROVE  /\ IsSteps(WriteCalls(p, Entry(a, p)))
         /\ AtStart(Under(a, WriteCalls(p, Entry(a, p))) \o t, a, p)
         /\ IsSteps(Under(a, WriteCalls(p, Entry(a, p))) \o t)
<1> DEFINE e == Entry(a, p)
           s1 == When(IsLink(p), <<Call("detach", p, "")>>)
           s2 == <<Call("open", p, e.private)>>
           s3 == When(e.private, <<Call("chmod", p, "")>>)
           s4 == <<Call("fill", p, e.content)>>
           t4 == Under(a, s4) \o t
           t3 == Under(a, s3) \o t4
           t2 == Under(a, s2) \o t3
           t1 == Under(a, s1) \o t2
<1>1. WriteCalls(p, Entry(a, p)) = ((s1 \o s2) \o s3) \o s4
  BY DEF WriteCalls
<1>2. IsSteps(s1) /\ IsSteps(s2) /\ IsSteps(s3) /\ IsSteps(s4)
  BY StepsWhen, StepsOne
<1>3. t4 = <<CallOf(a, "fill", p, e.content)>> \o t
  BY UnderOne, Zenon
<1>4. IsSteps(t4) /\ AtFill(t4, a, p)
  BY <1>3, FrontOf DEF AtFill
<1> HIDE DEF t4
<1>5. Perhaps(a, e.private, "chmod", p, "", t4)
  BY <1>4, UnderWhen
<1>6. IsSteps(t3) /\ AtMode(t3, a, p)
  <2>1. CASE e.private
    <3>1. t3 = <<CallOf(a, "chmod", p, "")>> \o t4
      BY <1>5, <2>1, Zenon DEF Perhaps
    <3>2. Is(t3, CallOf(a, "chmod", p, "")) /\ Tail(t3) = t4 /\ IsSteps(t3)
      BY <1>4, <3>1, FrontOf, Zenon
    <3> QED
      BY <1>4, <2>1, <3>2, Zenon DEF AtMode
  <2>2. CASE ~e.private
    BY <1>4, <1>5, <2>2, Zenon DEF Perhaps, AtMode
  <2> QED
    BY <2>1, <2>2
<1> HIDE DEF t3
<1>7. t2 = <<CallOf(a, "open", p, e.private)>> \o t3
  BY UnderOne, Zenon
<1>8. IsSteps(t2) /\ AtOpen(t2, a, p)
  BY <1>6, <1>7, FrontOf DEF AtOpen
<1> HIDE DEF t2
<1>9. Perhaps(a, IsLink(p), "detach", p, "", t2)
  BY <1>8, UnderWhen
<1>10. IsSteps(t1) /\ AtStart(t1, a, p)
  <2>1. CASE IsLink(p)
    <3>1. t1 = <<CallOf(a, "detach", p, "")>> \o t2
      BY <1>9, <2>1, Zenon DEF Perhaps
    <3>2. Is(t1, CallOf(a, "detach", p, "")) /\ Tail(t1) = t2 /\ IsSteps(t1)
      BY <1>8, <3>1, FrontOf, Zenon
    <3> QED
      BY <1>8, <2>1, <3>2, Zenon DEF AtStart
  <2>2. CASE ~IsLink(p)
    BY <1>8, <1>9, <2>2, Zenon DEF Perhaps, AtStart
  <2> QED
    BY <2>1, <2>2
<1> HIDE DEF e, s1, s2, s3, s4
<1>11. UnderEach(a, s1, s2, s3, s4)
  BY <1>2, UnderFour
<1>12. IsSteps(Under(a, s1)) /\ IsSteps(Under(a, s2)) /\ IsSteps(Under(a, s3)) /\ IsSteps(Under(a, s4))
  BY <1>2, UnderSteps
<1>13. Lined(Under(a, s1), Under(a, s2), Under(a, s3), Under(a, s4), t)
  BY <1>12, FourInFront
<1>14. Under(a, ((s1 \o s2) \o s3) \o s4) \o t = t1
  BY <1>11, <1>13, Zenon DEF UnderEach, Lined, t4, t3, t2
<1> QED
  BY <1>1, <1>10, <1>11, <1>14, Zenon DEF e, UnderEach

-----------------------------------------------------------------------------
(***************************************************************************)
(* The directories that are made                                           *)
(***************************************************************************)

LEMMA Missing ==
  ASSUME NEW p \in HomePaths, ~CannotWriteHome(p)
  PROVE  /\ MissingAbove(p) \in Seq(HomeDirs)
         /\ \A i, j \in 1 .. Len(MissingAbove(p)) : MissingAbove(p)[i] = MissingAbove(p)[j] => i = j
         /\ \A i \in 1 .. Len(MissingAbove(p)) : MissingAbove(p)[i] \notin DOMAIN tree
<1> DEFINE above == Ancestors(p)
           n == Len(above)
           absent == {i \in DOMAIN above : \A j \in i .. Len(above) : ~Exists(above[j])}
           from == n - Cardinality(absent) + 1
           m == MissingAbove(p)
<1>1. above \in Seq(HomeDirs) /\ IsInjective(above)
  <2>1. above \in Seq(HomeDirs \ {Fstab, Crypttab}) /\ IsInjective(above)
    BY PathAssumption
  <2> QED
    BY <2>1, SeqGrows
<1>2. n \in Nat /\ DOMAIN above = 1 .. n /\ \A i \in 1 .. n : above[i] \in HomeDirs
  BY <1>1, LenProperties
<1>3. m = SubSeq(above, from, n)
  BY DEF MissingAbove
<1> HIDE DEF above, m
<1>4. IsFiniteSet(1 .. n) /\ Cardinality(1 .. n) = n
  <2>1. PICK last \in Nat : last = n
    BY <1>2
  <2>2. /\ IsFiniteSet(1 .. last)
        /\ Cardinality(1 .. last) = IF 1 > last THEN 0 ELSE last - 1 + 1
    BY FS_Interval
  <2> QED
    BY <2>1, <2>2
<1>5. /\ IsFiniteSet(absent) /\ Cardinality(absent) \in Nat /\ Cardinality(absent) <= n
  <2>1. absent \in SUBSET (1 .. n)
    BY <1>2
  <2> HIDE DEF absent
  <2>2. IsFiniteSet(absent) /\ Cardinality(absent) <= n
    BY <1>4, <2>1, FS_Subset
  <2> QED
    BY <2>2, FS_CardinalityType
<1>6. from \in Int /\ from >= 1 /\ n - from + 1 = Cardinality(absent)
  BY <1>2, <1>5
<1>7. \A i \in from .. n : i \in absent
  <2> SUFFICES ASSUME NEW i \in from .. n, i \notin absent
               PROVE  FALSE
    OBVIOUS
  <2>1. i \in 1 .. n
    BY <1>2, <1>6
  <2>2. PICK j \in i .. n : Exists(above[j])
    BY <1>2, <2>1
  <2>3. absent \in SUBSET (i + 1 .. n)
    BY <1>2, <2>1, <2>2
  <2>4. IsFiniteSet(i + 1 .. n) /\ Cardinality(i + 1 .. n) = n - i
    <3>1. PICK k : k = i + 1
      OBVIOUS
    <3>2. k \in Int /\ n \in Int
      BY <1>2, <2>1, <3>1
    <3>3. IsFiniteSet(k .. n) /\ Cardinality(k .. n) = IF k > n THEN 0 ELSE n - k + 1
      BY <3>2, FS_Interval
    <3> QED
      BY <1>2, <2>1, <3>1, <3>3
  <2> HIDE DEF absent
  <2>5. Cardinality(absent) <= n - i
    <3>1. Cardinality(absent) <= Cardinality(i + 1 .. n)
      BY <2>3, <2>4, FS_Subset
    <3> QED
      BY <2>4, <3>1
  <2> QED
    BY <1>2, <1>5, <2>1, <2>5
<1>8. \A i \in from .. n : above[i] \in HomeDirs /\ ~Exists(above[i])
  <2> SUFFICES ASSUME NEW i \in from .. n
               PROVE  above[i] \in HomeDirs /\ ~Exists(above[i])
    OBVIOUS
  <2>1. i \in 1 .. n /\ i \in absent
    BY <1>2, <1>6, <1>7
  <2>2. i \in i .. Len(above)
    BY <2>1, <1>2
  <2> QED
    BY <1>2, <2>1, <2>2
<1> HIDE DEF from, absent
<1>9. /\ m \in Seq(HomeDirs) /\ Len(m) = (IF from <= n THEN n - from + 1 ELSE 0)
      /\ \A i \in 1 .. n - from + 1 : m[i] = above[from + i - 1]
  BY <1>2, <1>3, <1>6, <1>8, SubSeqProperties
<1>10. \A i \in 1 .. Len(m) : m[i] = above[from + i - 1] /\ from + i - 1 \in from .. n
  <2> SUFFICES ASSUME NEW i \in 1 .. Len(m)
               PROVE  m[i] = above[from + i - 1] /\ from + i - 1 \in from .. n
    OBVIOUS
  <2>1. i \in 1 .. n - from + 1
    BY <1>2, <1>6, <1>9
  <2>2. m[i] = above[from + i - 1]
    BY <1>9, <2>1
  <2>3. from + i - 1 \in from .. n
    BY <1>2, <1>6, <2>1
  <2> QED
    BY <2>2, <2>3
<1>11. \A i, j \in 1 .. Len(m) : m[i] = m[j] => i = j
  <2> SUFFICES ASSUME NEW i \in 1 .. Len(m), NEW j \in 1 .. Len(m), m[i] = m[j]
               PROVE  i = j
    OBVIOUS
  <2>1. /\ m[i] = above[from + i - 1] /\ from + i - 1 \in from .. n
        /\ m[j] = above[from + j - 1] /\ from + j - 1 \in from .. n
    BY <1>10
  <2>2. PICK a, b : a = from + i - 1 /\ b = from + j - 1
    OBVIOUS
  <2>3. above[a] = above[b] /\ a \in from .. n /\ b \in from .. n
    BY <2>1, <2>2
  <2>4. a \in DOMAIN above /\ b \in DOMAIN above
    BY <1>2, <1>6, <2>3
  <2>5. \A x, y \in DOMAIN above : above[x] = above[y] => x = y
    BY <1>1, Zenon DEF IsInjective
  <2>6. a = b
    BY <2>3, <2>4, <2>5
  <2> QED
    BY <1>6, <2>2, <2>6
<1>12. \A i \in 1 .. Len(m) : m[i] \notin DOMAIN tree
  <2> SUFFICES ASSUME NEW i \in 1 .. Len(m)
               PROVE  m[i] \notin DOMAIN tree
    OBVIOUS
  <2>1. ~Exists(m[i])
    BY <1>8, <1>10
  <2>2. i \in DOMAIN m
    BY <1>9, LenProperties
  <2>3. ~IsLink(m[i])
    BY <2>2 DEF CannotWriteHome, m
  <2> QED
    BY <2>1, <2>3, OpenedIs
<1> QED
  BY <1>9, <1>11, <1>12 DEF m

Calls(do, dirs, arg) == [i \in 1 .. Len(dirs) |-> Call(do, dirs[i], arg)]

CallEach(a, do, dirs, arg, S) ==
  /\ IsSteps(Calls(do, dirs, arg))
  /\ Under(a, Calls(do, dirs, arg)) \in Seq({CallOf(a, do, d, arg) : d \in S})
  /\ DOMAIN Under(a, Calls(do, dirs, arg)) = 1 .. Len(dirs)
  /\ \A i \in 1 .. Len(dirs) : Under(a, Calls(do, dirs, arg))[i].path = dirs[i]

LEMMA EachCall ==
  ASSUME NEW dirs, NEW S, dirs \in Seq(S), NEW a, NEW do, NEW arg
  PROVE  CallEach(a, do, dirs, arg, S)
<1> DEFINE n == Len(dirs)
           C == Calls(do, dirs, arg)
           called == Under(a, C)
           T == {CallOf(a, do, d, arg) : d \in S}
<1>1. n \in Nat /\ DOMAIN dirs = 1 .. n /\ \A i \in 1 .. n : dirs[i] \in S
  BY LenProperties
<1>2. IsSteps(C)
  <2> DEFINE X == {Call(do, dirs[i], arg) : i \in 1 .. n}
  <2>1. C \in [1 .. n -> X]
    BY DEF Calls
  <2>2. C \in Seq(X)
    BY <1>1, <2>1, SeqDef
  <2> QED
    BY <2>2 DEF IsSteps
<1>3. DOMAIN called = 1 .. n
  BY DEF Under, Calls
<1>4. \A i \in 1 .. n : called[i] = CallOf(a, do, dirs[i], arg)
  <2>1. \A x, p : [CallOf(x, do, p, arg) EXCEPT !.action = a] = CallOf(a, do, p, arg)
    BY DEF CallOf
  <2>2. \A p : Call(do, p, arg) = CallOf("", do, p, arg)
    BY Zenon DEF Call, CallOf
  <2>3. \A p : [Call(do, p, arg) EXCEPT !.action = a] = CallOf(a, do, p, arg)
    BY <2>1, <2>2, Zenon
  <2>4. \A i \in 1 .. n : called[i] = [C[i] EXCEPT !.action = a]
    BY DEF Under, Calls
  <2>5. \A i \in 1 .. n : C[i] = Call(do, dirs[i], arg)
    BY DEF Calls
  <2> HIDE DEF C, called
  <2> QED
    BY <2>3, <2>4, <2>5, Zenon
<1>5. \A i \in 1 .. n : called[i] \in T
  BY <1>1, <1>4, Zenon
<1>8. called = [i \in 1 .. n |-> called[i]]
  BY <1>3 DEF Under
<1> HIDE DEF called, T
<1>6. \A i \in 1 .. n : called[i].path = dirs[i]
  <2> SUFFICES ASSUME NEW i \in 1 .. n
               PROVE  called[i].path = dirs[i]
    OBVIOUS
  <2>1. PICK s, d : s = called[i] /\ d = dirs[i]
    OBVIOUS
  <2>2. s = CallOf(a, do, d, arg)
    BY <1>4, <2>1, Zenon
  <2>3. s.path = d
    BY <2>2, CallIs
  <2> QED
    BY <2>1, <2>3
<1>7. called \in Seq(T)
  <2>1. called \in [1 .. n -> T]
    BY <1>5, <1>8
  <2> QED
    BY <1>1, <2>1, SeqDef
<1> QED
  BY <1>2, <1>3, <1>6, <1>7, Zenon DEF CallEach, called, T

LEMMA HomeStarts ==
  ASSUME Base, NEW p \in DOMAIN doc.home, ~CannotWriteHome(p), NEW t \in Seq(Top)
  PROVE  Doing(Under("home", WriteHomeCalls(doc.home, p)) \o t)
<1> DEFINE missing == MissingAbove(p)
           mkdirs == Calls("mkdir", missing, "")
           chowns == Calls("chown", missing, UserOf(p))
           write == WriteCalls(p, doc.home[p])
           hand == <<Call("chown", p, UserOf(p))>>
           m == Under("home", mkdirs)
           c == Under("home", chowns)
           e == Under("home", hand) \o t
           w == Under("home", write) \o e
<1>1. p \in HomePaths
  BY DEF Base, DocumentOK
<1>2. /\ missing \in Seq(HomeDirs)
      /\ \A i, j \in 1 .. Len(missing) : missing[i] = missing[j] => i = j
      /\ \A i \in 1 .. Len(missing) : missing[i] \notin DOMAIN tree
  BY <1>1, Missing
<1> HIDE DEF missing
<1>3. /\ IsSteps(mkdirs) /\ m \in Seq(MkdirCalls) /\ DOMAIN m = 1 .. Len(missing)
      /\ \A i \in 1 .. Len(missing) : m[i].path = missing[i]
  <2>1. CallEach("home", "mkdir", missing, "", HomeDirs)
    BY <1>2, EachCall
  <2> QED
    BY <2>1, Zenon DEF CallEach, MkdirCalls
<1>4. /\ IsSteps(chowns) /\ c \in Seq(ChownCalls(p)) /\ DOMAIN c = 1 .. Len(missing)
      /\ \A i \in 1 .. Len(missing) : c[i].path = missing[i]
  <2>1. CallEach("home", "chown", missing, UserOf(p), HomeDirs)
    BY <1>2, EachCall
  <2> QED
    BY <2>1, Zenon DEF CallEach, ChownCalls
<1>5. IsSteps(t)
  BY DEF IsSteps
<1>6. e = <<CallOf("home", "chown", p, UserOf(p))>> \o t
  BY UnderOne, Zenon
<1>7. IsSteps(e) /\ AtEnd(e, "home", p)
  BY <1>5, <1>6, FrontOf DEF AtEnd
<1> HIDE DEF e
<1>8. Entry("home", p) = doc.home[p]
  BY DEF Entry
<1>9. IsSteps(write) /\ AtStart(w, "home", p) /\ IsSteps(w)
  BY <1>7, <1>8, WriteStarts
<1>10. WriteHomeCalls(doc.home, p) = ((mkdirs \o chowns) \o write) \o hand
  BY Zenon DEF WriteHomeCalls, missing, Calls
<1>11. IsSteps(hand)
  BY StepsOne
<1> HIDE DEF mkdirs, chowns, write, hand
<1>12. UnderEach("home", mkdirs, chowns, write, hand)
  BY <1>3, <1>4, <1>9, <1>11, UnderFour
<1>13. IsSteps(m) /\ IsSteps(c) /\ IsSteps(Under("home", write)) /\ IsSteps(Under("home", hand))
  BY <1>3, <1>4, <1>9, <1>11, UnderSteps
<1>14. Lined(m, c, Under("home", write), Under("home", hand), t)
  BY <1>5, <1>13, FourInFront
<1>15. Under("home", WriteHomeCalls(doc.home, p)) \o t = m \o (c \o w)
  BY <1>10, <1>12, <1>14, Zenon DEF UnderEach, Lined, e
<1> HIDE DEF m, c, w
<1>16. \A i, j \in DOMAIN c : c[i].path = c[j].path => i = j
  BY <1>2, <1>4
<1>17. \A i \in DOMAIN c :
         c[i].path \notin DOMAIN tree /\ \E j \in DOMAIN m : m[j].path = c[i].path
  BY <1>2, <1>3, <1>4
<1>18. Making(m \o (c \o w), p, m, c, w)
  BY <1>3, <1>4, <1>9, <1>16, <1>17 DEF Making
<1> QED
  BY <1>15, <1>18 DEF Doing

LEMMA FileStarts ==
  ASSUME NEW p \in DOMAIN Desired(doc), NEW t \in Seq(Top)
  PROVE  Doing(Under("files", WriteCalls(p, Desired(doc)[p])) \o t)
<1>1. Desired(doc)[p] = Entry("files", p)
  BY DEF Desired, Entry
<1>2. AtEnd(t, "files", p) /\ IsSteps(t)
  BY DEF AtEnd, IsSteps
<1>3. AtStart(Under("files", WriteCalls(p, Entry("files", p))) \o t, "files", p)
  BY <1>2, WriteStarts
<1>4. Writing(Under("files", WriteCalls(p, Desired(doc)[p])) \o t, "files", p)
  BY <1>1, <1>3 DEF Writing, DeclaredAt
<1> QED
  BY <1>4 DEF Doing

-----------------------------------------------------------------------------
(***************************************************************************)
(* One call of an apply                                                    *)
(***************************************************************************)

Running == \E t : t = todo /\ Doing(t)

\* Where an apply is in a write hangs on what is declared and owned only.
LEMMA SameStages ==
  ASSUME UNCHANGED <<doc, ownedUsers, ownedHome, ownedFiles>>
  PROVE  /\ Top' = Top
         /\ \A a, p : (DeclaredAt(a, p)' <=> DeclaredAt(a, p)) /\ Entry(a, p)' = Entry(a, p)
         /\ \A t, a, p : /\ AtEnd(t, a, p)' <=> AtEnd(t, a, p)
                         /\ AtFill(t, a, p)' <=> AtFill(t, a, p)
                         /\ AtMode(t, a, p)' <=> AtMode(t, a, p)
                         /\ AtOpen(t, a, p)' <=> AtOpen(t, a, p)
<1>1. Top' = Top
  BY DEF Top, Names, Desired
<1>2. \A a, p : (DeclaredAt(a, p)' <=> DeclaredAt(a, p)) /\ Entry(a, p)' = Entry(a, p)
  BY DEF DeclaredAt, Entry, Desired
<1>3. \A t, a, p : AtEnd(t, a, p)' <=> AtEnd(t, a, p)
  BY <1>1 DEF AtEnd
<1>4. \A t, a, p : AtFill(t, a, p)' <=> AtFill(t, a, p)
  BY <1>2, <1>3 DEF AtFill
<1>5. \A t, a, p : AtMode(t, a, p)' <=> AtMode(t, a, p)
  BY <1>2, <1>4 DEF AtMode
<1>6. \A t, a, p : AtOpen(t, a, p)' <=> AtOpen(t, a, p)
  BY <1>2, <1>5 DEF AtOpen
<1> QED
  BY <1>1, <1>2, <1>3, <1>4, <1>5, <1>6

LEMMA TheCall ==
  ASSUME FileCall
  PROVE  /\ todo' = Tail(todo) /\ UNCHANGED <<doc, ownedUsers, ownedHome, ownedFiles>>
         /\ Head(todo).do = "mkdir" => Mkdir(Path)
         /\ Head(todo).do = "chown" => \E uid : Chown(Path, uid)
         /\ Head(todo).do = "detach" => Detach(Path)
         /\ Head(todo).do = "open" => Open(Path, Head(todo).arg)
         /\ Head(todo).do = "chmod" => Chmod(Path)
         /\ Head(todo).do = "fill" => Fill(Path, Head(todo).arg)
         /\ Head(todo).do = "unlink" => Unlink(Path)
         /\ Head(todo).do = "delete" => Delete(Path)
         /\ Head(todo).do = "append" => AddLine(Path)
         /\ Head(todo).do = "strip" => Strip(Path)
         /\ Head(todo).do = "compose" => Compose(doc)
         /\ Head(todo).do \in Inner \cup {"unlink", "delete", "append", "strip", "compose"}
<1>1. todo' = Tail(todo) /\ UNCHANGED <<doc, ownedUsers, ownedHome, ownedFiles>>
  BY DEF FileCall, Proceed, Same, owned
<1>2. \/ Head(todo).do = "mkdir" /\ Mkdir(Path)
      \/ Head(todo).do = "chown" /\ Chown(Path, accounts[Head(todo).arg].uid)
      \/ Head(todo).do = "detach" /\ Detach(Path)
      \/ Head(todo).do = "open" /\ Open(Path, Head(todo).arg)
      \/ Head(todo).do = "chmod" /\ Chmod(Path)
      \/ Head(todo).do = "fill" /\ Fill(Path, Head(todo).arg)
      \/ Head(todo).do = "unlink" /\ Unlink(Path)
      \/ Head(todo).do = "delete" /\ Delete(Path)
      \/ Head(todo).do = "append" /\ AddLine(Path)
      \/ Head(todo).do = "strip" /\ Strip(Path)
      \/ Head(todo).do = "compose" /\ Compose(doc)
  BY Zenon DEF FileCall, Now
<1> QED
  BY <1>1, <1>2 DEF Inner

\* What is put in the place of a file or a directory.
Replaced(p, content, private) ==
  \E node : /\ tree' = Put(p, node) /\ IsNode(node) /\ node.kind # "link"
            /\ node.content = content /\ node.private = private

LEMMA ChangedIs ==
  ASSUME TreeOK, NEW p, Opened(p)
  PROVE  /\ \A content : Fill(p, content) => Replaced(p, content, tree[p].private)
         /\ Chmod(p) => Replaced(p, tree[p].content, TRUE)
         /\ \A uid : Chown(p, uid) => Replaced(p, tree[p].content, tree[p].private)
         /\ \A private : Open(p, private) => Replaced(p, {}, tree[p].private)
<1>1. PICK n : n = tree[p]
  OBVIOUS
<1>2. Follow(p) = p /\ Exists(p) /\ IsNode(n) /\ n.kind # "link"
  BY <1>1, OpenedNoLink, OpenedIs DEF TreeOK, Opened
<1>3. ASSUME NEW content, tree' = Put(p, [n EXCEPT !.content = content])
      PROVE  Replaced(p, content, n.private)
  <2>1. PICK node : node = [n EXCEPT !.content = content]
    OBVIOUS
  <2>2. IsNode(node) /\ node.content = content /\ node.kind = n.kind /\ node.private = n.private
    BY <1>2, <2>1, NodeChanges
  <2> QED
    BY <1>2, <1>3, <2>1, <2>2 DEF Replaced
<1>4. ASSUME tree' = Put(p, [n EXCEPT !.private = TRUE])
      PROVE  Replaced(p, n.content, TRUE)
  <2>1. PICK node : node = [n EXCEPT !.private = TRUE]
    OBVIOUS
  <2>2. IsNode(node) /\ node.content = n.content /\ node.kind = n.kind /\ node.private = TRUE
    BY <1>2, <2>1, NodeChanges
  <2> QED
    BY <1>2, <1>4, <2>1, <2>2 DEF Replaced
<1>5. ASSUME NEW uid, tree' = Put(p, [n EXCEPT !.owner = uid])
      PROVE  Replaced(p, n.content, n.private)
  <2>1. PICK node : node = [n EXCEPT !.owner = uid]
    OBVIOUS
  <2>2. IsNode(node) /\ node.content = n.content /\ node.kind = n.kind /\ node.private = n.private
    BY <1>2, <2>1, NodeChanges
  <2> QED
    BY <1>2, <1>5, <2>1, <2>2 DEF Replaced
<1>6. \A content : Fill(p, content) => tree' = Put(p, [n EXCEPT !.content = content])
  BY <1>1, <1>2 DEF Fill
<1>7. Chmod(p) => tree' = Put(p, [n EXCEPT !.private = TRUE])
  BY <1>1, <1>2 DEF Chmod
<1>8. \A uid : Chown(p, uid) => tree' = Put(p, [n EXCEPT !.owner = uid])
  BY <1>1, <1>2 DEF Chown
<1>9. \A private : Open(p, private) => tree' = Put(p, [n EXCEPT !.content = {}])
  BY <1>1, <1>2 DEF Open
<1> QED
  BY <1>1, <1>3, <1>4, <1>5, <1>6, <1>7, <1>8, <1>9

LEMMA CreatedIs ==
  ASSUME NEW p, p \notin DOMAIN tree, NEW private, Open(p, private)
  PROVE  Replaced(p, {}, private)
<1>1. PICK node : node = File({}, private, Root)
  OBVIOUS
<1>2. IsNode(node) /\ node.content = {} /\ node.kind = "file" /\ node.private = private
  BY <1>1 DEF IsNode, File, Dir
<1>3. Follow(p) = p /\ ~Exists(p)
  BY DEF Follow, IsLink, Exists
<1> QED
  BY <1>1, <1>2, <1>3 DEF Open, Replaced

LEMMA ReplacedKeeps ==
  ASSUME TreeOK, NEW p, NEW content, NEW private, Replaced(p, content, private),
         p \in Mine \/ (p \in HomeDirs /\ tree[p].owner = Root)
  PROVE  /\ KeepsToItsOwn /\ TreeOK' /\ Opened(p)' /\ tree'[p].private = private
         /\ (\/ ~PrivateHere(p)
             \/ content \cap Secrets = {}
             \/ private
             \/ /\ p \in DOMAIN tree /\ content \cap Secrets \subseteq tree[p].content
                /\ private = tree[p].private) => KeepsSecrets
<1>1. PICK node : /\ tree' = Put(p, node) /\ IsNode(node) /\ node.kind # "link"
                  /\ node.content = content /\ node.private = private
  BY DEF Replaced
<1>2. KeepsToItsOwn /\ TreeOK'
  BY <1>1, PutKeeps
<1>3. ASSUME \/ ~PrivateHere(p)
             \/ content \cap Secrets = {}
             \/ private
             \/ /\ p \in DOMAIN tree /\ content \cap Secrets \subseteq tree[p].content
                /\ private = tree[p].private
      PROVE  KeepsSecrets
  BY <1>1, <1>3, PutHides
<1>4. Opened(p)' /\ tree'[p].private = private
  BY <1>1 DEF Opened, Put
<1> QED
  BY <1>2, <1>3, <1>4

LEMMA WritingSteps ==
  ASSUME Base, TreeOK, NEW t, t = todo, NEW a, NEW p, Writing(t, a, p),
         t # <<>>, Head(t).do \in Inner, FileCall
  PROVE  KeepsToItsOwn /\ KeepsSecrets /\ TreeOK' /\ Running'
<1>1. a \in {"home", "files"} /\ p \in Mine
  BY DEF Writing, DeclaredAt, Mine, Desired
<1>2. PrivateHere(p) => Entry(a, p).private
  <2>1. DOMAIN doc.home \subseteq HomePaths /\ DOMAIN doc.files \subseteq EtcPaths
    BY DEF Base, DocumentOK
  <2>2. HomePaths \cap EtcPaths = {}
    BY PathAssumption
  <2> QED
    BY <2>1, <2>2 DEF PrivateHere, Entry, Writing, DeclaredAt, Desired
<1>3. /\ todo' = Tail(t) /\ UNCHANGED <<doc, ownedUsers, ownedHome, ownedFiles>>
  BY TheCall
<1>4. /\ DeclaredAt(a, p)' /\ Entry(a, p)' = Entry(a, p)
      /\ \A r : /\ AtEnd(r, a, p) => AtEnd(r, a, p)'
                /\ AtFill(r, a, p) => AtFill(r, a, p)'
                /\ AtMode(r, a, p) => AtMode(r, a, p)'
                /\ AtOpen(r, a, p) => AtOpen(r, a, p)'
  BY <1>3, SameStages DEF Writing
<1>5. PICK r : r = Tail(t)
  OBVIOUS
<1>6. ASSUME Writing(r, a, p)'
      PROVE  Running'
  BY <1>3, <1>5, <1>6 DEF Running, Doing
<1>13. \A do, arg : Is(t, CallOf(a, do, p, arg)) => Head(todo).do = do /\ Path = p /\ Head(todo).arg = arg
  BY CallNext DEF Path
<1>7. CASE AtStart(t, a, p) /\ IsLink(p)
  <2>1. Is(t, CallOf(a, "detach", p, "")) /\ AtOpen(r, a, p)
    BY <1>5, <1>7, Zenon DEF AtStart
  <2>2. tree' = Without({p})
    <3>1. Head(todo).do = "detach" /\ Path = p
      BY <2>1, <1>13, Zenon
    <3> QED
      BY <3>1, TheCall DEF Detach
  <2>3. KeepsSecrets /\ KeepsToItsOwn /\ TreeOK'
    BY <1>1, <1>7, <2>2, WithoutKeeps
  <2>4. ~IsLink(p)'
    BY <2>2 DEF IsLink, Without
  <2>5. AtStart(r, a, p)'
    BY <1>4, <2>1, <2>4, Zenon DEF AtStart
  <2> QED
    BY <1>4, <1>6, <2>3, <2>5 DEF Writing
<1>8. CASE AtStart(t, a, p) /\ ~IsLink(p)
  <2>1. Is(t, CallOf(a, "open", p, Entry(a, p).private)) /\ AtMode(r, a, p)
    BY <1>5, <1>8, Zenon DEF AtStart, AtOpen
  <2>2. Open(p, Entry(a, p).private)
    <3>1. Head(todo).do = "open" /\ Path = p /\ Head(todo).arg = Entry(a, p).private
      BY <2>1, <1>13, Zenon
    <3> QED
      BY <3>1, TheCall
  <2>3. \E private : Replaced(p, {}, private)
    <3>1. CASE p \in DOMAIN tree
      <4>1. Opened(p)
        BY <1>8, <3>1, OpenedIs
      <4> QED
        BY <2>2, <4>1, ChangedIs
    <3>2. CASE p \notin DOMAIN tree
      BY <2>2, <3>2, CreatedIs
    <3> QED
      BY <3>1, <3>2
  <2>4. KeepsSecrets /\ KeepsToItsOwn /\ TreeOK' /\ Opened(p)'
    BY <1>1, <2>3, ReplacedKeeps
  <2> QED
    BY <1>4, <1>6, <2>1, <2>4 DEF Writing
<1>9. CASE AtMode(t, a, p) /\ Opened(p) /\ Entry(a, p).private
  <2>1. Is(t, CallOf(a, "chmod", p, "")) /\ AtFill(r, a, p)
    BY <1>5, <1>9, Zenon DEF AtMode
  <2>2. Chmod(p)
    <3>1. Head(todo).do = "chmod" /\ Path = p
      BY <2>1, <1>13, Zenon
    <3> QED
      BY <3>1, TheCall
  <2>3. Replaced(p, tree[p].content, TRUE)
    BY <1>9, <2>2, ChangedIs
  <2>4. KeepsSecrets /\ KeepsToItsOwn /\ TreeOK' /\ Opened(p)' /\ tree'[p].private
    BY <1>1, <2>3, ReplacedKeeps
  <2> QED
    BY <1>4, <1>6, <2>1, <2>4 DEF Writing
<1>10. CASE AtFill(t, a, p) /\ Opened(p) /\ (Entry(a, p).private => tree[p].private)
  <2>1. Is(t, CallOf(a, "fill", p, Entry(a, p).content)) /\ AtEnd(r, a, p)
    BY <1>5, <1>10, Zenon DEF AtFill
  <2>2. Fill(p, Entry(a, p).content)
    <3>1. Head(todo).do = "fill" /\ Path = p /\ Head(todo).arg = Entry(a, p).content
      BY <2>1, <1>13, Zenon
    <3> QED
      BY <3>1, TheCall
  <2>3. Replaced(p, Entry(a, p).content, tree[p].private)
    BY <1>10, <2>2, ChangedIs
  <2>4. KeepsSecrets /\ KeepsToItsOwn /\ TreeOK' /\ Opened(p)'
    BY <1>1, <1>2, <1>10, <2>3, ReplacedKeeps
  <2> QED
    BY <1>4, <1>6, <2>1, <2>4 DEF Writing
<1>11. CASE AtEnd(t, a, p) /\ Opened(p)
  <2>1. t \notin Seq(Top)
    BY SeqHead, TopKinds
  <2>2. Is(t, CallOf(a, "chown", p, UserOf(p))) /\ r \in Seq(Top)
    BY <1>5, <1>11, <2>1, Zenon DEF AtEnd
  <2>3. PICK uid : Chown(p, uid)
    <3>1. Head(todo).do = "chown" /\ Path = p
      BY <2>2, <1>13, Zenon
    <3> QED
      BY <3>1, TheCall
  <2>4. Replaced(p, tree[p].content, tree[p].private)
    BY <1>11, <2>3, ChangedIs
  <2>5. p \in DOMAIN tree
    BY <1>11 DEF Opened
  <2>6. KeepsSecrets /\ KeepsToItsOwn /\ TreeOK'
    BY <1>1, <2>4, <2>5, ReplacedKeeps
  <2>7. r \in Seq(Top)'
    BY <1>3, <2>2, SameStages
  <2>8. Running'
    BY <1>3, <1>5, <2>7 DEF Running, Doing
  <2> QED
    BY <2>6, <2>8
<1> QED
  <2>1. AtMode(t, a, p) /\ ~Entry(a, p).private => AtFill(t, a, p)
    BY Zenon DEF AtMode
  <2> QED
    BY <1>7, <1>8, <1>9, <1>10, <1>11, <2>1 DEF Writing

LEMMA TailOf ==
  ASSUME NEW S, NEW s \in Seq(S), s # <<>>
  PROVE  /\ Tail(s) \in Seq(S) /\ 1 \in DOMAIN s /\ Head(s) = s[1]
         /\ \A i \in DOMAIN Tail(s) : i + 1 \in DOMAIN s /\ Tail(s)[i] = s[i + 1]
         /\ \A j \in DOMAIN s : j = 1 \/ \E i \in DOMAIN Tail(s) : j = i + 1
<1>1. /\ Len(s) \in Nat /\ Len(s) >= 1 /\ DOMAIN s = 1 .. Len(s)
      /\ Tail(s) \in Seq(S) /\ Len(Tail(s)) = Len(s) - 1 /\ DOMAIN Tail(s) = 1 .. Len(s) - 1
      /\ \A i \in 1 .. Len(Tail(s)) : Tail(s)[i] = s[i + 1]
  BY LenProperties, HeadTailProperties, EmptySeq
<1>2. \A j \in DOMAIN s : j = 1 \/ (j - 1 \in DOMAIN Tail(s) /\ j = (j - 1) + 1)
  BY <1>1
<1>3. \A j \in DOMAIN s : j = 1 \/ \E i \in DOMAIN Tail(s) : j = i + 1
  BY <1>2
<1>4. \A i \in DOMAIN Tail(s) : i + 1 \in DOMAIN s /\ Tail(s)[i] = s[i + 1]
  BY <1>1
<1> QED
  BY <1>1, <1>3, <1>4

\* A directory on the way is made.
LEMMA MkdirSteps ==
  ASSUME Base, TreeOK, NEW t, t = todo, NEW p, NEW m, NEW c, NEW w, Making(t, p, m, c, w),
         m # <<>>, FileCall
  PROVE  KeepsToItsOwn /\ KeepsSecrets /\ TreeOK' /\ Running'
<1>1. todo' = Tail(t) /\ UNCHANGED <<doc, ownedUsers, ownedHome, ownedFiles>>
  BY TheCall
<1>2. /\ Head(t) = Head(m) /\ Tail(t) = Tail(m) \o (c \o w)
      /\ Head(t).do = "mkdir" /\ Head(t).path \in HomeDirs
  <2>1. NextOf(t, m, c, w) /\ NextDoes(t, p, m, c)
    BY MakingHead, MakingDoes
  <2> QED
    BY <2>1 DEF NextOf, NextDoes
<1>3. PICK d : d = Path
  OBVIOUS
<1>4. Mkdir(d)
  BY <1>2, <1>3, TheCall
<1>5. /\ p \in DOMAIN doc.home /\ m \in Seq(MkdirCalls) /\ c \in Seq(ChownCalls(p)) /\ IsSteps(w)
      /\ AtStart(w, "home", p)
      /\ \A i, j \in DOMAIN c : c[i].path = c[j].path => i = j
      /\ \A i \in DOMAIN c :
           \/ c[i].path \in DOMAIN tree /\ tree[c[i].path] = Dir(Root)
           \/ c[i].path \notin DOMAIN tree /\ \E j \in DOMAIN m : m[j].path = c[i].path
  BY DEF Making
<1>6. KeepsToItsOwn /\ KeepsSecrets /\ TreeOK'
  <2>1. CASE d \in DOMAIN tree
    <3>1. UNCHANGED tree
      BY <1>4, <2>1 DEF Mkdir
    <3> QED
      BY <3>1, NothingMoves
  <2>2. CASE d \notin DOMAIN tree
    <3>1. PICK node : node = Dir(Root)
      OBVIOUS
    <3>2. IsNode(node) /\ node.kind # "link" /\ node.content = {}
      BY <3>1, Nodes
    <3>3. tree' = Put(d, node)
      BY <1>4, <2>2, <3>1 DEF Mkdir
    <3> QED
      BY <2>2, <3>2, <3>3, PutKeeps, PutHides
  <2> QED
    BY <2>1, <2>2
<1>7. /\ d \in DOMAIN tree' /\ (d \notin DOMAIN tree => tree'[d] = Dir(Root))
      /\ \A q : q \in DOMAIN tree => q \in DOMAIN tree' /\ tree'[q] = tree[q]
      /\ \A q : q # d => (q \in DOMAIN tree' <=> q \in DOMAIN tree)
  BY <1>4, Zenon DEF Mkdir, Put
<1>8. IsLink(p)' <=> IsLink(p)
  <2>1. CASE p = d /\ d \notin DOMAIN tree
    BY <1>7, <2>1, Nodes DEF IsLink
  <2>2. CASE ~(p = d /\ d \notin DOMAIN tree)
    BY <1>7, <2>2 DEF IsLink
  <2> QED
    BY <2>1, <2>2
<1>9. AtStart(w, "home", p)'
  <2>1. \A r : AtOpen(r, "home", p)' <=> AtOpen(r, "home", p)
    BY <1>1, SameStages
  <2> QED
    BY <1>5, <1>8, <2>1 DEF AtStart
<1>10. PICK n : n = Tail(m)
  OBVIOUS
<1>11. /\ n \in Seq(MkdirCalls) /\ 1 \in DOMAIN m /\ Head(m) = m[1]
       /\ \A i \in DOMAIN n : i + 1 \in DOMAIN m /\ n[i] = m[i + 1]
       /\ \A j \in DOMAIN m : j = 1 \/ \E i \in DOMAIN n : j = i + 1
  BY <1>5, <1>10, TailOf
<1>12. m[1].path = d
  BY <1>2, <1>3, <1>11 DEF Path
<1>13. \A i \in DOMAIN c :
         \/ c[i].path \in DOMAIN tree' /\ tree'[c[i].path] = Dir(Root)
         \/ c[i].path \notin DOMAIN tree' /\ \E j \in DOMAIN n : n[j].path = c[i].path
  <2> SUFFICES ASSUME NEW i \in DOMAIN c
               PROVE  \/ c[i].path \in DOMAIN tree' /\ tree'[c[i].path] = Dir(Root)
                      \/ c[i].path \notin DOMAIN tree' /\ \E j \in DOMAIN n : n[j].path = c[i].path
    OBVIOUS
  <2>1. CASE c[i].path \in DOMAIN tree /\ tree[c[i].path] = Dir(Root)
    BY <1>7, <2>1
  <2>2. CASE c[i].path \notin DOMAIN tree /\ c[i].path = d
    BY <1>7, <2>2
  <2>3. CASE c[i].path \notin DOMAIN tree /\ c[i].path # d
    <3>1. PICK j \in DOMAIN m : m[j].path = c[i].path
      BY <1>5, <2>3
    <3>2. j # 1
      BY <1>12, <2>3, <3>1
    <3>3. PICK k \in DOMAIN n : j = k + 1
      BY <1>11, <3>2
    <3>4. n[k].path = c[i].path
      BY <1>11, <3>1, <3>3
    <3> QED
      BY <1>7, <2>3, <3>4
  <2> QED
    BY <1>5, <2>1, <2>2, <2>3
<1>14. PICK r : r = Tail(t)
  OBVIOUS
<1>15. r = n \o (c \o w)
  BY <1>2, <1>10, <1>14
<1>16. Making(r, p, n, c, w)'
  BY <1>1, <1>5, <1>9, <1>11, <1>13, <1>15 DEF Making, MkdirCalls, ChownCalls, HomeDirs, IsSteps
<1>17. Running'
  BY <1>1, <1>14, <1>16 DEF Running, Doing
<1> QED
  BY <1>6, <1>17

\* One that was made is handed to the user.
LEMMA ChownSteps ==
  ASSUME Base, TreeOK, NEW t, t = todo, NEW p, NEW m, NEW c, NEW w, Making(t, p, m, c, w),
         m = <<>>, c # <<>>, FileCall
  PROVE  KeepsToItsOwn /\ KeepsSecrets /\ TreeOK' /\ Running'
<1>1. todo' = Tail(t) /\ UNCHANGED <<doc, ownedUsers, ownedHome, ownedFiles>>
  BY TheCall
<1>2. /\ Head(t) = Head(c) /\ Tail(t) = <<>> \o (Tail(c) \o w)
      /\ Head(t).do = "chown" /\ Head(t).path \in HomeDirs
  <2>1. NextOf(t, m, c, w) /\ NextDoes(t, p, m, c)
    BY MakingHead, MakingDoes
  <2> QED
    BY <2>1 DEF NextOf, NextDoes
<1>3. PICK d : d = Path
  OBVIOUS
<1>4. PICK uid : Chown(d, uid)
  BY <1>2, <1>3, TheCall
<1>5. /\ p \in DOMAIN doc.home /\ m \in Seq(MkdirCalls) /\ c \in Seq(ChownCalls(p)) /\ IsSteps(w)
      /\ AtStart(w, "home", p)
      /\ \A i, j \in DOMAIN c : c[i].path = c[j].path => i = j
      /\ \A i \in DOMAIN c :
           \/ c[i].path \in DOMAIN tree /\ tree[c[i].path] = Dir(Root)
           \/ c[i].path \notin DOMAIN tree /\ \E j \in DOMAIN m : m[j].path = c[i].path
  BY DEF Making
<1>6. DOMAIN m = {}
  OBVIOUS
<1>7. PICK n : n = Tail(c)
  OBVIOUS
<1>8. /\ n \in Seq(ChownCalls(p)) /\ 1 \in DOMAIN c /\ Head(c) = c[1]
      /\ \A i \in DOMAIN n : i + 1 \in DOMAIN c /\ n[i] = c[i + 1] /\ i + 1 # 1
  <2>1. /\ n \in Seq(ChownCalls(p)) /\ 1 \in DOMAIN c /\ Head(c) = c[1]
        /\ \A i \in DOMAIN n : i + 1 \in DOMAIN c /\ n[i] = c[i + 1]
    BY <1>5, <1>7, TailOf
  <2>2. \A i \in DOMAIN n : i >= 1 /\ i \in Nat
    BY <2>1, LenProperties
  <2> QED
    BY <2>1, <2>2
<1>9. c[1].path = d /\ d \in HomeDirs
  BY <1>2, <1>3, <1>8 DEF Path
<1>10. d \in DOMAIN tree /\ tree[d] = Dir(Root)
  BY <1>5, <1>6, <1>8, <1>9
<1>11. Opened(d) /\ tree[d].owner = Root
  BY <1>10, Nodes DEF Opened
<1>12. Replaced(d, tree[d].content, tree[d].private)
  BY <1>4, <1>11, ChangedIs
<1>13. KeepsToItsOwn /\ KeepsSecrets /\ TreeOK' /\ Opened(d)'
  BY <1>9, <1>10, <1>11, <1>12, ReplacedKeeps
<1>14. \A q : q # d => (q \in DOMAIN tree' <=> q \in DOMAIN tree) /\ (q \in DOMAIN tree => tree'[q] = tree[q])
  <2>1. PICK node : tree' = Put(d, node)
    BY <1>12 DEF Replaced
  <2> QED
    BY <2>1, Zenon DEF Put
<1>15. IsLink(p)' <=> IsLink(p)
  <2>1. CASE p = d
    BY <1>11, <1>13, <2>1 DEF Opened, IsLink
  <2>2. CASE p # d
    BY <1>14, <2>2 DEF IsLink
  <2> QED
    BY <2>1, <2>2
<1>16. AtStart(w, "home", p)'
  <2>1. \A r : AtOpen(r, "home", p)' <=> AtOpen(r, "home", p)
    BY <1>1, SameStages
  <2> QED
    BY <1>5, <1>15, <2>1 DEF AtStart
<1>17. \A i \in DOMAIN n : n[i].path \in DOMAIN tree' /\ tree'[n[i].path] = Dir(Root)
  <2> SUFFICES ASSUME NEW i \in DOMAIN n
               PROVE  n[i].path \in DOMAIN tree' /\ tree'[n[i].path] = Dir(Root)
    OBVIOUS
  <2>1. PICK k : k = i + 1
    OBVIOUS
  <2>2. k \in DOMAIN c /\ n[i] = c[k] /\ k # 1
    BY <1>8, <2>1
  <2>3. c[k].path # d
    BY <1>5, <1>8, <1>9, <2>2
  <2>4. c[k].path \in DOMAIN tree /\ tree[c[k].path] = Dir(Root)
    BY <1>5, <1>6, <2>2
  <2> QED
    BY <1>14, <2>2, <2>3, <2>4
<1>18. \A i, j \in DOMAIN n : n[i].path = n[j].path => i = j
  <2> SUFFICES ASSUME NEW i \in DOMAIN n, NEW j \in DOMAIN n, n[i].path = n[j].path
               PROVE  i = j
    OBVIOUS
  <2>1. i + 1 = j + 1
    BY <1>5, <1>8
  <2>2. i \in Nat /\ j \in Nat
    BY <1>8, LenProperties
  <2> QED
    BY <2>1, <2>2
<1>19. PICK r : r = Tail(t)
  OBVIOUS
<1>20. r = m \o (n \o w)
  BY <1>2, <1>7, <1>19
<1>21. Making(r, p, m, n, w)'
  BY <1>1, <1>5, <1>8, <1>16, <1>17, <1>18, <1>20 DEF Making, MkdirCalls, ChownCalls, HomeDirs, IsSteps
<1>22. Running'
  BY <1>1, <1>19, <1>21 DEF Running, Doing
<1> QED
  BY <1>13, <1>22

\* What dracut composes has no mode, so no document wants it private.
PlainDoc(d) == d.dracut /\ Crypttab \in DOMAIN d.files => ~d.files[Crypttab].private

LEMMA LinesAre ==
  ASSUME TreeOK, NEW p \in {Fstab, Crypttab}, NEW content, Lines(p, content)
  PROVE  Replaced(p, content, IF p \in DOMAIN tree THEN tree[p].private ELSE FALSE)
<1>1. Follow(p) = p /\ (Exists(p) <=> p \in DOMAIN tree) /\ (p \in DOMAIN tree => Opened(p))
  <2>1. ~IsLink(p)
    BY DEF TreeOK
  <2> QED
    BY <2>1, OpenedIs
<1>2. CASE p \in DOMAIN tree
  <2>1. Fill(p, content)
    BY <1>1, <1>2 DEF Lines, Fill
  <2> QED
    BY <1>1, <1>2, <2>1, ChangedIs
<1>3. CASE p \notin DOMAIN tree
  <2>1. PICK node : node = File(content, FALSE, Root)
    OBVIOUS
  <2>2. IsNode(node) /\ node.content = content /\ node.kind = "file" /\ node.private = FALSE
    BY <2>1 DEF IsNode, File, Dir
  <2>3. tree' = Put(p, node)
    BY <1>1, <1>3, <2>1 DEF Lines
  <2> QED
    BY <1>3, <2>2, <2>3 DEF Replaced
<1> QED
  BY <1>2, <1>3

\* The steps of the plan that are one call.
LEMMA PlainSteps ==
  ASSUME Base, TreeOK, NEW t, t = todo, t \in Seq(Top), t # <<>>, FileCall
  PROVE  /\ KeepsToItsOwn /\ TreeOK'
         /\ SwapLine \notin Secrets /\ PlainDoc(doc) => KeepsSecrets
<1>1. Head(t) \in Top
  BY SeqHead
<1>2. PICK p : p = Path
  OBVIOUS
<1>3. /\ Head(t).do \notin Inner
      /\ Head(t).do = "unlink" => p \in ownedHome
      /\ Head(t).do = "delete" => p \in ownedFiles
      /\ Head(t).do \in {"append", "strip"} => p \in {Fstab, Crypttab}
      /\ Head(t).do = "compose" => doc.dracut
  BY <1>1, <1>2, TopKinds DEF Path
<1>4. ASSUME tree' = Without({p}), p \in (ownedHome \cup ownedFiles) \ Shipped
      PROVE  KeepsToItsOwn /\ TreeOK' /\ KeepsSecrets
  BY <1>4, WithoutKeeps
<1>5. ASSUME UNCHANGED tree
      PROVE  KeepsToItsOwn /\ TreeOK' /\ KeepsSecrets
  BY <1>5, NothingMoves
<1>6. Fstab \in Mine /\ Crypttab \in Mine
  BY DEF Mine
<1>7. CASE Head(t).do = "unlink"
  <2>1. Unlink(p)
    BY <1>2, <1>7, TheCall
  <2>2. p \in (ownedHome \cup ownedFiles) \ Shipped
    <3>1. ownedHome \subseteq HomePaths
      BY DEF Base
    <3>2. HomePaths \cap Shipped = {}
      BY PathAssumption
    <3> QED
      BY <1>3, <1>7, <3>1, <3>2
  <2> QED
    BY <1>4, <1>5, <2>1, <2>2 DEF Unlink
<1>8. CASE Head(t).do = "delete"
  <2>1. Delete(p) /\ p \in ownedFiles
    BY <1>2, <1>3, <1>8, TheCall
  <2> QED
    BY <1>4, <1>5, <2>1 DEF Delete, Unlink
<1>9. CASE Head(t).do = "append"
  <2>1. p \in {Fstab, Crypttab} /\ Lines(p, Read(p) \cup {SwapLine})
    BY <1>2, <1>3, <1>9, TheCall DEF AddLine
  <2>2. Replaced(p, Read(p) \cup {SwapLine}, IF p \in DOMAIN tree THEN tree[p].private ELSE FALSE)
    BY <2>1, LinesAre
  <2>3. Read(p) = IF p \in DOMAIN tree THEN tree[p].content ELSE {}
    BY <2>1, OpenedIs DEF TreeOK, Read
  <2>4. ASSUME SwapLine \notin Secrets
        PROVE  KeepsSecrets
    <3>1. CASE p \in DOMAIN tree
      <4>1. (Read(p) \cup {SwapLine}) \cap Secrets \subseteq tree[p].content
        BY <2>3, <2>4, <3>1
      <4> QED
        BY <1>6, <2>1, <2>2, <3>1, <4>1, ReplacedKeeps
    <3>2. CASE p \notin DOMAIN tree
      <4>1. PICK content, private :
              /\ content = Read(p) \cup {SwapLine}
              /\ private = (IF p \in DOMAIN tree THEN tree[p].private ELSE FALSE)
        OBVIOUS
      <4>2. Replaced(p, content, private)
        BY <2>2, <4>1
      <4>3. content \cap Secrets = {}
        BY <2>3, <2>4, <3>2, <4>1
      <4>4. p \in Mine
        BY <1>6, <2>1
      <4> QED
        BY <4>2, <4>3, <4>4, ReplacedKeeps DEF Base
    <3> QED
      BY <3>1, <3>2
  <2>5. KeepsToItsOwn /\ TreeOK'
    BY <1>6, <2>1, <2>2, ReplacedKeeps
  <2> QED
    BY <2>4, <2>5
<1>10. CASE Head(t).do = "strip"
  <2>1. p \in {Fstab, Crypttab} /\ Strip(p)
    BY <1>2, <1>3, <1>10, TheCall
  <2>2. CASE Read(p) = {}
    BY <1>5, <2>1, <2>2 DEF Strip
  <2>3. CASE Read(p) # {}
    <3>1. Lines(p, Read(p) \ {SwapLine})
      BY <2>1, <2>3 DEF Strip
    <3>2. Read(p) = tree[p].content /\ p \in DOMAIN tree
      BY <2>1, <2>3, OpenedIs DEF TreeOK, Read
    <3>3. Replaced(p, Read(p) \ {SwapLine}, tree[p].private)
      BY <2>1, <3>1, <3>2, LinesAre
    <3>4. (Read(p) \ {SwapLine}) \cap Secrets \subseteq tree[p].content
      BY <3>2
    <3> QED
      BY <1>6, <2>1, <3>2, <3>3, <3>4, ReplacedKeeps
  <2> QED
    BY <2>2, <2>3
<1>11. CASE Head(t).do = "compose"
  <2>1. Lines(Crypttab, Composed(doc)) /\ doc.dracut
    BY <1>3, <1>11, TheCall DEF Compose
  <2>2. Replaced(Crypttab, Composed(doc), IF Crypttab \in DOMAIN tree THEN tree[Crypttab].private ELSE FALSE)
    BY <2>1, LinesAre
  <2>3. PlainDoc(doc) => ~PrivateHere(Crypttab)
    <3>1. Crypttab \notin DOMAIN doc.home
      BY PathAssumption DEF Base, DocumentOK
    <3> QED
      BY <2>1, <3>1 DEF PlainDoc, PrivateHere
  <2> QED
    BY <1>6, <2>2, <2>3, ReplacedKeeps
<1> QED
  BY <1>3, <1>7, <1>8, <1>9, <1>10, <1>11, TheCall

\* Nothing moves: where an apply is stays true.
LEMMA DoingStays ==
  ASSUME UNCHANGED <<tree, doc, ownedUsers, ownedHome, ownedFiles>>, NEW t, Doing(t)
  PROVE  Doing(t)'
<1>1. Top' = Top
  BY SameStages
<1>2. ASSUME NEW a, NEW p
      PROVE  AtStart(t, a, p)' <=> AtStart(t, a, p)
  BY SameStages DEF AtStart, IsLink
<1>3. ASSUME NEW a, NEW p, Writing(t, a, p)
      PROVE  Writing(t, a, p)'
  BY <1>2, <1>3, SameStages DEF Writing, Opened
<1>4. ASSUME NEW p, NEW m, NEW c, NEW w, Making(t, p, m, c, w)
      PROVE  Making(t, p, m, c, w)'
  <2>1. AtStart(w, "home", p)' <=> AtStart(w, "home", p)
    BY SameStages DEF AtStart, IsLink
  <2> QED
    BY <1>4, <2>1 DEF Making, MkdirCalls, ChownCalls, HomeDirs, IsSteps
<1> QED
  BY <1>1, <1>3, <1>4 DEF Doing

LEMMA FileCalls ==
  ASSUME Base, TreeOK, Running, FileCall
  PROVE  /\ KeepsToItsOwn /\ TreeOK' /\ Running'
         /\ SwapLine \notin Secrets /\ PlainDoc(doc) => KeepsSecrets
<1>1. PICK t : t = todo /\ Doing(t)
  BY DEF Running
<1>2. t # <<>>
  BY <1>1 DEF FileCall
<1>3. CASE Head(t).do \in Inner
  <2>1. ASSUME NEW a, NEW p, Writing(t, a, p)
        PROVE  KeepsToItsOwn /\ KeepsSecrets /\ TreeOK' /\ Running'
    BY <1>1, <1>2, <1>3, <2>1, WritingSteps
  <2>2. ASSUME NEW p, NEW m, NEW c, NEW w, Making(t, p, m, c, w), m # <<>> \/ c # <<>>
        PROVE  KeepsToItsOwn /\ KeepsSecrets /\ TreeOK' /\ Running'
    <3>1. CASE m # <<>>
      BY <1>1, <2>2, <3>1, MkdirSteps
    <3>2. CASE m = <<>>
      BY <1>1, <2>2, <3>2, ChownSteps
    <3> QED
      BY <3>1, <3>2
  <2> QED
    BY <1>1, <1>2, <1>3, <2>1, <2>2, DoingInner
<1>4. CASE Head(t).do \notin Inner
  <2>1. t \in Seq(Top)
    BY <1>1, <1>4, DoingTop
  <2>2. KeepsToItsOwn /\ TreeOK' /\ (SwapLine \notin Secrets /\ PlainDoc(doc) => KeepsSecrets)
    BY <1>1, <1>2, <2>1, PlainSteps
  <2>3. PICK r : r = Tail(t)
    OBVIOUS
  <2>4. r \in Seq(Top)
    BY <1>2, <2>1, <2>3, SeqHead
  <2>5. r = todo' /\ UNCHANGED <<doc, ownedUsers, ownedHome, ownedFiles>>
    BY <1>1, <2>3, TheCall
  <2>6. r \in Seq(Top)'
    BY <2>4, <2>5, SameStages
  <2> QED
    BY <2>2, <2>5, <2>6 DEF Running, Doing
<1> QED
  BY <1>3, <1>4

-----------------------------------------------------------------------------
(***************************************************************************)
(* The other steps of an apply                                             *)
(***************************************************************************)

\* When no write is under way, the next step is one of the plan's.
LEMMA TopNext ==
  ASSUME Running, todo # <<>>, Head(todo).do \notin Inner \/ Head(todo).action = "users"
  PROVE  \E t : t = todo /\ t \in Seq(Top) /\ Head(t) \in Top /\ Tail(t) \in Seq(Top)
<1>1. PICK t : t = todo /\ Doing(t)
  BY DEF Running
<1>2. t \in Seq(Top)
  BY <1>1, DoingTop
<1> QED
  BY <1>1, <1>2, SeqHead

LEMMA Commands ==
  ASSUME TreeOK, Running, UserCommand
  PROVE  KeepsToItsOwn /\ KeepsSecrets /\ TreeOK' /\ Running'
<1>1. PICK t : t = todo /\ t \in Seq(Top) /\ Tail(t) \in Seq(Top)
  BY TopNext DEF UserCommand
<1>2. todo' = Tail(t) /\ UNCHANGED <<doc, ownedUsers, ownedHome, ownedFiles>>
  BY <1>1 DEF UserCommand, Proceed, Same, owned
<1>3. Running'
  <2>1. PICK r : r = Tail(t)
    OBVIOUS
  <2>2. r \in Seq(Top)'
    BY <1>1, <1>2, <2>1, SameStages
  <2> QED
    BY <1>2, <2>1, <2>2 DEF Running, Doing
<1>4. \/ UNCHANGED tree
      \/ Path \notin DOMAIN tree /\ tree' = Put(Path, Dir(NextUid))
      \/ doc.purge /\ tree' = Without(Below(Path))
  BY Zenon DEF UserCommand
<1>5. CASE UNCHANGED tree
  BY <1>3, <1>5, NothingMoves
<1>6. CASE Path \notin DOMAIN tree /\ tree' = Put(Path, Dir(NextUid))
  <2>1. PICK node, p : node = Dir(NextUid) /\ p = Path
    OBVIOUS
  <2>2. IsNode(node) /\ node.kind # "link" /\ node.content = {}
    BY <2>1, Nodes
  <2>3. tree' = Put(p, node) /\ p \notin DOMAIN tree
    BY <1>6, <2>1
  <2> QED
    BY <1>3, <2>2, <2>3, PutKeeps, PutHides
<1>7. CASE doc.purge /\ tree' = Without(Below(Path))
  <2>1. PICK paths : paths = Below(Path)
    OBVIOUS
  <2>2. tree' = Without(paths) /\ \A p \in paths \cap DOMAIN tree : doc.purge /\ p \in Below(Path)
    BY <1>7, <2>1
  <2> QED
    BY <1>3, <2>2, WithoutKeeps
<1> QED
  BY <1>4, <1>5, <1>6, <1>7

LEMMA Starts ==
  ASSUME Base, TreeOK, Running, StartWrite
  PROVE  KeepsToItsOwn /\ KeepsSecrets /\ TreeOK' /\ Running'
<1>1. /\ UNCHANGED tree /\ UNCHANGED <<doc, ownedUsers, ownedHome, ownedFiles>>
      /\ todo # <<>> /\ ~MustStop
  BY DEF StartWrite, Same, owned
<1>2. KeepsToItsOwn /\ KeepsSecrets /\ TreeOK'
  BY <1>1, NothingMoves
<1>3. \/ Head(todo).do = "write-home" /\ Expand(WriteHomeCalls(doc.home, Path))
      \/ Head(todo).do = "write" /\ Expand(WriteCalls(Path, Desired(doc)[Path]))
  BY Zenon DEF StartWrite, Now
<1>4. PICK t : t = todo /\ Head(t) \in Top /\ Tail(t) \in Seq(Top)
  <2>1. Head(todo).do \notin Inner
    BY <1>3 DEF Inner
  <2> QED
    BY <1>1, <2>1, TopNext
<1>5. PICK p : p = Path
  OBVIOUS
<1>6. PICK r : r = Tail(t)
  OBVIOUS
<1>7. /\ Head(t).do = "write-home" => Head(t).action = "home" /\ p \in DOMAIN doc.home
      /\ Head(t).do = "write" => Head(t).action = "files" /\ p \in DOMAIN Desired(doc)
  BY <1>4, <1>5, TopKinds DEF Path
<1>8. \A calls : Expand(calls) => todo' = Under(Head(t).action, calls) \o r
  BY <1>4, <1>6 DEF Expand, Under
<1>9. \E s : s = todo' /\ Doing(s)
  <2>1. CASE Head(t).do = "write-home"
    <3>1. Expand(WriteHomeCalls(doc.home, p))
      BY <1>3, <1>4, <1>5, <2>1
    <3>2. todo' = Under("home", WriteHomeCalls(doc.home, p)) \o r
      BY <1>7, <1>8, <2>1, <3>1
    <3>3. ~CannotWriteHome(p)
      BY <1>1, <1>4, <1>5, <2>1 DEF MustStop
    <3>4. Doing(Under("home", WriteHomeCalls(doc.home, p)) \o r)
      BY <1>4, <1>6, <1>7, <2>1, <3>3, HomeStarts
    <3> QED
      BY <3>2, <3>4
  <2>2. CASE Head(t).do = "write"
    <3>1. Expand(WriteCalls(p, Desired(doc)[p]))
      BY <1>3, <1>4, <1>5, <2>2
    <3>2. todo' = Under("files", WriteCalls(p, Desired(doc)[p])) \o r
      BY <1>7, <1>8, <2>2, <3>1
    <3>3. Doing(Under("files", WriteCalls(p, Desired(doc)[p])) \o r)
      BY <1>4, <1>6, <1>7, <2>2, FileStarts
    <3> QED
      BY <3>2, <3>3
  <2> QED
    BY <1>3, <1>4, <2>1, <2>2
<1>10. Running'
  <2>1. PICK s : s = todo' /\ Doing(s)
    BY <1>9
  <2> QED
    BY <1>1, <2>1, DoingStays DEF Running
<1> QED
  BY <1>2, <1>10

LEMMA Skips ==
  ASSUME TreeOK, Running, FailUser
  PROVE  KeepsToItsOwn /\ KeepsSecrets /\ TreeOK' /\ Running'
<1>1. /\ UNCHANGED tree /\ UNCHANGED <<doc, ownedUsers, ownedHome, ownedFiles>>
      /\ todo # <<>> /\ Head(todo).action = "users" /\ todo' = AfterFailure(todo)
  BY DEF FailUser, owned
<1>2. PICK t : t = todo /\ Tail(t) \in Seq(Top)
  BY <1>1, TopNext
<1>3. PICK r : r = todo'
  OBVIOUS
<1>4. r \in Seq(Top)
  <2>1. r = Tail(t) \/ (Tail(t) # <<>> /\ r = Tail(Tail(t)))
    BY <1>1, <1>2, <1>3 DEF AfterFailure
  <2>2. Tail(t) # <<>> => Tail(Tail(t)) \in Seq(Top)
    BY <1>2, SeqHead
  <2> QED
    BY <1>2, <2>1, <2>2
<1>5. r \in Seq(Top)'
  BY <1>1, <1>4, SameStages
<1>6. Running'
  BY <1>3, <1>5 DEF Running, Doing
<1> QED
  BY <1>1, <1>6, NothingMoves

LEMMA Reloads ==
  ASSUME TreeOK, Running, Reload
  PROVE  KeepsToItsOwn /\ KeepsSecrets /\ TreeOK' /\ Running'
<1>1. /\ UNCHANGED tree /\ UNCHANGED <<doc, ownedUsers, ownedHome, ownedFiles>>
      /\ todo # <<>> /\ Head(todo).do = "reload" /\ todo' = Tail(todo)
  BY DEF Reload, Now, Proceed, owned
<1>2. PICK t : t = todo /\ Tail(t) \in Seq(Top)
  BY <1>1, TopNext DEF Inner
<1>3. PICK r : r = Tail(t)
  OBVIOUS
<1>4. r \in Seq(Top)'
  BY <1>1, <1>2, <1>3, SameStages
<1>5. Running'
  BY <1>1, <1>2, <1>3, <1>4 DEF Running, Doing
<1> QED
  BY <1>1, <1>5, NothingMoves

LEMMA Begins ==
  ASSUME Base, TreeOK, StartApply
  PROVE  TreeOK' /\ Running'
<1>1. /\ UNCHANGED tree /\ UNCHANGED <<doc, ownedUsers, ownedHome, ownedFiles>>
      /\ todo' = StepsOf(doc, Planned(doc))
  BY DEF StartApply, owned
<1>2. PICK t : t = StepsOf(doc, Planned(doc))
  OBVIOUS
<1>3. t \in Seq(Top)'
  BY <1>1, <1>2, AllPlanned, SameStages
<1>4. TreeOK'
  BY <1>1, NothingMoves
<1> QED
  BY <1>1, <1>2, <1>3, <1>4 DEF Running, Doing

-----------------------------------------------------------------------------
(***************************************************************************)
(* What is done between applies                                            *)
(***************************************************************************)

LEMMA HandsOff ==
  ASSUME TreeOK, HandFile
  PROVE  TreeOK'
<1>1. PICK p \in DOMAIN tree \cap (HomePaths \cup EtcPaths) :
        \/ tree' = Without({p})
        \/ p # Crypttab /\ tree' = Put(p, Link("outside"))
        \/ ~IsLink(p) /\ tree' = Put(p, [tree[p] EXCEPT !.content = {"by-hand"}, !.private = FALSE])
        \/ p \in EtcPaths /\ tree' = [Without({p}) EXCEPT ![EtcDir(p)] = Link("nowhere")]
        \/ p \in HomePaths /\ tree' = [Without({p}) EXCEPT ![Parent(p)] = Link("outside")]
  BY Zenon DEF HandFile
<1>2. \A q \in DOMAIN tree : IsNode(tree[q])
  BY DEF TreeOK
<1>3. \A q \in {Fstab, Crypttab} : q \in DOMAIN tree => tree[q].kind # "link"
  BY DEF TreeOK, IsLink
<1>4. \A to : IsNode(Link(to))
  BY Nodes
<1>5. p # Fstab
  BY PathAssumption
<1>6. ASSUME NEW x, NEW to, x \notin {Fstab, Crypttab}, tree' = [Without({p}) EXCEPT ![x] = Link(to)]
      PROVE  TreeOK'
  <2>1. /\ \A q \in DOMAIN tree' : q \in DOMAIN tree
        /\ \A q \in DOMAIN tree' : q # x => tree'[q] = tree[q]
        /\ x \in DOMAIN tree' => tree'[x] = Link(to)
    BY <1>6 DEF Without
  <2> QED
    BY <1>2, <1>3, <1>4, <1>6, <2>1 DEF TreeOK, IsLink
<1>7. CASE tree' = Without({p})
  BY <1>2, <1>3, <1>7 DEF Without, TreeOK, IsLink
<1>8. CASE p # Crypttab /\ tree' = Put(p, Link("outside"))
  <2>1. PICK node : node = Link("outside")
    OBVIOUS
  <2>2. tree' = Put(p, node) /\ IsNode(node)
    BY <1>4, <1>8, <2>1
  <2> QED
    BY <1>2, <1>3, <1>5, <1>8, <2>2 DEF Put, TreeOK, IsLink
<1>9. CASE ~IsLink(p) /\ tree' = Put(p, [tree[p] EXCEPT !.content = {"by-hand"}, !.private = FALSE])
  <2>1. PICK n : n = tree[p]
    OBVIOUS
  <2>2. PICK node : node = [n EXCEPT !.content = {"by-hand"}, !.private = FALSE]
    OBVIOUS
  <2>3. IsNode(n)
    BY <1>2, <2>1
  <2>4. IsNode(node) /\ node.kind = n.kind
    BY <2>2, <2>3, NodeChanges
  <2>5. tree' = Put(p, node) /\ node.kind # "link"
    BY <1>9, <2>1, <2>2, <2>4 DEF IsLink
  <2> QED
    BY <1>2, <1>3, <2>4, <2>5 DEF Put, TreeOK, IsLink
<1>10. CASE p \in EtcPaths /\ tree' = [Without({p}) EXCEPT ![EtcDir(p)] = Link("nowhere")]
  <2>1. EtcDir(p) \notin {Fstab, Crypttab}
    BY <1>10, PathAssumption
  <2> QED
    BY <1>6, <1>10, <2>1
<1>11. CASE p \in HomePaths /\ tree' = [Without({p}) EXCEPT ![Parent(p)] = Link("outside")]
  <2>1. PICK above : above = Ancestors(p)
    OBVIOUS
  <2>2. above \in Seq(HomeDirs \ {Fstab, Crypttab}) /\ above # <<>>
    BY <1>11, <2>1, PathAssumption
  <2>3. Len(above) \in 1 .. Len(above)
    BY <2>2, LenProperties, EmptySeq
  <2>4. above[Len(above)] \in HomeDirs \ {Fstab, Crypttab}
    BY <2>2, <2>3, LenProperties
  <2>5. Parent(p) \notin {Fstab, Crypttab}
    BY <2>1, <2>4 DEF Parent, Last
  <2> QED
    BY <1>6, <1>11, <2>5
<1> QED
  BY <1>1, <1>7, <1>8, <1>9, <1>10, <1>11

LEMMA TakenAway ==
  ASSUME TreeOK, NEW paths, tree' = Without(paths)
  PROVE  TreeOK'
BY DEF TreeOK, IsLink, Without

LEMMA CapturedDocument ==
  ASSUME Base, Sync
  PROVE  /\ DocumentOK(doc') /\ (PlainDoc(doc) => PlainDoc(doc'))
         /\ IsFiniteSet(ownedUsers') /\ ownedHome' \subseteq HomePaths /\ ownedFiles' \subseteq EtcPaths
<1>1. DocumentOK(doc) /\ IsFiniteSet(DOMAIN accounts)
  BY DEF Base
<1>2. PICK users, home, files :
        /\ users = CapturedUsers(doc.users) /\ home = CapturedHome(doc.home) /\ files = CapturedFiles(doc)
  OBVIOUS
<1>3. doc' = [doc EXCEPT !.users = users, !.home = home, !.files = files]
  BY <1>2 DEF Sync
<1>4. /\ {"users", "home", "files", "dracut"} \subseteq DOMAIN doc'
      /\ doc'.users = users /\ doc'.home = home /\ doc'.files = files /\ doc'.dracut = doc.dracut
  BY <1>1, <1>3 DEF DocumentOK
<1>5. IsFiniteSet(DOMAIN users)
  <2>1. /\ IsFiniteSet(DeclaredNonRoot(doc.users)) /\ IsFiniteSet(ActualUsers)
    BY <1>1, FS_Subset DEF DocumentOK, DeclaredNonRoot, ActualUsers
  <2>2. IsFiniteSet({RootName}) /\ IsFiniteSet({})
    BY FS_EmptySet, FS_Singleton
  <2>4. DOMAIN users = (DeclaredNonRoot(doc.users) \cup ActualUsers)
                          \cup (IF accounts[RootName].password # Locked THEN {RootName} ELSE {})
    BY <1>2 DEF CapturedUsers
  <2>5. IsFiniteSet(DeclaredNonRoot(doc.users) \cup ActualUsers)
    BY <2>1, FS_Union
  <2>6. IsFiniteSet(IF accounts[RootName].password # Locked THEN {RootName} ELSE {})
    BY <2>2
  <2>7. IsFiniteSet((DeclaredNonRoot(doc.users) \cup ActualUsers)
                       \cup (IF accounts[RootName].password # Locked THEN {RootName} ELSE {}))
    BY <2>5, <2>6, FS_Union
  <2> QED
    BY <2>4, <2>7
<1>6. DOMAIN home \subseteq HomePaths
  <2>1. DOMAIN doc.home \subseteq HomePaths /\ ownedHome \subseteq HomePaths
    BY <1>1 DEF Base, DocumentOK
  <2> QED
    BY <1>2, <2>1 DEF CapturedHome, ActualHome
<1>7. /\ DOMAIN files \subseteq EtcPaths
      /\ \A p \in DOMAIN files : files[p].private <=> (p \in DOMAIN doc.files /\ doc.files[p].private)
  <2>1. DOMAIN doc.files \subseteq EtcPaths /\ Discovered \cup {Environment} \subseteq EtcPaths
    BY <1>1, PathAssumption DEF DocumentOK
  <2>2. CapturedEnvironment(doc) \subseteq EtcPaths
    BY <2>1 DEF CapturedEnvironment
  <2>3. Found \subseteq EtcPaths
    BY <2>1 DEF Found
  <2>4. DOMAIN files = ((DOMAIN doc.files \ {Environment}) \cup Found) \cup CapturedEnvironment(doc)
    BY <1>2 DEF CapturedFiles
  <2>5. \A p \in DOMAIN files : files[p].private = (p \in DOMAIN doc.files /\ doc.files[p].private)
    BY <1>2 DEF CapturedFiles
  <2> QED
    BY <2>1, <2>2, <2>3, <2>4, <2>5
<1>8. DocumentOK(doc')
  BY <1>4, <1>5, <1>6, <1>7 DEF DocumentOK
<1>9. PlainDoc(doc) => PlainDoc(doc')
  BY <1>4, <1>7 DEF PlainDoc
<1>10. IsFiniteSet(ownedUsers')
  <2>1. ownedUsers' \subseteq DOMAIN accounts
    BY DEF Sync, Kept, ActualUsers
  <2> QED
    BY <1>1, <2>1, FS_Subset
<1>11. ownedHome' \subseteq HomePaths /\ ownedFiles' \subseteq EtcPaths
  BY <1>1 DEF Sync, Kept, ActualHome, ActualFiles, Desired, DocumentOK
<1> QED
  BY <1>8, <1>9, <1>10, <1>11

LEMMA ApplyKeepsBase ==
  ASSUME Base, NEW done, Record(done), UNCHANGED <<docs, doc, accounts>>
  PROVE  Base'
<1>1. DocumentOK(doc)
  BY DEF Base
<1>2. IsFiniteSet(ownedUsers')
  <2>1. IsFiniteSet(DeclaredNonRoot(doc.users))
    BY <1>1, FS_Subset DEF DocumentOK, DeclaredNonRoot
  <2> QED
    BY <2>1 DEF Record, Base
<1>3. ownedHome' \subseteq HomePaths /\ ownedFiles' \subseteq EtcPaths
  BY <1>1 DEF Record, Base, DocumentOK, Desired
<1> QED
  BY <1>1, <1>2, <1>3 DEF Base, DocumentOK

LEMMA AccountsStayFinite ==
  ASSUME Base, UserCommand \/ HandAccount
  PROVE  IsFiniteSet(DOMAIN accounts')
<1>1. IsFiniteSet(DOMAIN accounts)
  BY DEF Base
<1>2. \A name : IsFiniteSet(DOMAIN accounts \cup {name}) /\ IsFiniteSet(DOMAIN accounts \ {name})
  BY <1>1, FS_AddElement, FS_RemoveElement
<1>3. \/ \E name : DOMAIN accounts' = DOMAIN accounts \cup {name}
      \/ DOMAIN accounts' = DOMAIN accounts
      \/ \E name : DOMAIN accounts' = DOMAIN accounts \ {name}
  <2>1. CASE UserCommand
    <3>1. \/ Useradd(doc.users, Path) \/ Usermod(doc.users, Path)
          \/ Chpasswd(doc.users, Path) \/ Userdel(Path)
      BY <2>1 DEF UserCommand
    <3> QED
      BY <3>1 DEF Useradd, Usermod, Chpasswd, Userdel
  <2>2. CASE HandAccount
    <3>1. \/ DOMAIN accounts' = DOMAIN accounts \cup {"eve"}
          \/ \E name : Userdel(name)
      BY <2>2 DEF HandAccount
    <3> QED
      BY <3>1 DEF Userdel
  <2> QED
    BY <2>1, <2>2
<1> QED
  BY <1>1, <1>2, <1>3

Inv == Base /\ TreeOK /\ (pc = "running" => Running)
PlainDocs == PlainDoc(doc) /\ \A d \in docs : PlainDoc(d)

LEMMA BaseSame ==
  ASSUME Base, UNCHANGED <<docs, accounts, ownedUsers, ownedHome, ownedFiles>>, doc' = doc \/ doc' \in docs
  PROVE  Base'
BY DEF Base, DocumentOK

LEMMA InitInv ==
  ASSUME Init
  PROVE  Inv
<1>1. PICK s \in Scenarios :
        /\ docs = s.docs /\ doc \in s.docs /\ tree = s.tree /\ accounts = s.accounts
        /\ ownedUsers = {} /\ ownedHome = {} /\ ownedFiles = {} /\ pc = "idle"
  BY Zenon DEF Init
<1>2. Base
  BY <1>1, ScenarioAssumption, FS_EmptySet DEF Base
<1>3. TreeOK
  BY <1>1, ScenarioAssumption DEF TreeOK, IsLink, IsNode
<1> QED
  BY <1>1, <1>2, <1>3 DEF Inv

\* A step of an apply.
LEMMA ApplySteps ==
  ASSUME Inv, Next, pc = "running"
  PROVE  /\ Inv' /\ KeepsToItsOwn /\ (SwapLine \notin Secrets /\ PlainDoc(doc) => KeepsSecrets)
         /\ UNCHANGED <<docs, doc>>
<1>1. Base /\ TreeOK /\ Running
  BY DEF Inv
<1>2. CASE Finish \/ RaiseUsers \/ Fail \/ Die
  <2>1. UNCHANGED tree /\ UNCHANGED <<docs, doc, accounts>> /\ pc' = "idle"
    BY <1>2 DEF Finish, RaiseUsers, Fail, Die, Stop
  <2>2. (\E done : Record(done)) \/ UNCHANGED <<ownedUsers, ownedHome, ownedFiles>>
    BY <1>2, Zenon DEF Finish, RaiseUsers, Fail, Die, owned
  <2>3. Base'
    BY <1>1, <2>1, <2>2, ApplyKeepsBase, BaseSame
  <2> QED
    BY <1>1, <2>1, <2>3, NothingMoves DEF Inv
<1>3. CASE FailUser
  <2>1. UNCHANGED <<docs, doc, accounts, ownedUsers, ownedHome, ownedFiles>>
    BY <1>3 DEF FailUser, owned
  <2> QED
    BY <1>1, <1>3, <2>1, BaseSame, Skips DEF Inv
<1>4. CASE UserCommand
  <2>1. UNCHANGED <<docs, doc, ownedUsers, ownedHome, ownedFiles>>
    BY <1>4 DEF UserCommand, Same, owned
  <2>2. Base'
    BY <1>1, <1>4, <2>1, AccountsStayFinite DEF Base, DocumentOK
  <2> QED
    BY <1>1, <1>4, <2>1, <2>2, Commands DEF Inv
<1>5. CASE StartWrite
  <2>1. UNCHANGED <<docs, doc, accounts, ownedUsers, ownedHome, ownedFiles>>
    BY <1>5 DEF StartWrite, Same, owned
  <2> QED
    BY <1>1, <1>5, <2>1, BaseSame, Starts DEF Inv
<1>6. CASE FileCall
  <2>1. UNCHANGED <<docs, doc, accounts, ownedUsers, ownedHome, ownedFiles>>
    BY <1>6 DEF FileCall, Same, owned
  <2> QED
    BY <1>1, <1>6, <2>1, BaseSame, FileCalls DEF Inv
<1>7. CASE Reload
  <2>1. UNCHANGED <<docs, doc, accounts, ownedUsers, ownedHome, ownedFiles>>
    BY <1>7 DEF Reload, owned
  <2> QED
    BY <1>1, <1>7, <2>1, BaseSame, Reloads DEF Inv
<1>8. ~StartApply /\ ~EditDoc /\ ~Sync /\ ~HandFile /\ ~HandRepair /\ ~HandAccount
  BY DEF StartApply, EditDoc, Sync, HandFile, HandRepair, HandAccount, Idle
<1> QED
  BY <1>2, <1>3, <1>4, <1>5, <1>6, <1>7, <1>8 DEF Next

\* A step between applies.
LEMMA IdleSteps ==
  ASSUME Inv, Next, pc # "running"
  PROVE  Inv' /\ (PlainDocs => PlainDocs')
<1>1. Base /\ TreeOK
  BY DEF Inv
<1>2. CASE StartApply
  <2>1. UNCHANGED <<docs, doc, accounts, ownedUsers, ownedHome, ownedFiles>>
    BY <1>2 DEF StartApply, owned
  <2> QED
    BY <1>1, <1>2, <2>1, BaseSame, Begins DEF Inv, PlainDocs
<1>3. CASE EditDoc
  <2>1. UNCHANGED <<docs, accounts, ownedUsers, ownedHome, ownedFiles>> /\ doc' \in docs /\ UNCHANGED tree
        /\ pc' = "idle"
    BY <1>3 DEF EditDoc, Idle, owned
  <2> QED
    BY <1>1, <2>1, BaseSame, NothingMoves DEF Inv, PlainDocs
<1>4. CASE Sync
  <2>1. UNCHANGED <<docs, accounts>> /\ UNCHANGED tree /\ pc' = "idle"
    BY <1>4 DEF Sync, Idle
  <2>2. /\ DocumentOK(doc') /\ (PlainDoc(doc) => PlainDoc(doc'))
        /\ IsFiniteSet(ownedUsers') /\ ownedHome' \subseteq HomePaths /\ ownedFiles' \subseteq EtcPaths
    BY <1>1, <1>4, CapturedDocument
  <2>3. Base'
    BY <1>1, <2>1, <2>2 DEF Base, DocumentOK
  <2>4. TreeOK'
    BY <1>1, <2>1, NothingMoves
  <2>5. PlainDocs => PlainDocs'
    BY <2>1, <2>2 DEF PlainDocs, PlainDoc
  <2> QED
    BY <2>1, <2>3, <2>4, <2>5 DEF Inv
<1>5. CASE HandFile \/ HandRepair
  <2>1. UNCHANGED <<docs, doc, accounts, ownedUsers, ownedHome, ownedFiles>> /\ pc' = "idle"
    BY <1>5 DEF HandFile, HandRepair, Idle, owned
  <2>2. TreeOK'
    <3>1. HandRepair => \E paths : tree' = Without(paths)
      BY Zenon DEF HandRepair
    <3> QED
      BY <1>1, <1>5, <3>1, HandsOff, TakenAway
  <2> QED
    BY <1>1, <2>1, <2>2, BaseSame DEF Inv, PlainDocs
<1>6. CASE HandAccount
  <2>1. UNCHANGED <<docs, doc, ownedUsers, ownedHome, ownedFiles>> /\ pc' = "idle"
    BY <1>6 DEF HandAccount, Idle, owned
  <2>2. Base'
    BY <1>1, <1>6, <2>1, AccountsStayFinite DEF Base, DocumentOK
  <2>3. TreeOK'
    <3>1. UNCHANGED tree \/ \E paths : tree' = Without(paths)
      BY <1>6, Zenon DEF HandAccount
    <3> QED
      BY <1>1, <3>1, NothingMoves, TakenAway
  <2> QED
    BY <2>1, <2>2, <2>3 DEF Inv, PlainDocs
<1>7. /\ ~Finish /\ ~RaiseUsers /\ ~Fail /\ ~Die /\ ~FailUser
      /\ ~UserCommand /\ ~StartWrite /\ ~FileCall /\ ~Reload
  BY DEF Finish, RaiseUsers, Fail, Die, FailUser, UserCommand, StartWrite, FileCall, Reload, Now
<1> QED
  BY <1>2, <1>3, <1>4, <1>5, <1>6, <1>7 DEF Next

LEMMA Stutters ==
  ASSUME Inv, UNCHANGED vars
  PROVE  Inv' /\ (PlainDocs => PlainDocs')
<1>1. /\ UNCHANGED <<tree, docs, doc, accounts, ownedUsers, ownedHome, ownedFiles>>
      /\ todo' = todo /\ pc' = pc
  BY DEF vars, owned
<1>2. Base' /\ TreeOK'
  BY <1>1, BaseSame, NothingMoves DEF Inv
<1>3. Running => Running'
  BY <1>1, DoingStays DEF Running
<1> QED
  BY <1>1, <1>2, <1>3 DEF Inv, PlainDocs

LEMMA InvHolds ==
  Spec => []Inv
<1>1. Init => Inv
  BY InitInv
<1>2. Inv /\ [Next]_vars => Inv'
  BY ApplySteps, IdleSteps, Stutters
<1> QED
  BY <1>1, <1>2, PTL DEF Spec

LEMMA DocumentsStayPlain ==
  ASSUME ComposesNoSecret
  PROVE  Spec => []PlainDocs
<1>1. Init => PlainDocs
  BY DEF Init, ComposesNoSecret, PlainDocs, PlainDoc
<1>2. Inv /\ PlainDocs /\ [Next]_vars => PlainDocs'
  <2> SUFFICES ASSUME Inv, PlainDocs, [Next]_vars
               PROVE  PlainDocs'
    OBVIOUS
  <2>1. CASE Next /\ pc = "running"
    BY <2>1, ApplySteps DEF PlainDocs, PlainDoc
  <2> QED
    BY <2>1, IdleSteps, Stutters
<1> QED
  BY <1>1, <1>2, InvHolds, PTL DEF Spec

(* Whatever an apply is asked to do and wherever it stops, none of its     *)
(* steps changes or removes anything but what is declared or owned.        *)
THEOREM OnlyItsOwn ==
  Spec => TouchesOnlyItsOwn
<1>1. Inv /\ [Next]_vars =>
        [pc = "running" =>
          \A p \in DOMAIN tree :
            /\ p \notin DOMAIN tree' =>
                    \/ p \in (ownedHome \cup ownedFiles) \ Shipped \/ (p \in Mine /\ IsLink(p))
                    \/ doc.purge /\ p \in Below(Path)
            /\ p \in DOMAIN tree' /\ tree'[p] # tree[p] =>
                    p \in Mine \/ (p \in HomeDirs /\ tree[p].owner = Root)]_vars
  <2> SUFFICES ASSUME Inv, Next, pc = "running"
               PROVE  KeepsToItsOwn
    BY DEF KeepsToItsOwn
  <2> QED
    BY ApplySteps
<1> QED
  BY <1>1, InvHolds, PTL DEF Spec, TouchesOnlyItsOwn

(* And none of them lets a secret be read in a file that the document      *)
(* wants private, whatever was there and wherever the apply dies.          *)
THEOREM SecretsAreKept ==
  ComposesNoSecret => (Spec => SecretsStayPrivate)
<1> SUFFICES ASSUME ComposesNoSecret
             PROVE  Spec => SecretsStayPrivate
  OBVIOUS
<1>1. Inv /\ PlainDocs /\ [Next]_vars =>
        [pc = "running" =>
          \A p \in DOMAIN doc.home \cup DOMAIN doc.files :
            (p \in DOMAIN doc.home /\ doc.home[p].private) \/ (p \in DOMAIN doc.files /\ doc.files[p].private)
              => (Shows(p, tree') => Shows(p, tree))]_vars
  <2> SUFFICES ASSUME Inv, PlainDocs, Next, pc = "running"
               PROVE  KeepsSecrets
    BY DEF KeepsSecrets
  <2>1. SwapLine \notin Secrets /\ PlainDoc(doc)
    BY DEF ComposesNoSecret, PlainDocs
  <2> QED
    BY <2>1, ApplySteps
<1> QED
  BY <1>1, InvHolds, DocumentsStayPlain, PTL DEF Spec, SecretsStayPrivate
=============================================================================
