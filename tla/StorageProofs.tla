--------------------------- MODULE StorageProofs ---------------------------
(***************************************************************************)
(* A disk that a document does not ask to erase keeps its filesystems, an  *)
(* encrypted volume keeps a way in, and what is declared to open it gets   *)
(* enrolled, and what is declared gets mounted, for any disk, any layout   *)
(* and any number of keyslots, keys, failures and deaths.                  *)
(*                                                                         *)
(* The first takes DiskInv: the partitions overlap nowhere, the number an  *)
(* apply gives its next partition is above every one it found, and no      *)
(* label of it leads to one it found.  The second takes OpensInv: the plan *)
(* removes a token only as long as a passphrase or a key file remains.     *)
(* The third takes SettleInv: what is enrolled and what the plan will      *)
(* still enrol outnumber what is declared and what it will still remove.   *)
(* The fourth takes MadeInv: the partitions made so far are where the      *)
(* apply believes them to be, or the last one is nowhere, and what is      *)
(* mounted is no deeper than what is still to be.                          *)
(***************************************************************************)
EXTENDS Storage, TLAPS, FiniteSetTheorems, SequenceTheorems, WellFoundedInduction

-----------------------------------------------------------------------------
(***************************************************************************)
(* Numbers                                                                 *)
(***************************************************************************)

\* Every non-empty set of naturals has a least element.
LEMMA LeastExists ==
  ASSUME NEW S, S \subseteq Nat, S # {}
  PROVE  \E x \in S : \A y \in S : x <= y
<1>1. PICK x \in S : \A y \in S : <<y, x>> \notin OpToRel(<, Nat)
  BY NatLessThanWellFounded, WFMin, Zenon
<1>2. x \in Nat /\ \A y \in S : y \in Nat /\ ~(y < x)
  BY <1>1 DEF OpToRel
<1> QED
  BY <1>2

\* A bounded one has a largest: its least upper bound.
LEMMA MaxOfBounded ==
  ASSUME NEW S, S \subseteq Nat, S # {}, NEW b \in Nat, \A y \in S : y <= b
  PROVE  Max(S) \in S /\ \A y \in S : y <= Max(S)
<1> DEFINE Bounds == {n \in Nat : \A y \in S : y <= n}
<1>1. PICK m \in Bounds : \A n \in Bounds : m <= n
  BY LeastExists
<1>2. m \in S
  <2> SUFFICES ASSUME m \notin S
               PROVE  FALSE
    OBVIOUS
  <2>1. PICK y \in S : TRUE
    OBVIOUS
  <2>2. m - 1 \in Nat /\ \A x \in S : x <= m - 1
    <3>1. m \in Nat /\ \A x \in S : x \in Nat /\ x <= m /\ x # m
      BY <1>1
    <3> QED
      BY <2>1, <3>1
  <2> QED
    BY <1>1, <2>2
<1>3. \E x \in S : \A y \in S : x >= y
  BY <1>1, <1>2
<1> QED
  BY <1>3 DEF Max

-----------------------------------------------------------------------------
(***************************************************************************)
(* The disk: its partitions do not overlap, and what an apply that may not *)
(* erase is about to write to is its own                                   *)
(***************************************************************************)

\* The labels between the decision to make a disk and its mounts.
Making == {"validate", "wipe", "label", "create", "format", "mkfs"}

\* The partitions no step of this apply made.
KeptNumbers == {n \in DOMAIN parts : ~parts[n].new}
KeptStarts == {parts[k].start : k \in KeptNumbers}

WorkType == [i : Nat, start : [at : Nat, pct : BOOLEAN], todo : SUBSET Nat]

DiskTypeOK ==
  /\ layout \in [wipe : BOOLEAN, parts : Seq(PartitionSpec)] /\ layout.parts # <<>>
  /\ parts \in [DOMAIN parts -> Extents] /\ DOMAIN parts \subseteq Nat
  /\ content \in [DOMAIN content -> Content]
  /\ work \in WorkType

TableSound ==
  /\ ~table => parts = <<>>
  /\ Disjoint(parts)
  /\ \E b \in Nat : \A k \in DOMAIN parts : k <= b

Working == pc \in {"format", "mkfs"} \/ (pc = "create" /\ work.i > 0)

\* An apply that may erase, or that was told there is nothing on the disk.
Careless == layout.wipe \/ outcome = "misled"

\* Where an apply goes that must not erase.
Careful ==
  /\ Working => work.i \in DOMAIN layout.parts
  /\ pc = "label" => layout.wipe
  /\ pc \in Making /\ ~Working => node = <<>>
  /\ Working /\ pc = "create" =>
        \E n \in Nat : work.todo = {n} /\ (~Careless => \A k \in KeptNumbers : k < n)
  /\ pc \in Making /\ ~Careless => /\ mapper \notin KeptStarts
                                   /\ \A l \in DOMAIN node : node[l] \notin KeptNumbers

DiskInv == DiskTypeOK /\ TableSound /\ Careful

LEMMA DiskInit == Init => DiskInv
<1> SUFFICES ASSUME Init
             PROVE  DiskInv
  OBVIOUS
<1>1. PICK d \in Disk0s : table = d.table /\ parts = d.parts /\ content = d.content
  BY DEF Init, InitDisk
<1>2. /\ layout \in [wipe : BOOLEAN, parts : Seq(PartitionSpec)] /\ layout.parts # <<>>
      /\ pc = "idle" /\ work = NoWork
  BY LayoutAssumption DEF Init, InitDisk
<1>3. /\ d.parts \in [DOMAIN d.parts -> Extents] /\ DOMAIN d.parts \subseteq 1 .. 128
      /\ d.content \in [DOMAIN d.content -> Content]
      /\ Disjoint(d.parts) /\ (~d.table => d.parts = <<>>)
  BY DiskImageAssumption, Zenon
<1>4. \A k \in DOMAIN parts : k \in Nat /\ k <= 128
  <2>1. DOMAIN parts \subseteq 1 .. 128
    BY <1>1, <1>3, Zenon
  <2> QED
    BY <2>1
<1>5. DiskTypeOK
  <2>1. work \in WorkType
    BY <1>2 DEF NoWork, WorkType
  <2>2. parts \in [DOMAIN parts -> Extents]
    BY <1>1, <1>3
  <2>3. DOMAIN parts \subseteq Nat
    BY <1>4
  <2>4. content \in [DOMAIN content -> Content]
    BY <1>1, <1>3
  <2> QED
    BY <1>2, <2>1, <2>2, <2>3, <2>4 DEF DiskTypeOK
<1>6. TableSound
  <2>1. Disjoint(parts)
    BY <1>1, <1>3
  <2> QED
    BY <1>1, <1>3, <1>4, <2>1 DEF TableSound
<1>7. Careful
  BY <1>2 DEF Careful, Working, Making
<1> QED
  BY <1>5, <1>6, <1>7 DEF DiskInv

\* A step that ends or begins nothing on the disk.
LEMMA Outside ==
  ASSUME DiskInv, UNCHANGED <<table, parts, content>>, pc' \notin Making,
         layout' = layout \/ layout' = [layout EXCEPT !.wipe = FALSE],
         work' \in WorkType
  PROVE  DiskInv'
<1>1. DiskTypeOK'
  BY DEF DiskInv, DiskTypeOK
<1>2. TableSound'
  BY DEF DiskInv, TableSound
<1>3. Careful'
  BY DEF Careful, Working, Making
<1> QED
  BY <1>1, <1>2, <1>3 DEF DiskInv

LEMMA NoWorkType == NoWork \in WorkType
BY DEF NoWork, WorkType

LEMMA DiskUntouched ==
  ASSUME DiskInv, UNCHANGED <<layout, table, parts, content, mapper, pc, work, node, outcome>>
  PROVE  DiskInv'
BY DEF DiskInv, DiskTypeOK, TableSound, Careful, Working, Making, Careless, KeptStarts, KeptNumbers

LEMMA DiskLuks ==
  ASSUME DiskInv, LuksSteps
  PROVE  DiskInv'
<1> USE NoWorkType DEF disk, EndWith, Raise, RaiseLuks, Advance, Running
<1>1. UNCHANGED <<layout, table, parts, content, mapper>>
  BY DEF LuksSteps, NeedsVolume, DropKeyfile, AlreadySkipped, EnrolToken, SkipToken, AbortToken,
     FinishApply, CreateKeyfile, EnrollKeyfile, WipeToken
<1>2. /\ pc = "done" /\ pc' \in {"done", "idle"}
      /\ work' = work \/ work' = NoWork
  BY DEF LuksSteps, NeedsVolume, DropKeyfile, AlreadySkipped, EnrolToken, SkipToken, AbortToken,
     FinishApply, CreateKeyfile, EnrollKeyfile, WipeToken, TokenInstall
<1> QED
  BY <1>1, <1>2, Outside DEF DiskInv, DiskTypeOK, Making

LEMMA EmptyTable == Disjoint(<<>>) /\ <<>> \in [DOMAIN <<>> -> Extents] /\ DOMAIN <<>> = {}
BY DEF Disjoint

\* Where _create_partitions begins: behind the last partition, with a number above
\* all of them.
LEMMA NextIsFree ==
  ASSUME DiskInv, NEW list \in {parts, <<>>}
  PROVE  /\ NextStart(list) \in [at : Nat, pct : BOOLEAN]
         /\ NextNumber(list) \in Nat \ {0} /\ \A k \in DOMAIN list : k < NextNumber(list)
<1>1. PICK b \in Nat : \A k \in DOMAIN list : k \in Nat /\ k <= b
  <2>1. PICK b \in Nat : \A k \in DOMAIN parts : k <= b
    BY DEF DiskInv, TableSound
  <2> QED
    BY <2>1, EmptyTable DEF DiskInv, DiskTypeOK
<1>2. \A k \in DOMAIN list : list[k].end \in 0 .. DiskSize
  BY EmptyTable DEF DiskInv, DiskTypeOK, Extents
<1>3. /\ Max({0} \cup DOMAIN list) \in Nat
      /\ \A k \in DOMAIN list : k <= Max({0} \cup DOMAIN list)
  <2> DEFINE S == {0} \cup DOMAIN list
  <2>1. S \subseteq Nat /\ S # {} /\ \A k \in S : k <= b
    BY <1>1
  <2> HIDE DEF S
  <2>2. Max(S) \in S /\ \A k \in S : k <= Max(S)
    BY <2>1, MaxOfBounded
  <2> QED
    BY <2>1, <2>2 DEF S
<1>4. Max({10} \cup {list[k].end : k \in DOMAIN list}) \in Nat
  <2> DEFINE S == {10} \cup {list[k].end : k \in DOMAIN list}
             top == IF DiskSize < 10 THEN 10 ELSE DiskSize
  <2>1. S \subseteq Nat /\ S # {} /\ top \in Nat /\ \A k \in S : k <= top
    BY <1>2, DiskAssumption
  <2> HIDE DEF S, top
  <2>2. Max(S) \in S
    BY <2>1, MaxOfBounded
  <2> QED
    BY <2>1, <2>2 DEF S
<1>5. NextStart(list) \in [at : Nat, pct : BOOLEAN]
  BY <1>4 DEF NextStart
<1>6. NextNumber(list) \in Nat \ {0} /\ \A k \in DOMAIN list : k < NextNumber(list)
  <2> DEFINE top == Max({0} \cup DOMAIN list)
  <2>1. NextNumber(list) = top + 1 /\ top \in Nat /\ \A k \in DOMAIN list : k \in Nat /\ k <= top
    BY <1>1, <1>3 DEF NextNumber
  <2> HIDE DEF top
  <2> QED
    BY <2>1
<1> QED
  BY <1>5, <1>6

\* parted gives a partition a number no other has.
LEMMA FreeNumberIsFree ==
  ASSUME DiskInv
  PROVE  FreeNumber \in Nat /\ FreeNumber \notin DOMAIN parts
<1> DEFINE S == (1 .. NextNumber(parts)) \ DOMAIN parts
<1>1. NextNumber(parts) \in Nat \ {0} /\ \A k \in DOMAIN parts : k < NextNumber(parts)
  BY NextIsFree
<1>2. S \subseteq Nat /\ NextNumber(parts) \in S
  BY <1>1
<1> HIDE DEF S
<1>3. \E x \in S : \A y \in S : x <= y
  BY <1>2, LeastExists
<1>4. Min(S) \in S
  BY <1>3 DEF Min
<1> QED
  BY <1>2, <1>4 DEF FreeNumber, S

\* The steps that leave the disk as it is.
LEMMA DiskRests ==
  ASSUME DiskInv,
         \/ Validate \/ KeepTable \/ EnableSwap
         \/ \E done \in BOOLEAN : MountPartition(done)
         \/ \E numbered, placed \in BOOLEAN : BeginPartitions(numbered, placed)
         \/ Die \/ PowerCut
  PROVE  DiskInv'
<1> USE NoWorkType DEF disk, EndWith, Raise
<1>1. CASE Validate
  <2>1. CASE pc' = "wipe" /\ UNCHANGED <<work, node, outcome>>
    <3>1. pc = "validate" /\ UNCHANGED <<layout, table, parts, content, mapper, outcome>>
      BY <1>1, <2>1 DEF Validate
    <3> QED
      BY <2>1, <3>1 DEF DiskInv, DiskTypeOK, TableSound, Careful, Working, Making, Careless,
         KeptStarts, KeptNumbers
  <2>2. CASE pc' = "idle" /\ work' = NoWork
    BY <1>1, <2>2, Outside DEF Validate, Making
  <2> QED
    BY <1>1, <2>1, <2>2 DEF Validate
<1>2. CASE KeepTable
  <2>1. /\ pc = "wipe" /\ pc' = "create" /\ work' = [NoWork EXCEPT !.i = 0]
        /\ UNCHANGED <<layout, table, parts, content, mapper, node, outcome>>
    BY <1>2 DEF KeepTable, book
  <2>2. work' \in WorkType /\ work'.i = 0
    BY <2>1 DEF NoWork, WorkType
  <2> QED
    BY <2>1, <2>2 DEF DiskInv, DiskTypeOK, TableSound, Careful, Working, Making, Careless,
       KeptStarts, KeptNumbers
<1>3. ASSUME NEW numbered \in BOOLEAN, NEW placed \in BOOLEAN, BeginPartitions(numbered, placed)
      PROVE  DiskInv'
  <2> DEFINE start == NextStart(IF placed THEN parts ELSE <<>>)
             number == NextNumber(IF numbered THEN parts ELSE <<>>)
  <2>1. start \in [at : Nat, pct : BOOLEAN] /\ number \in Nat
    BY NextIsFree
  <2>2. /\ pc = "create" /\ work.i = 0 /\ ~Working
        /\ UNCHANGED <<layout, table, parts, content, mapper>>
    BY <1>3 DEF BeginPartitions, Working
  <2>3. CASE pc' = "idle" /\ work' = NoWork
    BY <2>2, <2>3, Outside DEF Making
  <2>4. CASE /\ work' = [i |-> 1, start |-> start, todo |-> {number}]
             /\ outcome' = IF numbered THEN outcome ELSE "misled"
             /\ UNCHANGED <<pc, node>>
    <3>1. node = <<>> /\ node' = <<>>
      BY <2>2, <2>4 DEF DiskInv, Careful, Making
    <3>2. ~Careless' => \A k \in KeptNumbers' : k < number
      <4> SUFFICES ASSUME ~Careless'
                   PROVE  \A k \in KeptNumbers' : k < number
        OBVIOUS
      <4>1. numbered
        BY <2>4 DEF Careless
      <4>2. number = NextNumber(parts)
        BY <4>1
      <4>3. \A k \in DOMAIN parts : k < NextNumber(parts)
        BY NextIsFree
      <4> HIDE DEF number
      <4> QED
        BY <2>2, <4>2, <4>3 DEF KeptNumbers
    <3> HIDE DEF start, number
    <3>3. DiskTypeOK' /\ TableSound'
      BY <2>1, <2>2, <2>4 DEF DiskInv, DiskTypeOK, TableSound, WorkType
    <3>4. 1 \in DOMAIN layout.parts
      BY DEF DiskInv, DiskTypeOK
    <3>5. ~Careless' => ~Careless
      BY <2>2, <2>4 DEF Careless
    <3>6. Careful'
      BY <2>1, <2>2, <2>4, <3>1, <3>2, <3>4, <3>5 DEF DiskInv, Careful, Working, Making, KeptStarts,
         KeptNumbers
    <3> QED
      BY <3>3, <3>6 DEF DiskInv
  <2> QED
    BY <1>3, <2>3, <2>4 DEF BeginPartitions
<1>4. CASE EnableSwap
  BY <1>4, Outside DEF EnableSwap, Making
<1>5. ASSUME NEW done \in BOOLEAN, MountPartition(done)
      PROVE  DiskInv'
  <2>1. /\ UNCHANGED <<layout, table, parts, content>> /\ pc = "mount"
        /\ \/ work' = NoWork /\ pc' = "idle"
           \/ pc' = pc /\ work' = [work EXCEPT !.todo = @ \ {NextToMount}]
    BY <1>5 DEF MountPartition
  <2>2. work' \in WorkType
    BY <2>1 DEF DiskInv, DiskTypeOK, WorkType
  <2> QED
    BY <2>1, <2>2, Outside DEF Making
<1>6. CASE Die \/ PowerCut
  BY <1>6, Outside DEF Die, PowerCut, Making
<1> QED
  BY <1>1, <1>2, <1>3, <1>4, <1>5, <1>6

\* The old table goes, and maybe a new one comes.
LEMMA DiskTable ==
  ASSUME DiskInv, \E done \in BOOLEAN : Wipe(done) \/ CreateTable(done)
  PROVE  DiskInv'
<1>1. /\ UNCHANGED <<layout, content, mapper, node, outcome>>
      /\ \/ UNCHANGED <<table, parts>>
         \/ parts' = <<>>
  BY DEF Wipe, CreateTable
<1>2. \/ pc = "wipe" /\ pc' = "label" /\ layout.wipe /\ work' = work
      \/ pc \in {"label", "wipe"} /\ pc' = "create" /\ work' = [NoWork EXCEPT !.i = 0]
  BY DEF Wipe, CreateTable
<1>3. [NoWork EXCEPT !.i = 0] \in WorkType /\ [NoWork EXCEPT !.i = 0].i = 0
  BY DEF NoWork, WorkType
<1>4. DiskTypeOK'
  BY <1>1, <1>2, <1>3, EmptyTable DEF DiskInv, DiskTypeOK
<1>5. TableSound'
  BY <1>1, EmptyTable DEF DiskInv, TableSound
<1>6. KeptNumbers' \subseteq KeptNumbers /\ KeptStarts' \subseteq KeptStarts
  BY <1>1, EmptyTable DEF KeptNumbers, KeptStarts
<1>7. ~Working' /\ node' = <<>>
  <2>1. pc \in {"wipe", "label"} /\ ~Working
    BY <1>2 DEF Working
  <2>2. node = <<>>
    BY <2>1 DEF DiskInv, Careful, Making
  <2>3. pc' = "label" \/ (pc' = "create" /\ work'.i = 0)
    BY <1>2, <1>3
  <2> QED
    BY <1>1, <2>2, <2>3 DEF Working
<1>8. Careful'
  BY <1>1, <1>2, <1>6, <1>7 DEF DiskInv, Careful, Careless, Making
<1> QED
  BY <1>4, <1>5, <1>8 DEF DiskInv

-----------------------------------------------------------------------------
(***************************************************************************)
(* Partitions                                                              *)
(***************************************************************************)

\* _calculate_partition_end, from a position on, returns a position or raises.
LEMMA PartitionEndType ==
  ASSUME NEW start \in [at : Nat, pct : BOOLEAN], NEW size \in Size
  PROVE  PartitionEnd(start, size) \in [at : Nat, pct : BOOLEAN] \cup {Bad}
<1>1. size.n \in Nat /\ size.unit \in {"GiB", "MiB", "GB", "MB", "%", "rest"} /\ start.at \in Nat
  BY DEF Size
<1>2. CASE size.unit = "rest"
  <2>1. PartitionEnd(start, size) = [at |-> DiskSize, pct |-> TRUE]
    BY <1>2 DEF PartitionEnd, IsFixed
  <2> QED
    BY <2>1, DiskAssumption
<1>3. CASE size.unit = "%"
  <2>1. (DiskSize * size.n) \div 100 \in Nat
    BY <1>1, DiskAssumption
  <2>2. PartitionEnd(start, size) = [at |-> (DiskSize * size.n) \div 100, pct |-> TRUE]
    BY <1>3 DEF PartitionEnd, IsFixed
  <2> QED
    BY <2>1, <2>2
<1>4. CASE IsFixed(size)
  <2>1. Length(size) \in Nat
    BY <1>1, <1>4 DEF IsFixed, Length, GiB
  <2>2. ASSUME NEW e \in Nat
        PROVE  AsPrinted(e) \in Nat
    BY DEF AsPrinted, NearestTenthGiB, GiB
  <2>3. PartitionEnd(start, size) =
          IF start.pct THEN Bad ELSE [at |-> AsPrinted(start.at + Length(size)), pct |-> FALSE]
    BY <1>4 DEF PartitionEnd, IsFixed
  <2> QED
    BY <1>1, <2>1, <2>2, <2>3
<1> QED
  BY <1>1, <1>2, <1>3, <1>4 DEF IsFixed

\* A new partition takes a free number and a free extent.
LEMMA PartitionAdded ==
  ASSUME DiskInv, NEW e \in Extents, e.new, e.start < e.end,
         \A k \in DOMAIN parts : e.end <= parts[k].start \/ parts[k].end <= e.start,
         table' = table, table, parts' = Put(parts, FreeNumber, e)
  PROVE  /\ TableSound'
         /\ parts' \in [DOMAIN parts' -> Extents] /\ DOMAIN parts' \subseteq Nat
         /\ KeptNumbers' = KeptNumbers /\ KeptStarts' = KeptStarts
<1> DEFINE n == FreeNumber
<1>1. n \in Nat /\ n \notin DOMAIN parts /\ \A k \in DOMAIN parts : k \in Nat
  BY FreeNumberIsFree DEF DiskInv, DiskTypeOK
<1>2. /\ DOMAIN parts' = DOMAIN parts \cup {n}
      /\ parts'[n] = e /\ \A k \in DOMAIN parts : parts'[k] = parts[k]
      /\ parts' = [k \in DOMAIN parts' |-> parts'[k]]
  BY <1>1 DEF Put
<1> HIDE DEF n
<1>3. parts' \in [DOMAIN parts' -> Extents] /\ DOMAIN parts' \subseteq Nat
  BY <1>1, <1>2 DEF DiskInv, DiskTypeOK
<1>4. Disjoint(parts')
  BY <1>1, <1>2, <1>3 DEF DiskInv, TableSound, Disjoint
<1>5. \E b \in Nat : \A k \in DOMAIN parts' : k <= b
  <2>1. PICK b \in Nat : \A k \in DOMAIN parts : k <= b
    BY DEF DiskInv, TableSound
  <2>2. b + n \in Nat /\ \A k \in DOMAIN parts' : k <= b + n
    BY <1>1, <1>2, <2>1
  <2> QED
    BY <2>2
<1>6. KeptNumbers' = KeptNumbers
  BY <1>1, <1>2 DEF KeptNumbers
<1>7. KeptStarts' = KeptStarts
  BY <1>2, <1>6 DEF KeptStarts, KeptNumbers
<1> QED
  BY <1>1, <1>3, <1>4, <1>5, <1>6, <1>7 DEF TableSound

\* The partition that is being made, formatted or encrypted is in the document.
LEMMA PartitionDeclared ==
  ASSUME DiskInv, Working
  PROVE  layout.parts[work.i] \in PartitionSpec
BY DEF DiskInv, DiskTypeOK, Careful

\* After the last partition the first one is formatted; before, the next is made.
LEMMA NextPartition ==
  ASSUME DiskInv, Working
  PROVE  /\ 1 \in DOMAIN layout.parts
         /\ work.i # Len(layout.parts) => work.i + 1 \in DOMAIN layout.parts
BY DEF DiskInv, DiskTypeOK, Careful

LEMMA DiskCreate ==
  ASSUME DiskInv, NEW done \in BOOLEAN, CreatePartition(done)
  PROVE  DiskInv' /\ KeptStarts' = KeptStarts
<1> DEFINE p == layout.parts[work.i]
           end == PartitionEnd(work.start, p.size)
           e == [start |-> work.start.at, end |-> end.at, new |-> TRUE]
<1>1. pc = "create" /\ work.i > 0 /\ Working /\ UNCHANGED <<layout, table, content, mapper>>
  BY DEF CreatePartition, Working
<1>2. p \in PartitionSpec /\ work \in WorkType /\ work.start \in [at : Nat, pct : BOOLEAN]
  BY <1>1, PartitionDeclared DEF DiskInv, DiskTypeOK, WorkType
<1>3. end \in [at : Nat, pct : BOOLEAN] \cup {Bad}
  BY <1>2, PartitionEndType DEF PartitionSpec
<1>4. PICK n \in Nat : work.todo = {n} /\ (~Careless => \A k \in KeptNumbers : k < n)
  BY <1>1 DEF DiskInv, Careful
<1>5. Number = n
  BY <1>4 DEF Number
<1>6. CASE end = Bad
  <2>1. pc' = "idle" /\ work' = NoWork /\ parts' = parts
    BY <1>6 DEF CreatePartition, Raise, EndWith
  <2> QED
    BY <1>1, <2>1, NoWorkType, Outside DEF Making, KeptStarts, KeptNumbers
<1>7. CASE end # Bad
  <2>1. /\ \/ parts' = parts
           \/ /\ table /\ Acceptable(work.start, end)
              /\ parts' = Put(parts, FreeNumber, e)
        /\ node' = Put(node, p.label, n)
        /\ \/ pc' = "format" /\ work' = NoWork
           \/ /\ pc' = pc /\ work.i # Len(layout.parts)
              /\ work' = [i |-> work.i + 1, start |-> end, todo |-> {n + 1}]
        /\ outcome' = outcome
    BY <1>1, <1>5, <1>7 DEF CreatePartition
  <2> HIDE DEF p
  <2>2. /\ TableSound'
        /\ parts' \in [DOMAIN parts' -> Extents] /\ DOMAIN parts' \subseteq Nat
        /\ KeptNumbers' = KeptNumbers /\ KeptStarts' = KeptStarts
    <3>1. CASE parts' = parts
      BY <1>1, <3>1 DEF DiskInv, DiskTypeOK, TableSound, KeptNumbers, KeptStarts
    <3>2. CASE /\ table /\ Acceptable(work.start, end)
               /\ parts' = Put(parts, FreeNumber, e)
      <4> HIDE DEF end
      <4>1. /\ e.start < e.end /\ e.end <= DiskSize
            /\ \A k \in DOMAIN parts : e.end <= parts[k].start \/ parts[k].end <= e.start
        BY <3>2 DEF Acceptable
      <4>2. e \in Extents /\ e.new
        BY <1>2, <1>3, <1>7, <4>1, DiskAssumption DEF Extents
      <4> HIDE DEF e
      <4> QED
        BY <1>1, <3>2, <4>1, <4>2, PartitionAdded
    <3> QED
      BY <2>1, <3>1, <3>2
  <2>3. work' \in WorkType
    BY <1>2, <1>3, <1>7, <2>1, NoWorkType DEF WorkType
  <2>4. DiskTypeOK'
    BY <1>1, <2>2, <2>3 DEF DiskInv, DiskTypeOK
  <2>5. \A l \in DOMAIN node' : node'[l] = n \/ (l \in DOMAIN node /\ node'[l] = node[l])
    BY <2>1 DEF Put
  <2>6. Working' /\ work'.i \in DOMAIN layout.parts
    BY <1>1, <1>2, <2>1, NextPartition DEF Working, WorkType, NoWork
  <2>7. Careless' = Careless /\ (~Careless => n \notin KeptNumbers)
    BY <1>1, <1>4, <2>1 DEF KeptNumbers, Careless
  <2>8. pc' = "create" =>
          work'.todo = {n + 1} /\ (~Careless => \A k \in KeptNumbers' : k < n + 1)
    <3>1. KeptNumbers \subseteq Nat
      BY DEF KeptNumbers, DiskInv, DiskTypeOK
    <3>2. ~Careless => \A k \in KeptNumbers' : k < n + 1
      BY <1>4, <2>2, <3>1
    <3> QED
      BY <2>1, <3>2
  <2>9. Careful'
    <3>1. n + 1 \in Nat
      OBVIOUS
    <3>2. ~Careless => /\ mapper' \notin KeptStarts'
                       /\ \A l \in DOMAIN node' : node'[l] \notin KeptNumbers'
      BY <1>1, <2>2, <2>5, <2>7 DEF DiskInv, Careful, Making
    <3> QED
      BY <1>1, <2>1, <2>6, <2>7, <2>8, <3>1, <3>2 DEF Careful, Making
  <2> QED
    BY <2>2, <2>4, <2>9 DEF DiskInv
<1> QED
  BY <1>6, <1>7

-----------------------------------------------------------------------------
(***************************************************************************)
(* What is written to the disk                                             *)
(***************************************************************************)

\* The device of a partition that is being made is no partition dasik found.
LEMMA ExtentIsOwn ==
  ASSUME DiskInv, pc \in Making, ~Careless, NEW label, NEW s \in Extent(label)
  PROVE  s \notin KeptStarts
<1>1. /\ label \in DOMAIN node /\ node[label] \in DOMAIN parts
      /\ s = parts[node[label]].start
  BY DEF Extent
<1> DEFINE n == node[label]
<1>2. n \notin KeptNumbers
  BY <1>1 DEF DiskInv, Careful
<1> HIDE DEF n
<1>3. ASSUME NEW k \in KeptNumbers
      PROVE  parts[k].start # s
  <2>1. k \in DOMAIN parts /\ k # n /\ n \in DOMAIN parts
    BY <1>1, <1>2 DEF KeptNumbers, n
  <2>2. parts[k] \in Extents /\ parts[n] \in Extents
    BY <2>1 DEF DiskInv, DiskTypeOK
  <2>3. /\ parts[k].start < parts[k].end /\ parts[n].start < parts[n].end
        /\ parts[k].end <= parts[n].start \/ parts[n].end <= parts[k].start
    BY <2>1 DEF DiskInv, TableSound, Disjoint
  <2> QED
    BY <1>1, <2>2, <2>3 DEF Extents, n
<1> QED
  BY <1>3 DEF KeptStarts

LEMMA FreshType ==
  ASSUME NEW label \in Label \cup CryptLabels, NEW kind \in Kinds \cup {"luks"},
          NEW enc \in BOOLEAN
  PROVE  Fresh(label, kind, enc) \in Content
BY DEF Fresh, Content

LEMMA PutContent ==
  ASSUME DiskTypeOK, NEW at, NEW c \in Content, content' = Put(content, at, c)
  PROVE  /\ content' \in [DOMAIN content' -> Content]
         /\ \A s \in DOMAIN content : s # at => s \in DOMAIN content' /\ content'[s] = content[s]
BY DEF DiskTypeOK, Put

LEMMA Elements ==
  ASSUME NEW S, NEW seq \in Seq(S)
  PROVE  \A j \in DOMAIN seq : seq[j] \in S
OBVIOUS

Encrypted == \E s \in DOMAIN content : content[s].enc

\* What _format_partition writes, it writes to a device of its own.
Writes ==
  /\ UNCHANGED <<layout, table, parts>>
  /\ \/ content' = content
     \/ \E at : \E c \in Content :
           /\ content' = Put(content, at, c)
           /\ ~Careless => at \notin KeptStarts

LEMMA EncryptEffect ==
  ASSUME DiskInv, NEW formatted \in BOOLEAN, NEW opened \in BOOLEAN, Encrypt(formatted, opened)
  PROVE  /\ Writes /\ pc = "format" /\ pc' = "mkfs" /\ UNCHANGED <<work, node, outcome>>
         /\ mapper' = mapper \/ (~Careless => mapper' \notin KeptStarts)
<1> DEFINE at == CHOOSE s \in Extent(Partition.label) : TRUE
<1>1. /\ pc = "format" /\ pc' = "mkfs" /\ UNCHANGED <<layout, table, parts, work, node, outcome>>
      /\ formatted \/ opened => at \in Extent(Partition.label)
      /\ content' = IF formatted THEN Put(content, at, Fresh(NoLabel, "luks", TRUE)) ELSE content
      /\ mapper' = IF opened THEN at ELSE mapper
  BY DEF Encrypt
<1>2. (formatted \/ opened) /\ ~Careless => at \notin KeptStarts
  BY <1>1, ExtentIsOwn DEF Making
<1> DEFINE c == Fresh(NoLabel, "luks", TRUE)
<1>3. c \in Content
  <2>1. NoLabel \in Label
    BY EmptySeq, Zenon DEF NoLabel, Label
  <2> QED
    BY <2>1, FreshType
<1> HIDE DEF at, c
<1>4. Writes
  BY <1>1, <1>2, <1>3 DEF Writes, c
<1> QED
  BY <1>1, <1>2, <1>4

LEMMA MkfsEffect ==
  ASSUME DiskInv, NEW done \in BOOLEAN, NEW made \in BOOLEAN, Mkfs(done, made)
  PROVE  /\ Writes /\ UNCHANGED <<mapper, header>> /\ Working
         /\ Encrypted' => Encrypted \/ mapper # Closed
         /\ \/ pc' = "idle" /\ work' = NoWork
            \/ /\ UNCHANGED <<node, outcome>>
               /\ \/ pc' = "mount" /\ work' = [NoWork EXCEPT !.todo = DOMAIN layout.parts]
                  \/ /\ pc' = "format" /\ work' = [work EXCEPT !.i = @ + 1]
                     /\ work.i # Len(layout.parts)
<1> DEFINE p == Partition
           new == Fresh(ExpectedLabel(p), p.kind, p.enc)
           at == CHOOSE s \in Device(p) : TRUE
           here == IF done THEN new ELSE content[at]
           subs == {p.subs[j].name : j \in DOMAIN p.subs}
           base == Device(p) # {} /\ (done \/ (at \in Starts /\ here.kind = "btrfs" /\ here.subs \cap subs = {}))
           written == [here EXCEPT !.subs = IF made THEN @ \cup subs ELSE @]
<1>1. pc \in {"format", "mkfs"} /\ Working /\ UNCHANGED <<layout, table, parts, mapper, header>>
  BY DEF Mkfs, Working
<1>2. /\ done => Device(p) # {}
      /\ content' = IF done \/ (base /\ made /\ subs # {}) THEN Put(content, at, written) ELSE content
  BY DEF Mkfs
<1>3. \/ pc' = "idle" /\ work' = NoWork
      \/ /\ UNCHANGED <<node, outcome>>
         /\ \/ pc' = "mount" /\ work' = [NoWork EXCEPT !.todo = DOMAIN layout.parts]
            \/ /\ pc' = "format" /\ work' = [work EXCEPT !.i = @ + 1]
               /\ work.i # Len(layout.parts)
  BY DEF Mkfs, Raise, EndWith
<1>4. p \in PartitionSpec
  BY <1>1, PartitionDeclared DEF Partition
<1>5. new \in Content
  <2>1. ExpectedLabel(p) \in Label \cup CryptLabels
    BY <1>4 DEF ExpectedLabel, PartitionSpec, CryptLabel, CryptLabels
  <2> QED
    BY <1>4, <2>1, FreshType DEF PartitionSpec
<1>6. subs \in SUBSET STRING
  <2>1. p.subs \in Seq([name : STRING, at : Path])
    BY <1>4 DEF PartitionSpec
  <2>2. \A j \in DOMAIN p.subs : p.subs[j] \in [name : STRING, at : Path]
    BY <2>1, Elements
  <2>3. \A j \in DOMAIN p.subs : p.subs[j].name \in STRING
    BY <2>2
  <2> QED
    BY <2>3
<1>7. done \/ base => here \in Content
  BY <1>5 DEF DiskInv, DiskTypeOK, Starts
<1>8. done \/ base => written \in Content
  <2> HIDE DEF here, subs, base
  <2> QED
    BY <1>6, <1>7 DEF Content
<1>9. (done \/ base) /\ ~Careless => at \notin KeptStarts
  <2> SUFFICES ASSUME Device(p) # {}, ~Careless
               PROVE  at \notin KeptStarts
    BY <1>2
  <2>1. at \in Device(p)
    OBVIOUS
  <2>2. CASE p.enc
    BY <1>1, <2>1, <2>2 DEF Device, DiskInv, Careful, Making
  <2>3. CASE ~p.enc
    BY <1>1, <2>1, <2>3, ExtentIsOwn DEF Device, Making
  <2> QED
    BY <2>2, <2>3
<1>11. Encrypted' => Encrypted \/ mapper # Closed
  <2>1. CASE content' = content
    BY <2>1 DEF Encrypted
  <2>2. CASE (done \/ base) /\ content' = Put(content, at, written)
    <3>1. written.enc = here.enc
      <4> HIDE DEF here, subs, base
      <4> QED
        BY <1>7, <2>2 DEF Content
    <3>2. here.enc => Encrypted \/ mapper # Closed
      <4>1. CASE done
        <5>1. new.enc = p.enc
          BY DEF Fresh
        <5>2. p.enc => Device(p) = {mapper} \ {Closed}
          BY DEF Device
        <5> QED
          BY <1>2, <4>1, <5>1, <5>2
      <4>2. CASE ~done
        BY <2>2, <4>2 DEF Encrypted, Starts
      <4> QED
        BY <4>1, <4>2
    <3>3. \A s \in DOMAIN content' : s = at \/ (s \in DOMAIN content /\ content'[s] = content[s])
      BY <2>2 DEF Put
    <3>4. content'[at] = written
      BY <2>2 DEF Put
    <3> HIDE DEF at, written, here
    <3> QED
      BY <3>1, <3>2, <3>3, <3>4 DEF Encrypted
  <2> QED
    BY <1>2, <2>1, <2>2
<1> HIDE DEF p, new, at, here, written, base, subs
<1>10. Writes
  <2>1. CASE done \/ base
    BY <1>1, <1>2, <1>8, <1>9, <2>1 DEF Writes
  <2>2. CASE ~done /\ ~base
    BY <1>1, <1>2, <2>2 DEF Writes
  <2> QED
    BY <2>1, <2>2
<1> QED
  BY <1>1, <1>3, <1>10, <1>11

LEMMA DiskWrites ==
  ASSUME DiskInv, \E done, also \in BOOLEAN : Encrypt(done, also) \/ Mkfs(done, also)
  PROVE  DiskInv'
<1>1. ASSUME Writes
      PROVE  TableSound' /\ content' \in [DOMAIN content' -> Content]
  <2>1. content' \in [DOMAIN content' -> Content]
    <3>1. CASE content' = content
      BY <3>1 DEF DiskInv, DiskTypeOK
    <3>2. ASSUME NEW at, NEW c \in Content, content' = Put(content, at, c)
          PROVE  content' \in [DOMAIN content' -> Content]
      <4>1. DiskTypeOK
        BY DEF DiskInv
      <4> QED
        BY <3>2, <4>1, PutContent
    <3> QED
      BY <1>1, <3>1, <3>2 DEF Writes
  <2>2. TableSound'
    BY <1>1 DEF Writes, DiskInv, TableSound
  <2> QED
    BY <2>1, <2>2
<1>2. ASSUME NEW done \in BOOLEAN, NEW also \in BOOLEAN, Encrypt(done, also)
      PROVE  DiskInv'
  <2>1. /\ Writes /\ pc = "format" /\ pc' = "mkfs" /\ UNCHANGED <<work, node, outcome>>
        /\ mapper' = mapper \/ (~Careless => mapper' \notin KeptStarts)
    BY <1>2, EncryptEffect
  <2>2. DiskTypeOK' /\ TableSound'
    BY <1>1, <2>1 DEF Writes, DiskInv, DiskTypeOK
  <2>3. KeptNumbers' = KeptNumbers /\ KeptStarts' = KeptStarts /\ layout' = layout
    BY <2>1 DEF Writes, KeptNumbers, KeptStarts
  <2>4. Careful'
    BY <2>1, <2>3 DEF DiskInv, Careful, Careless, Working, Making
  <2> QED
    BY <2>2, <2>4 DEF DiskInv
<1>3. ASSUME NEW done \in BOOLEAN, NEW also \in BOOLEAN, Mkfs(done, also)
      PROVE  DiskInv'
  <2>1. /\ Writes /\ mapper' = mapper /\ Working
        /\ \/ pc' = "idle" /\ work' = NoWork
           \/ /\ UNCHANGED <<node, outcome>>
              /\ \/ pc' = "mount" /\ work' = [NoWork EXCEPT !.todo = DOMAIN layout.parts]
                 \/ /\ pc' = "format" /\ work' = [work EXCEPT !.i = @ + 1]
                    /\ work.i # Len(layout.parts)
    BY <1>3, MkfsEffect
  <2>2. work' \in WorkType
    <3>1. DOMAIN layout.parts \subseteq Nat /\ work \in WorkType
      BY DEF DiskInv, DiskTypeOK
    <3>2. [NoWork EXCEPT !.todo = DOMAIN layout.parts] \in WorkType
      BY <3>1 DEF NoWork, WorkType
    <3>3. [work EXCEPT !.i = @ + 1] \in WorkType
      BY <3>1 DEF WorkType
    <3> QED
      BY <2>1, <3>2, <3>3, NoWorkType
  <2>3. DiskTypeOK' /\ TableSound'
    BY <1>1, <2>1, <2>2 DEF Writes, DiskInv, DiskTypeOK
  <2>4. KeptNumbers' = KeptNumbers /\ KeptStarts' = KeptStarts /\ layout' = layout
    BY <2>1 DEF Writes, KeptNumbers, KeptStarts
  <2>5. CASE pc' \in {"idle", "mount"}
    BY <2>3, <2>5 DEF DiskInv, Careful, Working, Making
  <2>6. CASE pc' = "format"
    <3>1. UNCHANGED <<node, outcome>> /\ work' = [work EXCEPT !.i = @ + 1] /\ work.i # Len(layout.parts)
      BY <2>1, <2>6
    <3>2. work'.i \in DOMAIN layout.parts
      BY <2>1, <3>1, NextPartition DEF DiskInv, DiskTypeOK, WorkType
    <3>3. pc \in Making
      BY <2>1 DEF Working, Making
    <3>4. Careful'
      BY <2>1, <2>4, <2>6, <3>1, <3>2, <3>3 DEF DiskInv, Careful, Careless, Working, Making
    <3> QED
      BY <2>3, <3>4 DEF DiskInv
  <2> QED
    BY <2>1, <2>5, <2>6
<1> QED
  BY <1>2, <1>3

\* An apply begins: nothing on the disk is its own.
LEMMA AgeEffect ==
  ASSUME DiskInv, Age, UNCHANGED <<layout, table>>
  PROVE  /\ TableSound' /\ parts' \in [DOMAIN parts' -> Extents] /\ DOMAIN parts' \subseteq Nat
         /\ content' \in [DOMAIN content' -> Content] /\ DOMAIN content' = DOMAIN content
         /\ \A s \in DOMAIN content : /\ content'[s].label = content[s].label
                                      /\ content'[s].enc = content[s].enc
         /\ \A k \in DOMAIN parts : k \in DOMAIN parts' /\ parts'[k].start = parts[k].start
                                    /\ ~parts'[k].new
<1>1. /\ DOMAIN content' = DOMAIN content
      /\ \A s \in DOMAIN content : content'[s] = [content[s] EXCEPT !.fresh = FALSE]
      /\ content' = [s \in DOMAIN content' |-> content'[s]]
  BY DEF Age, Starts
<1>2. /\ DOMAIN parts' = DOMAIN parts
      /\ \A k \in DOMAIN parts : parts'[k] = [parts[k] EXCEPT !.new = FALSE]
      /\ parts' = [k \in DOMAIN parts' |-> parts'[k]]
  BY DEF Age
<1>3. \A s \in DOMAIN content : content[s] \in Content
  BY DEF DiskInv, DiskTypeOK
<1>4. ASSUME NEW s \in DOMAIN content
      PROVE  /\ content'[s] \in Content
             /\ content'[s].label = content[s].label /\ content'[s].enc = content[s].enc
  <2>1. /\ content'[s] = [content[s] EXCEPT !.fresh = FALSE]
        /\ content[s] \in Content
    BY <1>1, <1>3
  <2> QED
    BY <2>1 DEF Content
<1>5. content' \in [DOMAIN content' -> Content]
  BY <1>1, <1>4
<1>6. ASSUME NEW k \in DOMAIN parts
      PROVE  /\ parts'[k] \in Extents /\ ~parts'[k].new
             /\ parts'[k].start = parts[k].start /\ parts'[k].end = parts[k].end
  <2>1. parts[k] \in Extents
    BY DEF DiskInv, DiskTypeOK
  <2> QED
    BY <1>2, <2>1 DEF Extents
<1>7. parts' \in [DOMAIN parts' -> Extents] /\ DOMAIN parts' \subseteq Nat
  BY <1>2, <1>6 DEF DiskInv, DiskTypeOK
<1>8. parts = <<>> => parts' = <<>>
  <2> SUFFICES ASSUME parts = <<>>
               PROVE  parts' = <<>>
    OBVIOUS
  <2>1. parts' = [k \in DOMAIN parts |-> [parts[k] EXCEPT !.new = FALSE]]
    BY DEF Age
  <2> QED
    BY <2>1
<1>9. TableSound'
  BY <1>2, <1>6, <1>8 DEF DiskInv, TableSound, Disjoint
<1> QED
  BY <1>1, <1>2, <1>4, <1>5, <1>6, <1>7, <1>9

\* Without wipe_disk it goes on only where there is no table, and so no partition.
LEMMA DiskStart ==
  ASSUME DiskInv, NEW labels, NEW seen \in TableReadings, ApplyDisk(labels, seen)
  PROVE  DiskInv'
<1>1. Age /\ UNCHANGED <<layout, table, mapper>> /\ node' = <<>> /\ work' = NoWork
  BY DEF ApplyDisk
<1>2. pc' = "done" \/ (pc' = "validate" /\ (layout.wipe \/ ~table))
  BY DEF ApplyDisk, PlanDisk, TableReadings
<1>3. DiskTypeOK' /\ TableSound'
  BY <1>1, AgeEffect, NoWorkType DEF DiskInv, DiskTypeOK
<1>4. ~table => KeptNumbers' = {} /\ KeptStarts' = {}
  <2> SUFFICES ASSUME ~table
               PROVE  KeptNumbers' = {} /\ KeptStarts' = {}
    OBVIOUS
  <2>1. parts' = <<>>
    BY <1>1, <1>3 DEF TableSound
  <2> QED
    BY <2>1 DEF KeptNumbers, KeptStarts
<1>5. Careful'
  BY <1>1, <1>2, <1>4 DEF Careful, Careless, Working, Making
<1> QED
  BY <1>3, <1>5 DEF DiskInv

\* Another tool's partition is where no label of this apply leads.
LEMMA DiskSomebody ==
  ASSUME DiskInv, SomebodyPartitions
  PROVE  DiskInv'
<1> DEFINE e == [start |-> 10, end |-> 5000, new |-> FALSE]
           c == [Fresh(NoLabel, "ext4", FALSE) EXCEPT !.fresh = FALSE]
<1>1. /\ pc = "validate" /\ 5000 <= DiskSize /\ mapper = Closed
      /\ table' = TRUE /\ parts' = [k \in {1} |-> e] /\ content' = Put(content, 10, c)
      /\ UNCHANGED <<layout, mapper, pc, work, node>>
  BY DEF SomebodyPartitions
<1>2. e \in Extents /\ e.start = 10 /\ e.end = 5000
  BY <1>1, DiskAssumption DEF Extents
<1>3. c \in Content
  <2>1. NoLabel \in Label
    BY EmptySeq, Zenon DEF NoLabel, Label
  <2>2. Fresh(NoLabel, "ext4", FALSE) \in Content
    BY <2>1, FreshType DEF Kinds, FileSystemType
  <2> HIDE DEF e
  <2> QED
    BY <2>2 DEF Content
<1> HIDE DEF e, c
<1>4. DOMAIN parts' = {1} /\ parts'[1] = e /\ parts' \in [DOMAIN parts' -> Extents]
  BY <1>1, <1>2
<1>5. content' \in [DOMAIN content' -> Content]
  BY <1>1, <1>3, PutContent DEF DiskInv
<1>6. DiskTypeOK'
  BY <1>1, <1>4, <1>5 DEF DiskInv, DiskTypeOK
<1>7. Disjoint(parts')
  BY <1>2, <1>4 DEF Disjoint
<1>8. \A k \in DOMAIN parts' : k <= 1
  BY <1>4
<1>9. TableSound'
  BY <1>1, <1>7, <1>8 DEF TableSound
<1>10. mapper' \notin KeptStarts' /\ DOMAIN node' = {} /\ node' = <<>>
  <2>1. KeptStarts' \subseteq {10}
    BY <1>2, <1>4 DEF KeptStarts, KeptNumbers
  <2>2. node = <<>>
    BY <1>1 DEF DiskInv, Careful, Making, Working
  <2> QED
    BY <1>1, <2>1, <2>2 DEF Closed
<1>11. Careful'
  BY <1>1, <1>10 DEF DiskInv, Careful, Working, Making
<1> QED
  BY <1>6, <1>9, <1>11 DEF DiskInv

LEMMA DiskInductive == DiskInv /\ [Next]_vars => DiskInv'
<1> SUFFICES ASSUME DiskInv, [Next]_vars
             PROVE  DiskInv'
  OBVIOUS
<1>1. ASSUME NEW labels \in LabelReadings, NEW seen \in TableReadings, NEW dump \in Dumps,
             NEW asked \in BOOLEAN, StartApply(labels, seen, dump, asked)
      PROVE  DiskInv'
  BY <1>1, DiskStart DEF StartApply
<1>2. CASE DiskPart
  BY <1>2, DiskRests, DiskTable, DiskCreate, DiskWrites, DiskSomebody DEF DiskPart, DiskSteps
<1>3. CASE LuksSteps
  BY <1>3, DiskLuks
<1>4. ASSUME NEW read \in HeaderReads, Sync(IF read THEN header ELSE NoSlots, read)
      PROVE  DiskInv'
  <2>1. /\ layout' = [layout EXCEPT !.wipe = FALSE] /\ pc = "idle"
        /\ UNCHANGED <<table, parts, content, pc, work>>
    BY <1>4 DEF Sync, CaptureDisk, disk
  <2> QED
    BY <2>1, Outside DEF DiskInv, DiskTypeOK, Making
<1>5. ASSUME NEW u \in Unlocks, Edit(u)
      PROVE  DiskInv'
  BY <1>5, DiskUntouched DEF Edit, diskVars, disk, book
<1>6. ASSUME NEW kind, HandEnrol(kind)
      PROVE  DiskInv'
  BY <1>6, DiskUntouched DEF book, HandEnrol
<1>7. ASSUME NEW s \in Slots, HandKill(s)
      PROVE  DiskInv'
  BY <1>7, DiskUntouched DEF book, HandKill
<1>8. CASE PlugOrUnplug
  BY <1>8, DiskUntouched DEF PlugOrUnplug, diskVars, disk, book
<1>9. CASE Unlock
  <2>1. pc = "idle" /\ UNCHANGED <<layout, table, parts, content, pc, work>>
    BY <1>9 DEF Unlock
  <2> QED
    BY <2>1, Outside DEF DiskInv, DiskTypeOK, Making
<1>10. CASE (Die \/ PowerCut) /\ CutShort
  BY <1>10, DiskRests
<1>11. CASE UNCHANGED vars
  BY <1>11, DiskUntouched DEF vars, diskVars, disk, book
<1> QED
  BY <1>1, <1>2, <1>3, <1>4, <1>5, <1>6, <1>7, <1>8, <1>9, <1>10, <1>11 DEF Next

THEOREM DiskIsSound == Spec => []DiskInv
<1>1. Init => DiskInv
  BY DiskInit
<1>2. DiskInv /\ [Next]_vars => DiskInv'
  BY DiskInductive
<1> QED
  BY <1>1, <1>2, PTL DEF Spec

-----------------------------------------------------------------------------
(***************************************************************************)
(* A disk nobody asked to erase keeps its filesystems                      *)
(***************************************************************************)

\* What is kept stays: found at the same place, under the same label.
Stays ==
  \A s \in KeptStarts \cap DOMAIN content :
      s \in KeptStarts' /\ s \in DOMAIN content' /\ content'[s].label = content[s].label

LEMMA StaysIsKept == Stays => Kept \subseteq Kept'
BY DEF Stays, Kept, KeptStarts, KeptNumbers, Starts

LEMMA UntouchedStays ==
  ASSUME UNCHANGED <<parts, content>>
  PROVE  Stays
BY DEF Stays, KeptStarts, KeptNumbers

LEMMA WritesStay ==
  ASSUME DiskInv, Writes, ~Careless
  PROVE  Stays
<1>1. KeptStarts' = KeptStarts
  BY DEF Writes, KeptStarts, KeptNumbers
<1>2. CASE content' = content
  BY <1>1, <1>2 DEF Stays
<1>3. ASSUME NEW at, NEW c \in Content, content' = Put(content, at, c), at \notin KeptStarts
      PROVE  Stays
  BY <1>1, <1>3, PutContent DEF Stays, DiskInv
<1> QED
  BY <1>2, <1>3 DEF Writes

LEMMA NothingLost ==
  ASSUME DiskInv, [Next]_vars, ~Careless
  PROVE  Stays
<1>1. ~table => KeptStarts = {}
  BY DEF DiskInv, TableSound, KeptStarts, KeptNumbers
<1>2. ASSUME NEW labels, NEW seen, NEW dump, NEW asked, StartApply(labels, seen, dump, asked)
      PROVE  Stays
  <2>1. Age /\ UNCHANGED <<layout, table>>
    BY <1>2 DEF StartApply, ApplyDisk
  <2>2. KeptStarts \subseteq KeptStarts'
    BY <2>1, AgeEffect DEF KeptStarts, KeptNumbers
  <2> QED
    BY <2>1, <2>2, AgeEffect DEF Stays
<1>3. CASE DiskPart
  <2>1. CASE SomebodyPartitions
    BY <1>1, <2>1 DEF SomebodyPartitions, Stays
  <2>2. ASSUME NEW done, Wipe(done) \/ CreateTable(done)
        PROVE  Stays
    BY <1>1, <2>2 DEF Wipe, CreateTable, Stays, DiskInv, Careful, Careless
  <2>3. ASSUME NEW done \in BOOLEAN, CreatePartition(done)
        PROVE  Stays
    <3>1. KeptStarts' = KeptStarts
      BY <2>3, DiskCreate
    <3>2. content' = content
      BY <2>3 DEF CreatePartition
    <3> QED
      BY <3>1, <3>2 DEF Stays
  <2>4. ASSUME NEW done \in BOOLEAN, NEW also \in BOOLEAN, Encrypt(done, also) \/ Mkfs(done, also)
        PROVE  Stays
    BY <2>4, EncryptEffect, MkfsEffect, WritesStay
  <2>5. CASE \/ Validate \/ KeepTable \/ EnableSwap
             \/ \E done, also \in BOOLEAN : BeginPartitions(done, also)
             \/ \E done \in BOOLEAN : MountPartition(done)
    BY <2>5, UntouchedStays DEF Validate, KeepTable, BeginPartitions, EnableSwap, MountPartition, disk
  <2> QED
    BY <1>3, <2>1, <2>2, <2>3, <2>4, <2>5 DEF DiskPart, DiskSteps
<1>4. CASE LuksSteps
  BY <1>4, UntouchedStays DEF LuksSteps, NeedsVolume, DropKeyfile, AlreadySkipped, EnrolToken,
     SkipToken, AbortToken, FinishApply, CreateKeyfile, EnrollKeyfile, WipeToken, disk
<1>5. ASSUME NEW dump, NEW read, Sync(dump, read)
      PROVE  Stays
  BY <1>5, UntouchedStays DEF Sync, CaptureDisk, disk
<1>6. CASE (\E u \in Unlocks : Edit(u)) \/ PlugOrUnplug \/ UNCHANGED vars
  BY <1>6, UntouchedStays DEF Edit, PlugOrUnplug, vars, diskVars, disk
<1>7. CASE \/ \E kind \in {"passphrase", "fido2"} : HandEnrol(kind)
           \/ \E s \in Slots : HandKill(s)
           \/ Unlock
  BY <1>7, UntouchedStays DEF HandEnrol, HandKill, Unlock
<1>8. CASE (Die \/ PowerCut) /\ CutShort
  BY <1>8, UntouchedStays DEF Die, PowerCut, disk
<1> QED
  BY <1>2, <1>3, <1>4, <1>5, <1>6, <1>7, <1>8 DEF Next

\* Without wipe_disk no filesystem is lost that an apply did not make itself: not by
\* wipefs or mklabel, which are reached only where the disk is asked for or has no
\* table; not by cryptsetup or mkfs, whose devices are those of the partitions this
\* apply numbered behind the last one parted listed, and these overlap none of it.
\* Probes and commands may fail, and the process die, as often as they like; left out
\* are the steps of an apply that numbers from one because a failing parted listed no
\* partition where another tool had made some.
THEOREM NothingIsErased == Spec => ErasesOnlyWhenAsked
<1>1. DiskInv /\ [Next]_vars => [~layout.wipe /\ outcome # "misled" => Kept \subseteq Kept']_vars
  BY NothingLost, StaysIsKept DEF Careless
<1> QED
  BY <1>1, DiskIsSound, PTL DEF Spec, ErasesOnlyWhenAsked

-----------------------------------------------------------------------------
(***************************************************************************)
(* What a plan of the key file and the tokens is made of                   *)
(***************************************************************************)

LuksKinds == {"tpm2", "fido2", "keyfile"}
Items == [kind : LuksKinds, index : Nat \ {0}]
Changes == [op : {"install", "remove"}, item : Items]

\* Those that free no keyslot.
Harmless == {c \in Changes : c.op = "install" \/ c.item.kind = "keyfile"}

\* The plans that may be carried out on a header: tokens are removed from none that
\* they alone open.
Plans(h) == Seq(IF PassphraseWouldRemain(h) THEN Changes ELSE Harmless)

Bounded(items) == \E b \in Nat : \A i \in items : i.index <= b

\* Items of one kind are told apart by their index: each rank is that of one of them.
LEMMA EveryRank ==
  ASSUME NEW items, items \subseteq Items, Bounded(items), NEW kind,
         \A i \in items : i.kind = kind
  PROVE  /\ Cardinality(items) \in Nat
         /\ \A n \in 1 .. Cardinality(items) :
               \E i \in items : Cardinality({j \in items : j.index < i.index}) = n - 1
<1> DEFINE Below(i) == {j \in items : j.index < i.index}
           c == Cardinality(items)
<1>1. PICK b \in Nat : \A i \in items : i.index <= b
  BY DEF Bounded
<1>2. \A i \in items : i.index \in Nat /\ i.index \in 1 .. b
  BY <1>1 DEF Items
<1>3. \A i, j \in items : i.index = j.index => i = j
  BY DEF Items
<1>4. IsFiniteSet(items) /\ c \in Nat
  <2> DEFINE f == [i \in items |-> i.index]
  <2>1. f \in Injection(items, 1 .. b)
    BY <1>2, <1>3 DEF Injection, IsInjective
  <2>2. IsFiniteSet(1 .. b)
    BY FS_Interval
  <2>3. IsFiniteSet(items)
    BY <2>1, <2>2, FS_Injection
  <2> QED
    BY <2>3, FS_CardinalityType
<1>5. ASSUME NEW i \in items
      PROVE  IsFiniteSet(Below(i)) /\ Cardinality(Below(i)) \in 0 .. c - 1
  <2>1. Below(i) \in SUBSET items /\ i \notin Below(i)
    BY <1>2
  <2>2. /\ IsFiniteSet(Below(i)) /\ Cardinality(Below(i)) <= c
        /\ c = Cardinality(Below(i)) => items = Below(i)
    BY <1>4, <2>1, FS_Subset
  <2>3. Cardinality(Below(i)) \in Nat
    BY <2>2, FS_CardinalityType
  <2> HIDE DEF Below, c
  <2> QED
    BY <1>4, <2>1, <2>2, <2>3
<1>6. ASSUME NEW i \in items, NEW j \in items, i.index < j.index
      PROVE  Cardinality(Below(i)) # Cardinality(Below(j))
  <2>1. Below(i) \in SUBSET Below(j) /\ i \in Below(j) /\ i \notin Below(i)
    BY <1>2, <1>6
  <2>2. IsFiniteSet(Below(j))
    BY <1>5
  <2> HIDE DEF Below
  <2>3. Cardinality(Below(j)) = Cardinality(Below(i)) => Below(j) = Below(i)
    BY <2>1, <2>2, FS_Subset
  <2> QED
    BY <2>1, <2>3
<1> DEFINE rank == [i \in items |-> Cardinality(Below(i))]
<1>7. rank \in Injection(items, 0 .. c - 1)
  <2>1. rank \in [items -> 0 .. c - 1]
    BY <1>5
  <2>2. ASSUME NEW i \in items, NEW j \in items, rank[i] = rank[j]
        PROVE  i = j
    <3>1. ~(i.index < j.index) /\ ~(j.index < i.index)
      BY <1>6, <2>2
    <3>2. i.index = j.index
      BY <1>2, <3>1
    <3> QED
      BY <1>3, <3>2
  <2> QED
    BY <2>1, <2>2 DEF Injection, IsInjective
<1>8. IsFiniteSet(0 .. c - 1) /\ Cardinality(0 .. c - 1) = c
  <2> HIDE DEF c
  <2>1. 0 \in Int /\ c - 1 \in Int
    BY <1>4
  <2>2. /\ IsFiniteSet(0 .. c - 1)
        /\ Cardinality(0 .. c - 1) = IF 0 > c - 1 THEN 0 ELSE (c - 1) - 0 + 1
    BY <2>1, FS_Interval
  <2> QED
    BY <1>4, <2>2
<1>9. rank \in Surjection(items, 0 .. c - 1)
  <2> HIDE DEF rank
  <2> QED
    BY <1>7, <1>8, FS_Injection
<1>10. ASSUME NEW n \in 1 .. c
       PROVE  \E i \in items : Cardinality(Below(i)) = n - 1
  <2>1. n - 1 \in 0 .. c - 1
    BY <1>4
  <2>2. \E i \in items : rank[i] = n - 1
    BY <1>9, <2>1 DEF Surjection
  <2> QED
    BY <2>2
<1> QED
  BY <1>4, <1>10

\* The changes of a set of items are changes of these items.
LEMMA InOrderIs ==
  ASSUME NEW items, items \subseteq Items, Bounded(items), NEW kind,
         \A i \in items : i.kind = kind,
         NEW op, NEW S, \A i \in items : Change(op, i) \in S
  PROVE  InOrder(op, items) \in Seq(S)
<1> DEFINE The(n) == CHOOSE i \in items : Cardinality({j \in items : j.index < i.index}) = n - 1
           c == Cardinality(items)
<1>1. c \in Nat /\ \A n \in 1 .. c : The(n) \in items
  BY EveryRank
<1>2. InOrder(op, items) = [n \in 1 .. c |-> Change(op, The(n))]
  BY DEF InOrder
<1> HIDE DEF The, c
<1>3. \A n \in 1 .. c : Change(op, The(n)) \in S
  BY <1>1
<1> QED
  BY <1>1, <1>2, <1>3

-----------------------------------------------------------------------------
(***************************************************************************)
(* An encrypted volume keeps a way in                                      *)
(***************************************************************************)

UnlockType ==
  [fido2 : Nat, tpm2 : BOOLEAN, keyfile : BOOLEAN, password : BOOLEAN,
   policy : {"abort", "warn-and-continue"}]

LuksTypeOK ==
  /\ header \in [Slots -> SlotUse]
  /\ unlock \in UnlockType
  /\ owned \subseteq Items /\ Bounded(owned)

HasKey == \E s \in Slots : header[s] # "free"

\* There is a keyslot to open what is, or was made to be, encrypted; and what is
\* still planned leaves one.
KeySound ==
  /\ mapper # Closed \/ Encrypted => HasKey
  /\ pc = "idle" => todo = <<>>
  /\ todo \in Plans(header)

OpensInv == LuksTypeOK /\ KeySound

LEMMA PlansGrow ==
  ASSUME NEW h, NEW h2, PassphraseWouldRemain(h) => PassphraseWouldRemain(h2),
         NEW list \in Plans(h)
  PROVE  list \in Plans(h2)
<1>1. Harmless \subseteq Changes
  BY DEF Harmless
<1>2. list \in Seq(Harmless) => list \in Seq(Changes)
  BY <1>1, SeqMonotonic
<1> QED
  BY <1>2 DEF Plans

LEMMA EmptyPlan == \A h : <<>> \in Plans(h)
BY EmptySeq DEF Plans

LEMMA LaterPlan ==
  ASSUME NEW h, NEW list \in Plans(h), list # <<>>
  PROVE  /\ Tail(list) \in Plans(h)
         /\ Head(list) \in Changes
         /\ PassphraseWouldRemain(h) \/ Head(list) \in Harmless
<1>1. ASSUME NEW S, list \in Seq(S)
      PROVE  Tail(list) \in Seq(S) /\ Head(list) \in S
  BY <1>1, HeadTailProperties
<1> QED
  BY <1>1 DEF Plans, Harmless

\* What the document declares: as many items as it says.
LEMMA DeclaredIs ==
  ASSUME unlock \in UnlockType
  PROVE  Declared \subseteq Items /\ Bounded(Declared)
<1>1. \A k \in LuksKinds : Count(k) \in Nat /\ Count(k) <= unlock.fido2 + 1
  BY DEF UnlockType, Count, LuksKinds
<1>2. ASSUME NEW d \in Declared
      PROVE  d \in Items /\ d.index <= unlock.fido2 + 1
  <2>1. PICK k \in LuksKinds : \E i \in 1 .. Count(k) : d = Item(k, i)
    BY DEF Declared, LuksKinds
  <2>2. PICK i \in 1 .. Count(k) : d = Item(k, i)
    BY <2>1
  <2> QED
    BY <1>1, <2>2 DEF Item, Items, UnlockType
<1>3. unlock.fido2 + 1 \in Nat
  BY DEF UnlockType
<1> QED
  BY <1>2, <1>3 DEF Bounded

LEMMA BoundedUnion ==
  ASSUME NEW S, S \subseteq Items, Bounded(S), NEW T, T \subseteq Items, Bounded(T),
         NEW U, U \subseteq S \cup T
  PROVE  U \subseteq Items /\ Bounded(U)
<1>1. PICK a \in Nat : \A i \in S : i.index <= a
  BY DEF Bounded
<1>2. PICK b \in Nat : \A i \in T : i.index <= b
  BY DEF Bounded
<1>3. \A i \in U : i \in Items /\ (i.index <= a \/ i.index <= b)
  BY <1>1, <1>2
<1>4. \A i \in U : i.index <= a + b
  BY <1>3 DEF Items
<1> QED
  BY <1>3, <1>4 DEF Bounded

\* A new plan: it removes tokens only from a header it read, and found a passphrase or
\* a key file on.
LEMMA PlanIs ==
  ASSUME LuksTypeOK, NEW dump \in Dumps
  PROVE  PlanKeyfile \o PlanTokens(dump) \in Plans(header)
<1> DEFINE S == IF PassphraseWouldRemain(header) THEN Changes ELSE Harmless
<1>1. Declared \subseteq Items /\ Bounded(Declared) /\ owned \subseteq Items /\ Bounded(owned)
  BY DeclaredIs DEF LuksTypeOK
<1>2. ASSUME NEW items, items \subseteq owned \cup Declared
      PROVE  items \subseteq Items /\ Bounded(items)
  BY <1>1, <1>2, BoundedUnion
<1>3. \A i \in Items : Change("install", i) \in S
  BY DEF Change, Changes, Harmless
<1>4. \A i \in Items : i.kind = "keyfile" => Change("remove", i) \in S
  BY DEF Change, Changes, Harmless
<1>5. PassphraseWouldRemain(header) => \A i \in Items : Change("remove", i) \in S
  BY DEF Change, Changes
<1>6. PassphraseWouldRemain(dump) => PassphraseWouldRemain(header)
  <2>1. dump = header \/ dump = NoSlots
    BY DEF Dumps
  <2>2. ~PassphraseWouldRemain(NoSlots)
    BY DEF PassphraseWouldRemain, SlotsOf, NoSlots
  <2> QED
    BY <2>1, <2>2
<1> HIDE DEF S
<1>7. ASSUME NEW kind
      PROVE  InOrder("install", Missing(dump, kind)) \in Seq(S)
  <2>1. Missing(dump, kind) \subseteq Declared /\ \A i \in Missing(dump, kind) : i.kind = kind
    BY DEF Missing
  <2>2. Missing(dump, kind) \subseteq Items /\ Bounded(Missing(dump, kind))
    BY <1>2, <2>1
  <2> QED
    BY <1>3, <2>1, <2>2, InOrderIs
<1>8. ASSUME NEW kind
      PROVE  InOrder("remove", Surplus(dump, kind)) \in Seq(S)
  <2>1. Surplus(dump, kind) \subseteq owned /\ \A i \in Surplus(dump, kind) : i.kind = kind
    BY DEF Surplus
  <2>2. Surplus(dump, kind) \subseteq Items /\ Bounded(Surplus(dump, kind))
    BY <1>2, <2>1
  <2>3. \A i \in Surplus(dump, kind) : PassphraseWouldRemain(header)
    BY <1>6 DEF Surplus
  <2>4. \A i \in Surplus(dump, kind) : Change("remove", i) \in S
    BY <1>5, <2>2, <2>3
  <2> QED
    BY <2>1, <2>2, <2>4, InOrderIs
<1>9. PlanKeyfile \in Seq(S)
  <2> DEFINE new == IF unlock.keyfile /\ ~(attached /\ KeyWorks) THEN {Item("keyfile", 1)} ELSE {}
             old == {i \in owned \ Declared : i.kind = "keyfile"}
  <2>1. new \subseteq Items /\ Bounded(new) /\ \A i \in new : i.kind = "keyfile"
    <3>1. \A i \in new : i = Item("keyfile", 1)
      OBVIOUS
    <3>2. Item("keyfile", 1) \in Items /\ Item("keyfile", 1).index <= 1
          /\ Item("keyfile", 1).kind = "keyfile"
      BY DEF Item, Items, LuksKinds
    <3> HIDE DEF new
    <3> QED
      BY <3>1, <3>2 DEF Bounded
  <2>2. old \subseteq Items /\ Bounded(old) /\ \A i \in old : i.kind = "keyfile"
    BY <1>2
  <2>3. PlanKeyfile = InOrder("install", new) \o InOrder("remove", old)
    BY DEF PlanKeyfile
  <2> HIDE DEF new, old
  <2>4. InOrder("install", new) \in Seq(S)
    BY <1>3, <2>1, InOrderIs
  <2>5. \A i \in old : Change("remove", i) \in S
    BY <1>4, <2>2
  <2>6. InOrder("remove", old) \in Seq(S)
    BY <2>2, <2>5, InOrderIs
  <2> QED
    BY <2>3, <2>4, <2>6, ConcatProperties
<1>10. PlanTokens(dump) \in Seq(S)
  <2> DEFINE a == InOrder("install", Missing(dump, "tpm2"))
             b == InOrder("install", Missing(dump, "fido2"))
             c == InOrder("remove", Surplus(dump, "tpm2"))
             d == InOrder("remove", Surplus(dump, "fido2"))
  <2>1. a \in Seq(S) /\ b \in Seq(S) /\ c \in Seq(S) /\ d \in Seq(S)
    BY <1>7, <1>8
  <2>2. PlanTokens(dump) = a \o b \o c \o d
    BY DEF PlanTokens
  <2> HIDE DEF a, b, c, d
  <2>3. a \o b \in Seq(S)
    BY <2>1, ConcatProperties
  <2>4. a \o b \o c \in Seq(S)
    BY <2>1, <2>3, ConcatProperties
  <2> QED
    BY <2>1, <2>2, <2>4, ConcatProperties
<1>11. PlanKeyfile \o PlanTokens(dump) \in Seq(S)
  BY <1>9, <1>10, ConcatProperties
<1> QED
  BY <1>11 DEF S, Plans

LEMMA OpensInit == Init => OpensInv
<1> SUFFICES ASSUME Init
             PROVE  OpensInv
  OBVIOUS
<1>1. PICK d \in Disk0s : content = d.content /\ header = d.header
  BY DEF Init, InitDisk
<1>2. /\ d.header \in [1 .. MaxSlots -> SlotUse]
      /\ \A s \in DOMAIN d.content : d.content[s].enc => \E k \in 1 .. MaxSlots : d.header[k] # "free"
  BY DiskImageAssumption, Zenon
<1>3. mapper = Closed /\ todo = <<>> /\ unlock \in UnlockType /\ owned = {}
  BY UnlockAssumption DEF Init, InitDisk, UnlockType
<1>4. LuksTypeOK
  BY <1>1, <1>2, <1>3 DEF LuksTypeOK, Bounded, Slots
<1>5. Encrypted => HasKey
  BY <1>1, <1>2 DEF Encrypted, HasKey, Slots
<1> QED
  BY <1>3, <1>4, <1>5, EmptyPlan DEF OpensInv, KeySound

\* A plan goes on, or is carried out no further.
Shortened(list, later) == later = list \/ later = <<>> \/ (list # <<>> /\ later = Tail(list))

LEMMA ShortenedPlan ==
  ASSUME NEW h, NEW list \in Plans(h), NEW later, Shortened(list, later)
  PROVE  later \in Plans(h)
BY LaterPlan, EmptyPlan DEF Shortened

\* The steps that change no keyslot.
LEMMA KeysRest ==
  ASSUME OpensInv, header' = header, mapper' \in {mapper, Closed},
         Encrypted' => Encrypted \/ mapper # Closed,
         Shortened(todo, todo'), pc' = "idle" => todo' = <<>>,
         unlock' \in UnlockType, owned' \subseteq owned \cup Declared
  PROVE  OpensInv'
<1>1. LuksTypeOK'
  <2>1. owned' \subseteq Items /\ Bounded(owned')
    BY DeclaredIs, BoundedUnion DEF OpensInv, LuksTypeOK
  <2> QED
    BY <2>1 DEF OpensInv, LuksTypeOK
<1>2. todo' \in Plans(header')
  BY ShortenedPlan DEF OpensInv, KeySound
<1>3. mapper' # Closed \/ Encrypted' => HasKey'
  BY DEF OpensInv, KeySound, HasKey
<1> QED
  BY <1>1, <1>2, <1>3 DEF OpensInv, KeySound

\* The steps that fill a free one.
LEMMA KeysFilled ==
  ASSUME OpensInv, NEW kind \in SlotUse \ {"free"}, FreeSlots # {}, header' = InSlot(kind),
         UNCHANGED <<mapper, content, unlock, owned>>,
         Shortened(todo, todo'), pc' = "idle" => todo' = <<>>
  PROVE  OpensInv'
<1> DEFINE n == CHOOSE s \in FreeSlots : \A t \in FreeSlots : s <= t
<1>1. n \in Slots /\ header[n] = "free"
  <2>1. FreeSlots \subseteq Nat
    BY DEF FreeSlots, SlotsOf, Slots
  <2>2. n \in FreeSlots
    BY <2>1, LeastExists
  <2> QED
    BY <2>2 DEF FreeSlots, SlotsOf
<1>2. header' = [header EXCEPT ![n] = kind]
  BY DEF InSlot
<1> HIDE DEF n
<1>3. /\ header' \in [Slots -> SlotUse] /\ header'[n] = kind
      /\ \A s \in Slots : s # n => header'[s] = header[s]
  BY <1>1, <1>2 DEF OpensInv, LuksTypeOK
<1>4. LuksTypeOK'
  BY <1>3 DEF OpensInv, LuksTypeOK
<1>5. PassphraseWouldRemain(header) => PassphraseWouldRemain(header')
  BY <1>1, <1>3 DEF PassphraseWouldRemain, SlotsOf
<1>6. todo' \in Plans(header')
  <2>1. todo' \in Plans(header)
    BY ShortenedPlan DEF OpensInv, KeySound
  <2> QED
    BY <1>5, <2>1, PlansGrow
<1>7. HasKey'
  BY <1>1, <1>3 DEF HasKey
<1> QED
  BY <1>4, <1>6, <1>7 DEF OpensInv, KeySound

\* _wipe frees only keyslots a token is bound to.
LEMMA OpensWipe ==
  ASSUME OpensInv, NEW dump \in Dumps, WipeToken(dump)
  PROVE  OpensInv'
<1> DEFINE left == SlotsOf(dump, Kind) \ wiped
           gone == IF left = {} THEN SlotsOf(header, Kind) ELSE {Max(left)}
<1>1. /\ todo # <<>> /\ Kind # "keyfile" /\ Current.op = "remove" /\ pc = "done"
      /\ header' = [s \in Slots |-> IF s \in gone THEN "free" ELSE header[s]]
      /\ todo' = Tail(todo) /\ UNCHANGED <<mapper, content, unlock, owned, pc>>
  BY DEF WipeToken, Running, Advance
<1>2. PassphraseWouldRemain(header) /\ Kind \in {"tpm2", "fido2"}
  <2>1. Current \in Changes /\ Current \notin Harmless
    BY <1>1, LaterPlan DEF OpensInv, KeySound, Current, Kind, Harmless
  <2>2. PassphraseWouldRemain(header)
    BY <1>1, <2>1, LaterPlan DEF OpensInv, KeySound, Current
  <2>3. Kind \in LuksKinds
    BY <2>1 DEF Changes, Items, Kind
  <2> QED
    BY <1>1, <2>2, <2>3 DEF LuksKinds
<1>3. gone \subseteq SlotsOf(header, Kind)
  <2>1. CASE left = {}
    BY <2>1
  <2>2. CASE left # {}
    <3>1. dump = header
      BY <1>2, <2>2 DEF Dumps, NoSlots, SlotsOf
    <3>2. left \subseteq Nat /\ \A s \in left : s <= MaxSlots
      BY DiskAssumption DEF SlotsOf, Slots
    <3> HIDE DEF left
    <3>3. Max(left) \in left
      BY <2>2, <3>2, DiskAssumption, MaxOfBounded
    <3> QED
      BY <2>2, <3>1, <3>3 DEF left
  <2> QED
    BY <2>1, <2>2
<1> HIDE DEF left, gone
<1>4. \A s \in Slots : header[s] \notin {"tpm2", "fido2"} => header'[s] = header[s]
  BY <1>1, <1>2, <1>3 DEF SlotsOf
<1>5. LuksTypeOK'
  <2>1. \A s \in Slots : header'[s] \in SlotUse
    BY <1>1 DEF OpensInv, LuksTypeOK, SlotUse
  <2>2. header' \in [Slots -> SlotUse]
    BY <1>1, <2>1
  <2> QED
    BY <1>1, <2>2 DEF OpensInv, LuksTypeOK
<1>6. PassphraseWouldRemain(header') /\ HasKey'
  BY <1>2, <1>4 DEF PassphraseWouldRemain, SlotsOf, HasKey
<1>7. todo' \in Plans(header')
  BY <1>1, <1>2, <1>6, LaterPlan, PlansGrow DEF OpensInv, KeySound
<1> QED
  BY <1>1, <1>5, <1>6, <1>7 DEF OpensInv, KeySound

LEMMA OpensLuks ==
  ASSUME OpensInv, LuksSteps
  PROVE  OpensInv'
<1> USE DEF OpensInv, LuksTypeOK, Shortened, EndWith, Raise, Advance, Running, disk
<1>1. UNCHANGED <<mapper, content, unlock>>
  BY DEF LuksSteps, NeedsVolume, DropKeyfile, AlreadySkipped, EnrolToken, SkipToken, AbortToken,
     FinishApply, CreateKeyfile, EnrollKeyfile, WipeToken
<1> USE <1>1 DEF Encrypted
<1>2. CASE NeedsVolume \/ AbortToken
  BY <1>1, <1>2, KeysRest DEF NeedsVolume, AbortToken, RaiseLuks
<1>3. CASE DropKeyfile \/ AlreadySkipped \/ SkipToken
  <2>1. pc = "done" /\ pc' = pc /\ header' = header /\ owned' = owned
        /\ todo # <<>> /\ todo' = Tail(todo)
    BY <1>3 DEF DropKeyfile, AlreadySkipped, SkipToken, TokenInstall
  <2> QED
    BY <1>1, <2>1, KeysRest
<1>4. CASE FinishApply
  BY <1>1, <1>4, KeysRest DEF FinishApply
<1>5. ASSUME NEW done \in BOOLEAN, CreateKeyfile(done)
      PROVE  OpensInv'
  <2>1. header' = header /\ pc = "done" /\ ((pc' = pc /\ todo' = todo /\ owned' = owned)
                                            \/ RaiseLuks)
    BY <1>5 DEF CreateKeyfile
  <2> QED
    BY <1>1, <2>1, KeysRest DEF RaiseLuks
<1>6. ASSUME NEW done \in BOOLEAN, EnrollKeyfile(done)
      PROVE  OpensInv'
  <2>1. CASE done
    BY <1>1, <1>6, <2>1, KeysFilled DEF EnrollKeyfile, SlotUse
  <2>2. CASE ~done
    BY <1>1, <1>6, <2>2, KeysRest DEF EnrollKeyfile, RaiseLuks
  <2> QED
    BY <1>6, <2>1, <2>2
<1>7. CASE EnrolToken
  <2>1. Kind \in {"tpm2", "fido2"}
    <3>1. Current \in Changes
      BY <1>7, LaterPlan DEF EnrolToken, TokenInstall, KeySound, Current
    <3> QED
      BY <1>7, <3>1 DEF EnrolToken, TokenInstall, Changes, Items, LuksKinds, Kind
  <2> QED
    BY <1>1, <1>7, <2>1, KeysFilled DEF EnrolToken, TokenInstall, SlotUse
<1>8. ASSUME NEW dump \in Dumps, WipeToken(dump)
      PROVE  OpensInv'
  BY <1>8, OpensWipe
<1> QED
  BY <1>2, <1>3, <1>4, <1>5, <1>6, <1>7, <1>8 DEF LuksSteps

\* A volume is encrypted and opened with a passphrase in the first keyslot.
LEMMA OpensEncrypt ==
  ASSUME OpensInv, pc' = "idle" => todo' = <<>>, UNCHANGED <<unlock, owned, todo>>,
         NEW formatted \in BOOLEAN, NEW opened \in BOOLEAN, Encrypt(formatted, opened)
  PROVE  OpensInv'
<1>1. CASE ~formatted
  <2>1. UNCHANGED <<content, header, mapper>>
    BY <1>1 DEF Encrypt
  <2> QED
    BY <2>1, KeysRest DEF OpensInv, LuksTypeOK, Encrypted, Shortened
<1>2. CASE formatted
  <2>1. header' = [NoSlots EXCEPT ![1] = "passphrase"]
    BY <1>2 DEF Encrypt
  <2>2. 1 \in Slots
    BY DiskAssumption DEF Slots
  <2>3. header' \in [Slots -> SlotUse] /\ header'[1] = "passphrase"
    BY <2>1, <2>2 DEF NoSlots, SlotUse
  <2>4. HasKey' /\ PassphraseWouldRemain(header')
    BY <2>2, <2>3 DEF HasKey, PassphraseWouldRemain, SlotsOf
  <2>5. todo' \in Plans(header')
    BY <2>4, PlansGrow DEF OpensInv, KeySound
  <2> QED
    BY <2>3, <2>4, <2>5 DEF OpensInv, LuksTypeOK, KeySound
<1> QED
  BY <1>1, <1>2

LEMMA OpensDisk ==
  ASSUME DiskInv, OpensInv, DiskPart
  PROVE  OpensInv'
<1>1. /\ UNCHANGED <<unlock, owned>> /\ Shortened(todo, todo')
      /\ pc' = "idle" => todo' = <<>>
  BY DEF DiskPart, Shortened
<1>2. unlock' \in UnlockType /\ owned' \subseteq owned \cup Declared
  BY <1>1 DEF OpensInv, LuksTypeOK
<1>3. ASSUME UNCHANGED <<content, mapper, header>>
      PROVE  OpensInv'
  BY <1>1, <1>2, <1>3, KeysRest DEF Encrypted
<1>4. CASE \/ Validate \/ KeepTable \/ EnableSwap
           \/ \E done, also \in BOOLEAN : BeginPartitions(done, also)
           \/ \E done \in BOOLEAN : \/ Wipe(done) \/ CreateTable(done) \/ CreatePartition(done)
                                    \/ MountPartition(done)
  BY <1>3, <1>4 DEF Validate, KeepTable, BeginPartitions, EnableSwap, Wipe, CreateTable,
     CreatePartition, MountPartition, disk
<1>5. ASSUME NEW done \in BOOLEAN, NEW also \in BOOLEAN, Encrypt(done, also)
      PROVE  OpensInv'
  <2>1. pc' # "idle" /\ todo' = todo
    BY <1>5 DEF Encrypt, DiskPart
  <2> QED
    BY <1>1, <1>5, <2>1, OpensEncrypt
<1>6. ASSUME NEW done \in BOOLEAN, NEW also \in BOOLEAN, Mkfs(done, also)
      PROVE  OpensInv'
  BY <1>1, <1>2, <1>6, MkfsEffect, KeysRest
<1>7. CASE SomebodyPartitions
  <2> DEFINE c == [Fresh(NoLabel, "ext4", FALSE) EXCEPT !.fresh = FALSE]
  <2>1. UNCHANGED <<mapper, header>> /\ content' = Put(content, 10, c)
    BY <1>7 DEF SomebodyPartitions
  <2>2. ~c.enc
    BY DEF Fresh
  <2> HIDE DEF c
  <2>3. Encrypted' => Encrypted
    BY <2>1, <2>2 DEF Encrypted, Put
  <2> QED
    BY <1>1, <1>2, <2>1, <2>3, KeysRest
<1> QED
  BY <1>4, <1>5, <1>6, <1>7 DEF DiskPart, DiskSteps

\* cryptsetup in the user's hands removes no last keyslot.
LEMMA OpensKill ==
  ASSUME OpensInv, NEW s \in Slots, HandKill(s)
  PROVE  OpensInv'
<1>1. /\ pc = "idle" /\ header' = [header EXCEPT ![s] = "free"]
      /\ UNCHANGED <<mapper, content, pc, todo, unlock, owned>>
  BY DEF HandKill
<1>2. PICK t \in Slots \ {s} : header[t] # "free"
  BY DEF HandKill
<1>3. header' \in [Slots -> SlotUse] /\ header'[t] = header[t]
  BY <1>1, <1>2 DEF OpensInv, LuksTypeOK, SlotUse
<1>4. HasKey'
  BY <1>2, <1>3 DEF HasKey
<1>5. todo' \in Plans(header')
  BY <1>1, EmptyPlan DEF OpensInv, KeySound
<1> QED
  BY <1>1, <1>3, <1>4, <1>5 DEF OpensInv, LuksTypeOK, KeySound

LEMMA OpensStart ==
  ASSUME DiskInv, OpensInv, NEW labels, NEW seen, NEW dump \in Dumps, NEW asked,
         StartApply(labels, seen, dump, asked)
  PROVE  OpensInv'
<1>1. /\ Age /\ UNCHANGED <<layout, table, mapper, header, unlock, owned>> /\ pc' # "idle"
      /\ todo' = PlanKeyfile \o PlanTokens(dump)
  BY DEF StartApply, ApplyDisk
<1>2. Encrypted' => Encrypted
  BY <1>1, AgeEffect DEF Encrypted
<1>3. todo' \in Plans(header')
  BY <1>1, PlanIs DEF OpensInv
<1> QED
  BY <1>1, <1>2, <1>3 DEF OpensInv, LuksTypeOK, KeySound, HasKey

LEMMA CountType == \A dump, kind : EnrolledCount(dump, kind) \in Nat
<1> SUFFICES ASSUME NEW dump, NEW kind
             PROVE  Cardinality(SlotsOf(dump, kind)) \in Nat
  BY DEF EnrolledCount
<1>1. IsFiniteSet(Slots)
  BY DiskAssumption, FS_Interval DEF Slots
<1>2. SlotsOf(dump, kind) \in SUBSET Slots
  BY DEF SlotsOf
<1>3. IsFiniteSet(SlotsOf(dump, kind))
  BY <1>1, <1>2, FS_Subset
<1> QED
  BY <1>3, FS_CardinalityType

\* sync counts the tokens of a header it can read.
LEMMA OpensSync ==
  ASSUME OpensInv, NEW dump, NEW read, Sync(dump, read)
  PROVE  OpensInv'
<1>1. /\ UNCHANGED <<mapper, content, header, pc, todo>>
      /\ owned' \subseteq owned \cup Declared
  BY DEF Sync, CaptureDisk, SyncLuks, disk
<1>2. unlock' = [unlock EXCEPT !.password = FALSE,
                    !.fido2 = IF Open /\ read THEN EnrolledCount(dump, "fido2") ELSE @,
                    !.tpm2 = IF Open /\ read THEN EnrolledCount(dump, "tpm2") > 0 ELSE @]
  BY DEF Sync, SyncLuks
<1>3. unlock' \in UnlockType
  <2> DEFINE keys == IF Open /\ read THEN EnrolledCount(dump, "fido2") ELSE unlock.fido2
             chip == IF Open /\ read THEN EnrolledCount(dump, "tpm2") > 0 ELSE unlock.tpm2
  <2>1. unlock \in UnlockType
    BY DEF OpensInv, LuksTypeOK
  <2>2. keys \in Nat
    BY <2>1, CountType DEF UnlockType
  <2>3. chip \in BOOLEAN
    <3>1. unlock.tpm2 \in BOOLEAN
      BY <2>1 DEF UnlockType
    <3>2. (EnrolledCount(dump, "tpm2") > 0) \in BOOLEAN
      OBVIOUS
    <3> QED
      BY <3>1, <3>2, Zenon
  <2>4. unlock' = [unlock EXCEPT !.password = FALSE, !.fido2 = keys, !.tpm2 = chip]
    BY <1>2, <2>1 DEF UnlockType
  <2> HIDE DEF keys, chip
  <2> QED
    BY <2>1, <2>2, <2>3, <2>4 DEF UnlockType
<1> QED
  BY <1>1, <1>3, KeysRest DEF OpensInv, KeySound, Encrypted, Shortened

LEMMA OpensInductive == DiskInv /\ OpensInv /\ [Next]_vars => OpensInv'
<1> SUFFICES ASSUME DiskInv, OpensInv, [Next]_vars
             PROVE  OpensInv'
  OBVIOUS
<1>1. ASSUME NEW labels, NEW seen, NEW dump \in Dumps, NEW asked,
             StartApply(labels, seen, dump, asked)
      PROVE  OpensInv'
  BY <1>1, OpensStart
<1>2. CASE DiskPart
  BY <1>2, OpensDisk
<1>3. CASE LuksSteps
  BY <1>3, OpensLuks
<1>4. ASSUME NEW dump, NEW read, Sync(dump, read)
      PROVE  OpensInv'
  BY <1>4, OpensSync
<1> USE DEF OpensInv, LuksTypeOK, KeySound, Shortened, Encrypted, disk, diskVars
<1>5. ASSUME NEW u \in Unlocks, Edit(u)
      PROVE  OpensInv'
  <2>1. unlock' \in UnlockType
    BY <1>5, UnlockAssumption DEF Edit, UnlockType
  <2> QED
    BY <1>5, <2>1, KeysRest DEF Edit
<1>6. ASSUME NEW kind \in {"passphrase", "fido2"}, HandEnrol(kind)
      PROVE  OpensInv'
  BY <1>6, KeysFilled DEF HandEnrol, SlotUse
<1>7. ASSUME NEW s \in Slots, HandKill(s)
      PROVE  OpensInv'
  BY <1>7, OpensKill
<1>8. CASE PlugOrUnplug \/ UNCHANGED vars
  BY <1>8, KeysRest DEF PlugOrUnplug, vars, luksVars
<1>9. CASE Unlock
  BY <1>9 DEF Unlock, luksVars, HasKey
<1>10. CASE (Die \/ PowerCut) /\ CutShort
  BY <1>10, KeysRest DEF Die, PowerCut, CutShort
<1> QED
  BY <1>1, <1>2, <1>3, <1>4, <1>5, <1>6, <1>7, <1>8, <1>9, <1>10 DEF Next

\* An encrypted volume always has a keyslot that opens it: a plan to remove tokens is
\* made only on a header with a passphrase or a key file, and until it is carried out
\* no step frees that keyslot - no removal, since none touches the keyslots of another
\* kind, and not the disk action, which leaves a passphrase in every header it makes.
THEOREM SomethingOpens == Spec => []StillOpens
<1>1. Init => OpensInv
  BY OpensInit
<1>2. DiskInv /\ OpensInv /\ [Next]_vars => OpensInv'
  BY OpensInductive
<1>3. OpensInv => StillOpens
  BY DEF OpensInv, KeySound, Encrypted, HasKey, StillOpens, NoSlots, Starts
<1> QED
  BY <1>1, <1>2, <1>3, DiskIsSound, PTL DEF Spec

-----------------------------------------------------------------------------
(***************************************************************************)
(* What is declared gets enrolled                                          *)
(***************************************************************************)

Tokens == {"tpm2", "fido2"}

Ops(op, kind) == {c \in Changes : c.op = op /\ c.item.kind = kind}
Removals == Ops("remove", "tpm2") \cup Ops("remove", "fido2")

\* How many changes of a plan are of a set of them.
Places(list, S) == {n \in DOMAIN list : list[n] \in S}
HowMany(list, S) == Cardinality(Places(list, S))

LEMMA PlacesFinite ==
  ASSUME NEW list \in Seq(Changes), NEW S
  PROVE  IsFiniteSet(Places(list, S)) /\ HowMany(list, S) \in Nat
<1>1. Places(list, S) \in SUBSET (1 .. Len(list)) /\ Len(list) \in Nat
  BY LenProperties DEF Places
<1>2. IsFiniteSet(1 .. Len(list))
  BY <1>1, FS_Interval
<1>3. IsFiniteSet(Places(list, S))
  BY <1>1, <1>2, FS_Subset
<1> QED
  BY <1>3, FS_CardinalityType DEF HowMany

\* Sets that a function puts in a one to one relation are as large.
LEMMA SameSize ==
  ASSUME NEW S, NEW T, IsFiniteSet(S), NEW f \in [S -> T],
         \A x, y \in S : f[x] = f[y] => x = y, \A t \in T : \E x \in S : f[x] = t
  PROVE  IsFiniteSet(T) /\ Cardinality(T) = Cardinality(S)
<1>1. f \in Bijection(S, T)
  BY DEF Bijection, Injection, IsInjective, Surjection
<1>2. ExistsBijection(S, T)
  BY <1>1 DEF ExistsBijection
<1> QED
  BY <1>2, FS_Bijection

LEMMA TailCounts ==
  ASSUME NEW list \in Seq(Changes), list # <<>>, NEW S
  PROVE  HowMany(list, S) = HowMany(Tail(list), S) + (IF Head(list) \in S THEN 1 ELSE 0)
<1> DEFINE P == Places(list, S)
           Q == Places(Tail(list), S)
           f == [n \in Q |-> n + 1]
<1>1. /\ Tail(list) \in Seq(Changes) /\ Len(list) \in Nat \ {0} /\ Len(Tail(list)) = Len(list) - 1
      /\ \A n \in 1 .. Len(list) - 1 : Tail(list)[n] = list[n + 1]
      /\ DOMAIN list = 1 .. Len(list) /\ DOMAIN Tail(list) = 1 .. Len(list) - 1
      /\ Head(list) = list[1]
  <2>1. Tail(list) \in Seq(Changes) /\ Len(list) \in Nat \ {0} /\ Len(Tail(list)) = Len(list) - 1
        /\ \A n \in 1 .. Len(Tail(list)) : Tail(list)[n] = list[n + 1]
    BY HeadTailProperties, EmptySeq, LenProperties
  <2>2. DOMAIN list = 1 .. Len(list) /\ DOMAIN Tail(list) = 1 .. Len(Tail(list))
    BY <2>1, LenProperties
  <2> QED
    BY <2>1, <2>2
<1>2. f \in [Q -> P \ {1}]
  BY <1>1 DEF Places
<1>3. \A x, y \in Q : f[x] = f[y] => x = y
  BY <1>1 DEF Places
<1>4. ASSUME NEW t \in P \ {1}
      PROVE  \E x \in Q : f[x] = t
  <2>1. t - 1 \in Q /\ f[t - 1] = t
    BY <1>1, <1>4 DEF Places
  <2> QED
    BY <2>1
<1>5. IsFiniteSet(P) /\ IsFiniteSet(Q) /\ Cardinality(P) \in Nat /\ Cardinality(Q) \in Nat
  BY <1>1, PlacesFinite DEF HowMany
<1>6. 1 \in P <=> Head(list) \in S
  BY <1>1 DEF Places
<1> HIDE DEF P, Q, f
<1>7. Cardinality(P \ {1}) = Cardinality(Q)
  BY <1>2, <1>3, <1>4, <1>5, SameSize
<1>8. Cardinality(P \ {1}) = IF 1 \in P THEN Cardinality(P) - 1 ELSE Cardinality(P)
  BY <1>5, FS_RemoveElement
<1>9. HowMany(list, S) = Cardinality(P) /\ HowMany(Tail(list), S) = Cardinality(Q)
  BY DEF HowMany, P, Q
<1> QED
  BY <1>5, <1>6, <1>7, <1>8, <1>9

LEMMA ConcatCounts ==
  ASSUME NEW a \in Seq(Changes), NEW b \in Seq(Changes), NEW S
  PROVE  HowMany(a \o b, S) = HowMany(a, S) + HowMany(b, S)
<1> DEFINE P == Places(a, S)
           Q == Places(b, S)
           R == {n \in Places(a \o b, S) : n > Len(a)}
           f == [n \in Q |-> n + Len(a)]
<1>1. /\ Len(a) \in Nat /\ Len(b) \in Nat
      /\ DOMAIN a = 1 .. Len(a) /\ DOMAIN b = 1 .. Len(b)
      /\ DOMAIN (a \o b) = 1 .. Len(a) + Len(b)
      /\ \A n \in 1 .. Len(a) : (a \o b)[n] = a[n]
      /\ \A n \in 1 .. Len(b) : (a \o b)[n + Len(a)] = b[n]
  <2>1. /\ a \o b \in Seq(Changes) /\ Len(a \o b) = Len(a) + Len(b)
        /\ \A i \in 1 .. Len(a) + Len(b) : (a \o b)[i] = IF i <= Len(a) THEN a[i] ELSE b[i - Len(a)]
    BY ConcatProperties
  <2>2. /\ Len(a) \in Nat /\ Len(b) \in Nat
        /\ DOMAIN a = 1 .. Len(a) /\ DOMAIN b = 1 .. Len(b)
        /\ DOMAIN (a \o b) = 1 .. Len(a) + Len(b)
    BY <2>1, LenProperties
  <2>3. ASSUME NEW n \in 1 .. Len(a)
        PROVE  (a \o b)[n] = a[n]
    <3>1. n \in 1 .. Len(a) + Len(b) /\ n <= Len(a)
      BY <2>2
    <3> QED
      BY <2>1, <3>1
  <2>4. ASSUME NEW n \in 1 .. Len(b)
        PROVE  (a \o b)[n + Len(a)] = b[n]
    <3>1. n + Len(a) \in 1 .. Len(a) + Len(b) /\ ~(n + Len(a) <= Len(a)) /\ (n + Len(a)) - Len(a) = n
      BY <2>2
    <3> QED
      BY <2>1, <3>1
  <2> QED
    BY <2>2, <2>3, <2>4
<1>2. Places(a \o b, S) = P \cup R /\ P \cap R = {}
  BY <1>1 DEF Places
<1>3. f \in [Q -> R]
  BY <1>1 DEF Places
<1>4. \A x, y \in Q : f[x] = f[y] => x = y
  BY <1>1 DEF Places
<1>5. ASSUME NEW t \in R
      PROVE  \E x \in Q : f[x] = t
  <2>1. t \in 1 .. Len(a) + Len(b) /\ t > Len(a) /\ (a \o b)[t] \in S
    BY <1>1 DEF Places
  <2>2. t - Len(a) \in 1 .. Len(b) /\ (t - Len(a)) + Len(a) = t
    BY <1>1, <2>1
  <2>3. b[t - Len(a)] \in S
    BY <1>1, <2>1, <2>2
  <2>4. t - Len(a) \in Q /\ f[t - Len(a)] = t
    BY <1>1, <2>2, <2>3 DEF Places
  <2> QED
    BY <2>4
<1>6. IsFiniteSet(P) /\ IsFiniteSet(Q) /\ Cardinality(P) \in Nat /\ Cardinality(Q) \in Nat
  BY PlacesFinite DEF HowMany
<1> HIDE DEF P, Q, R, f
<1>7. IsFiniteSet(R) /\ Cardinality(R) = Cardinality(Q)
  BY <1>3, <1>4, <1>5, <1>6, SameSize
<1>8. Cardinality(P \cup R) = Cardinality(P) + Cardinality(R) - Cardinality(P \cap R)
  BY <1>6, <1>7, FS_Union
<1>9. Cardinality(P \cap R) = 0
  BY <1>2, FS_EmptySet
<1>10. HowMany(a \o b, S) = Cardinality(P \cup R)
  BY <1>2 DEF HowMany
<1>11. HowMany(a, S) = Cardinality(P) /\ HowMany(b, S) = Cardinality(Q)
  BY DEF HowMany, P, Q
<1> QED
  BY <1>6, <1>7, <1>8, <1>9, <1>10, <1>11

\* The changes of a set of items are as many as the items.
LEMMA OrderCounts ==
  ASSUME NEW items, items \subseteq Items, Bounded(items), NEW kind,
         \A i \in items : i.kind = kind, NEW op, NEW S
  PROVE  /\ (\A i \in items : Change(op, i) \in S) => HowMany(InOrder(op, items), S) = Cardinality(items)
         /\ (\A i \in items : Change(op, i) \notin S) => HowMany(InOrder(op, items), S) = 0
<1> DEFINE The(n) == CHOOSE i \in items : Cardinality({j \in items : j.index < i.index}) = n - 1
           c == Cardinality(items)
<1>1. c \in Nat /\ \A n \in 1 .. c : The(n) \in items
  BY EveryRank
<1>2. InOrder(op, items) = [n \in 1 .. c |-> Change(op, The(n))]
  BY DEF InOrder
<1> HIDE DEF The, c
<1>3. ASSUME \A i \in items : Change(op, i) \in S
      PROVE  HowMany(InOrder(op, items), S) = c
  <2>1. Places(InOrder(op, items), S) = 1 .. c
    BY <1>1, <1>2, <1>3 DEF Places
  <2>2. Cardinality(1 .. c) = IF 1 > c THEN 0 ELSE c - 1 + 1
    BY <1>1, FS_Interval
  <2> QED
    BY <1>1, <2>1, <2>2 DEF HowMany
<1>4. ASSUME \A i \in items : Change(op, i) \notin S
      PROVE  HowMany(InOrder(op, items), S) = 0
  <2>1. Places(InOrder(op, items), S) = {}
    BY <1>1, <1>2, <1>4 DEF Places
  <2> QED
    BY <2>1, FS_EmptySet DEF HowMany
<1> QED
  BY <1>3, <1>4 DEF c

\* Items of a kind with indices between two numbers: no more than the numbers.
LEMMA ItemsBetween ==
  ASSUME NEW items, items \subseteq Items, NEW kind, \A i \in items : i.kind = kind,
         NEW low \in Nat, NEW high \in Nat, \A i \in items : low < i.index /\ i.index <= high
  PROVE  /\ IsFiniteSet(items) /\ Cardinality(items) \in Nat
         /\ low <= high => Cardinality(items) <= high - low
         /\ high < low => Cardinality(items) = 0
<1> DEFINE f == [i \in items |-> i.index]
           s == low + 1 .. high
<1>1. \A i \in items : i.index \in s
  BY DEF Items
<1>2. \A i, j \in items : i.index = j.index => i = j
  BY DEF Items
<1>3. f \in Injection(items, s)
  BY <1>1, <1>2 DEF Injection, IsInjective
<1>4. IsFiniteSet(s) /\ Cardinality(s) = IF low + 1 > high THEN 0 ELSE high - (low + 1) + 1
  BY FS_Interval
<1> HIDE DEF f, s
<1>5. IsFiniteSet(items) /\ Cardinality(items) <= Cardinality(s)
  BY <1>3, <1>4, FS_Injection
<1>6. Cardinality(items) \in Nat
  BY <1>5, FS_CardinalityType
<1> QED
  BY <1>4, <1>5, <1>6

\* All of them: no fewer.
LEMMA ItemsAll ==
  ASSUME NEW items, IsFiniteSet(items), NEW kind, NEW low \in Nat, NEW high \in Nat,
         \A n \in low + 1 .. high : Item(kind, n) \in items
  PROVE  low <= high => Cardinality(items) >= high - low
<1> DEFINE s == low + 1 .. high
           f == [n \in s |-> Item(kind, n)]
<1>1. f \in Injection(s, items)
  BY DEF Injection, IsInjective, Item
<1>2. IsFiniteSet(s) /\ Cardinality(s) = IF low + 1 > high THEN 0 ELSE high - (low + 1) + 1
  BY FS_Interval
<1> HIDE DEF s, f
<1>3. Cardinality(s) <= Cardinality(items) /\ Cardinality(items) \in Nat
  BY <1>1, FS_Injection, FS_CardinalityType
<1> QED
  BY <1>2, <1>3

\* What of a kind is there to unlock with.
Held(kind) == IF Open THEN EnrolledCount(header, kind) ELSE 0

\* Nothing that is declared is left out of the plan, and nothing is planned away that is
\* declared: tokens are only counted, so that is all there is to it.
Enough ==
  \A kind \in Tokens \ skipped :
    Held(kind) + HowMany(todo, Ops("install", kind)) >= Count(kind) + HowMany(todo, Ops("remove", kind))

\* Tokens are removed after all else, so that no keyslot is wiped and filled again.
InTurn(list) == \A m, n \in DOMAIN list : m < n /\ list[m] \in Removals => list[n] \in Removals
WipedSound ==
  /\ \A s \in wiped : s \in Slots /\ header[s] = "free"
  /\ wiped # {} => pc = "done" /\ todo \in Seq(Removals)

KeySettled == unlock.keyfile => KeyWorks \/ Places(todo, Ops("install", "keyfile")) # {}

Settling == Enough /\ InTurn(todo) /\ WipedSound /\ KeySettled
SettleInv == pc # "idle" => Settling

LEMMA PlanInChanges ==
  ASSUME OpensInv
  PROVE  todo \in Seq(Changes)
<1>1. Harmless \subseteq Changes
  BY DEF Harmless
<1> QED
  BY <1>1, SeqMonotonic DEF OpensInv, KeySound, Plans

LEMMA CountIs ==
  ASSUME unlock \in UnlockType, NEW kind \in LuksKinds
  PROVE  Count(kind) \in Nat /\ \A i : i \in Declared /\ i.kind = kind <=> \E n \in 1 .. Count(kind) : i = Item(kind, n)
<1>1. \A k \in LuksKinds : Count(k) \in Nat
  BY DEF UnlockType, Count, LuksKinds
<1>2. \A i : i \in Declared <=> \E k \in LuksKinds : \E n \in 1 .. Count(k) : i = Item(k, n)
  BY DEF Declared, LuksKinds
<1>3. Count(kind) \in Nat
  BY <1>1
<1>4. \A i : i \in Declared /\ i.kind = kind <=> \E n \in 1 .. Count(kind) : i = Item(kind, n)
  <2> SUFFICES ASSUME NEW i
               PROVE  i \in Declared /\ i.kind = kind <=> \E n \in 1 .. Count(kind) : i = Item(kind, n)
    OBVIOUS
  <2>1. \A k, n : Item(k, n).kind = k
    BY DEF Item
  <2>2. ASSUME i \in Declared, i.kind = kind
        PROVE  \E n \in 1 .. Count(kind) : i = Item(kind, n)
    <3>1. PICK k \in LuksKinds : \E n \in 1 .. Count(k) : i = Item(k, n)
      BY <1>2, <2>2
    <3> QED
      BY <2>1, <2>2, <3>1
  <2>3. ASSUME NEW n \in 1 .. Count(kind), i = Item(kind, n)
        PROVE  i \in Declared /\ i.kind = kind
    BY <1>2, <2>1, <2>3
  <2> QED
    BY <2>2, <2>3
<1> QED
  BY <1>3, <1>4

LEMMA HeldIs == \A kind : Held(kind) \in Nat
BY CountType DEF Held

\* As many tokens are missing as are declared and not there; no more are surplus than
\* are there beyond those declared.
LEMMA MissingCounts ==
  ASSUME LuksTypeOK, NEW kind \in Tokens
  PROVE  /\ Missing(header, kind) \subseteq Items /\ Bounded(Missing(header, kind))
         /\ Surplus(header, kind) \subseteq Items /\ Bounded(Surplus(header, kind))
         /\ Cardinality(Missing(header, kind)) \in Nat /\ Cardinality(Surplus(header, kind)) \in Nat
         /\ Held(kind) + Cardinality(Missing(header, kind)) >= Count(kind) + Cardinality(Surplus(header, kind))
<1> DEFINE missing == Missing(header, kind)
           surplus == Surplus(header, kind)
           h == Held(kind)
           c == Count(kind)
<1>1. kind \in LuksKinds /\ unlock \in UnlockType /\ owned \subseteq Items /\ Bounded(owned)
  BY DEF Tokens, LuksKinds, LuksTypeOK
<1>2. c \in Nat /\ \A i : i \in Declared /\ i.kind = kind <=> \E n \in 1 .. c : i = Item(kind, n)
  BY <1>1, CountIs
<1>3. h \in Nat
  BY HeldIs
<1>4. Declared \subseteq Items /\ Bounded(Declared)
  BY <1>1, DeclaredIs
<1>5. missing \subseteq Declared /\ surplus \subseteq owned
  BY DEF Missing, Surplus
<1>6. missing \subseteq Items /\ Bounded(missing) /\ surplus \subseteq Items /\ Bounded(surplus)
  BY <1>1, <1>4, <1>5, BoundedUnion
<1>7. \A i \in Items : i \in missing <=> i \in Declared /\ i.kind = kind /\ i.index > h
  <2>1. \A i \in Items : i.index > 0
    BY DEF Items
  <2> QED
    BY <1>5, <1>6, <2>1 DEF Missing, Held
<1>8. \A i \in surplus : i.kind = kind /\ i.index <= h /\ i \notin Declared
  BY DEF Surplus, Held
<1> HIDE DEF missing, surplus, h, c
<1>9. /\ IsFiniteSet(missing) /\ Cardinality(missing) \in Nat
  <2>1. \A i \in missing : i.kind = kind /\ h < i.index /\ i.index <= c
    BY <1>2, <1>3, <1>6, <1>7 DEF Item
  <2> QED
    BY <1>2, <1>3, <1>6, <2>1, ItemsBetween
<1>10. h <= c => Cardinality(missing) >= c - h
  <2>1. \A n \in h + 1 .. c : Item(kind, n) \in missing
    <3> SUFFICES ASSUME NEW n \in h + 1 .. c
                 PROVE  Item(kind, n) \in missing
      OBVIOUS
    <3>1. n \in 1 .. c /\ n > h
      BY <1>2, <1>3
    <3>2. Item(kind, n) \in Declared /\ Item(kind, n).kind = kind /\ Item(kind, n).index = n
      BY <1>2, <3>1 DEF Item
    <3> QED
      BY <1>4, <1>7, <3>1, <3>2
  <2> QED
    BY <1>2, <1>3, <1>9, <2>1, ItemsAll
<1>11. /\ Cardinality(surplus) \in Nat /\ (c <= h => Cardinality(surplus) <= h - c)
       /\ (h < c => Cardinality(surplus) = 0)
  <2>1. \A i \in surplus : i.kind = kind /\ c < i.index /\ i.index <= h
    <3> SUFFICES ASSUME NEW i \in surplus, ~(c < i.index)
                 PROVE  FALSE
      BY <1>8
    <3>1. i \in Items /\ i.index \in 1 .. c /\ i.kind = kind
      BY <1>2, <1>6, <1>8 DEF Items
    <3>2. i = Item(kind, i.index)
      BY <3>1 DEF Items, Item
    <3> QED
      BY <1>2, <1>8, <3>1, <3>2
  <2> QED
    BY <1>2, <1>3, <1>6, <2>1, ItemsBetween
<1>12. h + Cardinality(missing) >= c + Cardinality(surplus)
  BY <1>2, <1>3, <1>9, <1>10, <1>11
<1> QED
  BY <1>6, <1>9, <1>11, <1>12 DEF missing, surplus, h, c

\* A change is told by its operation and its kind.
LEMMA OtherOps ==
  ASSUME NEW op \in {"install", "remove"}, NEW op2 \in {"install", "remove"},
         NEW kind \in LuksKinds, NEW i \in Items
  PROVE  /\ Change(op, i) \in Changes
         /\ Change(op, i) \in Ops(op2, kind) <=> op = op2 /\ i.kind = kind
BY DEF Change, Changes, Ops

\* Two plans in turn make one, unless tokens removed by the first come before other
\* changes of the second.
LEMMA TurnConcat ==
  ASSUME NEW a \in Seq(Changes), NEW b \in Seq(Changes), InTurn(a), InTurn(b),
         a \in Seq(Changes \ Removals) \/ b \in Seq(Removals)
  PROVE  InTurn(a \o b)
<1>1. /\ Len(a) \in Nat /\ Len(b) \in Nat /\ DOMAIN a = 1 .. Len(a) /\ DOMAIN b = 1 .. Len(b)
      /\ DOMAIN (a \o b) = 1 .. Len(a) + Len(b)
      /\ \A i \in 1 .. Len(a) + Len(b) : (a \o b)[i] = IF i <= Len(a) THEN a[i] ELSE b[i - Len(a)]
  BY ConcatProperties, LenProperties
<1>2. CASE a \in Seq(Changes \ Removals)
  <2>1. \A i \in 1 .. Len(a) : a[i] \notin Removals
    BY <1>1, <1>2, ElementOfSeq
  <2> QED
    BY <1>1, <2>1 DEF InTurn
<1>3. CASE b \in Seq(Removals)
  <2>1. \A i \in 1 .. Len(b) : b[i] \in Removals
    BY <1>1, <1>3, ElementOfSeq
  <2> QED
    BY <1>1, <2>1 DEF InTurn
<1> QED
  BY <1>2, <1>3

\* A part of a plan: what its changes are, and how many of each kind.
LEMMA PartCounts ==
  ASSUME NEW items, items \subseteq Items, Bounded(items), NEW kind \in LuksKinds,
         \A i \in items : i.kind = kind, NEW op \in {"install", "remove"}
  PROVE  /\ InOrder(op, items) \in Seq(Changes)
         /\ op = "install" \/ kind = "keyfile" => InOrder(op, items) \in Seq(Changes \ Removals)
         /\ op = "remove" /\ kind # "keyfile" => InOrder(op, items) \in Seq(Removals)
         /\ \A o \in {"install", "remove"}, k \in LuksKinds :
               HowMany(InOrder(op, items), Ops(o, k)) =
                   IF o = op /\ k = kind THEN Cardinality(items) ELSE 0
<1>1. \A i \in items : /\ Change(op, i) \in Changes
                       /\ Change(op, i) \in Removals <=> op = "remove" /\ kind # "keyfile"
                       /\ \A o \in {"install", "remove"}, k \in LuksKinds :
                             Change(op, i) \in Ops(o, k) <=> o = op /\ k = kind
  <2> SUFFICES ASSUME NEW i \in items
               PROVE  /\ Change(op, i) \in Changes
                      /\ Change(op, i) \in Removals <=> op = "remove" /\ kind # "keyfile"
                      /\ \A o \in {"install", "remove"}, k \in LuksKinds :
                            Change(op, i) \in Ops(o, k) <=> o = op /\ k = kind
    OBVIOUS
  <2>1. i \in Items /\ i.kind = kind
    OBVIOUS
  <2>2. Change(op, i) \in Changes /\ \A o \in {"install", "remove"}, k \in LuksKinds :
            Change(op, i) \in Ops(o, k) <=> o = op /\ k = kind
    BY <2>1, OtherOps
  <2>3. {"tpm2", "fido2"} \subseteq LuksKinds /\ (kind = "keyfile" \/ kind = "tpm2" \/ kind = "fido2")
    BY DEF LuksKinds
  <2>4. Change(op, i) \in Removals <=> op = "remove" /\ kind # "keyfile"
    BY <2>2, <2>3 DEF Removals
  <2> QED
    BY <2>2, <2>4
<1>2. InOrder(op, items) \in Seq(Changes)
  BY <1>1, InOrderIs
<1>3. ASSUME op = "install" \/ kind = "keyfile"
      PROVE  InOrder(op, items) \in Seq(Changes \ Removals)
  <2>1. \A i \in items : Change(op, i) \in Changes \ Removals
    BY <1>1, <1>3
  <2> QED
    BY <2>1, InOrderIs
<1>4. ASSUME op = "remove" /\ kind # "keyfile"
      PROVE  InOrder(op, items) \in Seq(Removals)
  <2>1. \A i \in items : Change(op, i) \in Removals
    BY <1>1, <1>4
  <2> QED
    BY <2>1, InOrderIs
<1>5. ASSUME NEW o \in {"install", "remove"}, NEW k \in LuksKinds
      PROVE  HowMany(InOrder(op, items), Ops(o, k)) = IF o = op /\ k = kind THEN Cardinality(items) ELSE 0
  <2>1. CASE o = op /\ k = kind
    <3>1. \A i \in items : Change(op, i) \in Ops(o, k)
      BY <1>1, <2>1
    <3> QED
      BY <2>1, <3>1, OrderCounts
  <2>2. CASE ~(o = op /\ k = kind)
    <3>1. \A i \in items : Change(op, i) \notin Ops(o, k)
      BY <1>1, <2>2
    <3> QED
      BY <2>2, <3>1, OrderCounts
  <2> QED
    BY <2>1, <2>2
<1> QED
  BY <1>2, <1>3, <1>4, <1>5

\* One of a kind is there when one is counted.
LEMMA Counted ==
  ASSUME NEW list, NEW S, HowMany(list, S) # 0
  PROVE  Places(list, S) # {}
BY FS_EmptySet DEF HowMany

\* A plan of removals only, or without any, is in turn.
LEMMA EarlyOnly == \A a : a \in Seq(Changes \ Removals) \/ a \in Seq(Removals) => InTurn(a)
<1> SUFFICES ASSUME NEW a, a \in Seq(Changes \ Removals) \/ a \in Seq(Removals)
             PROVE  InTurn(a)
  OBVIOUS
<1>1. (\A n \in DOMAIN a : a[n] \notin Removals) \/ (\A n \in DOMAIN a : a[n] \in Removals)
  BY ElementOfSeq, LenProperties
<1> QED
  BY <1>1 DEF InTurn

\* Keyfile first, then the tokens to enrol, then those to remove.
LEMMA PlanSettles ==
  ASSUME LuksTypeOK
  PROVE  LET plan == PlanKeyfile \o PlanTokens(header)
         IN  /\ InTurn(plan)
             /\ \A kind \in Tokens :
                   /\ HowMany(plan, Ops("install", kind)) = Cardinality(Missing(header, kind))
                   /\ HowMany(plan, Ops("remove", kind)) = Cardinality(Surplus(header, kind))
             /\ unlock.keyfile /\ ~KeyWorks => Places(plan, Ops("install", "keyfile")) # {}
<1> DEFINE new == IF unlock.keyfile /\ ~(attached /\ KeyWorks) THEN {Item("keyfile", 1)} ELSE {}
           old == {i \in owned \ Declared : i.kind = "keyfile"}
           m == InOrder("install", new)
           n == InOrder("remove", old)
           k == m \o n
           a == InOrder("install", Missing(header, "tpm2"))
           b == InOrder("install", Missing(header, "fido2"))
           c == InOrder("remove", Surplus(header, "tpm2"))
           d == InOrder("remove", Surplus(header, "fido2"))
<1>1. PlanKeyfile = k /\ PlanTokens(header) = a \o b \o c \o d
  BY DEF PlanKeyfile, PlanTokens
<1>2. new \subseteq Items /\ Bounded(new) /\ \A i \in new : i.kind = "keyfile"
  <2>1. \A i \in new : i = Item("keyfile", 1)
    OBVIOUS
  <2>2. Item("keyfile", 1) \in Items /\ Item("keyfile", 1).index <= 1
        /\ Item("keyfile", 1).kind = "keyfile"
    BY DEF Item, Items, LuksKinds
  <2> HIDE DEF new
  <2> QED
    BY <2>1, <2>2 DEF Bounded
<1>3. old \subseteq Items /\ Bounded(old) /\ \A i \in old : i.kind = "keyfile"
  <2>1. old \subseteq owned /\ owned \subseteq Items /\ Bounded(owned)
    BY DEF LuksTypeOK
  <2> HIDE DEF old
  <2>2. old \subseteq Items /\ Bounded(old)
    BY <2>1, BoundedUnion
  <2> QED
    BY <2>2 DEF old
<1>4. unlock.keyfile /\ ~KeyWorks => Cardinality(new) = 1
  BY FS_Singleton
<1>5. \A kind \in Tokens :
         /\ Missing(header, kind) \subseteq Items /\ Bounded(Missing(header, kind))
         /\ Surplus(header, kind) \subseteq Items /\ Bounded(Surplus(header, kind))
         /\ \A i \in Missing(header, kind) \cup Surplus(header, kind) : i.kind = kind
         /\ Cardinality(Missing(header, kind)) \in Nat /\ Cardinality(Surplus(header, kind)) \in Nat
  BY MissingCounts DEF Missing, Surplus
<1> HIDE DEF new, old
<1>6. LuksKinds = {"tpm2", "fido2", "keyfile"} /\ Tokens = {"tpm2", "fido2"}
  BY DEF LuksKinds, Tokens
<1> DEFINE Shares(p, op, kind, size) ==
             \A o \in {"install", "remove"}, j \in LuksKinds :
                 HowMany(p, Ops(o, j)) = IF o = op /\ j = kind THEN size ELSE 0
<1>7. m \in Seq(Changes \ Removals) /\ Shares(m, "install", "keyfile", Cardinality(new))
  BY <1>2, <1>6, PartCounts
<1>8. n \in Seq(Changes \ Removals) /\ Shares(n, "remove", "keyfile", Cardinality(old))
  BY <1>3, <1>6, PartCounts
<1>9. a \in Seq(Changes \ Removals) /\ Shares(a, "install", "tpm2", Cardinality(Missing(header, "tpm2")))
  BY <1>5, <1>6, PartCounts
<1>10. b \in Seq(Changes \ Removals) /\ Shares(b, "install", "fido2", Cardinality(Missing(header, "fido2")))
  BY <1>5, <1>6, PartCounts
<1>11. c \in Seq(Removals) /\ Shares(c, "remove", "tpm2", Cardinality(Surplus(header, "tpm2")))
  BY <1>5, <1>6, PartCounts
<1>12. d \in Seq(Removals) /\ Shares(d, "remove", "fido2", Cardinality(Surplus(header, "fido2")))
  BY <1>5, <1>6, PartCounts
<1> HIDE DEF m, n, a, b, c, d
<1>13. k \in Seq(Changes \ Removals) /\ \A S : HowMany(k, S) = HowMany(m, S) + HowMany(n, S)
  <2>1. m \in Seq(Changes) /\ n \in Seq(Changes)
    <3>1. Changes \ Removals \subseteq Changes
      OBVIOUS
    <3> QED
      BY <1>7, <1>8, <3>1, SeqMonotonic
  <2> QED
    BY <1>7, <1>8, <2>1, ConcatProperties, ConcatCounts
<1> HIDE DEF k
<1>14. /\ Removals \subseteq Changes /\ Changes \ Removals \subseteq Changes
       /\ k \in Seq(Changes) /\ a \in Seq(Changes) /\ b \in Seq(Changes)
       /\ c \in Seq(Changes) /\ d \in Seq(Changes)
  <2>1. Removals \subseteq Changes
    BY DEF Removals, Ops
  <2>2. Changes \ Removals \subseteq Changes
    OBVIOUS
  <2> QED
    BY <1>9, <1>10, <1>11, <1>12, <1>13, <2>1, <2>2, SeqMonotonic
<1>18. InTurn(k) /\ InTurn(a) /\ InTurn(b) /\ InTurn(c) /\ InTurn(d)
  BY <1>9, <1>10, <1>11, <1>12, <1>13, EarlyOnly
<1> DEFINE ab == a \o b
           abc == ab \o c
           abcd == abc \o d
           plan == k \o abcd
<1>19. plan = PlanKeyfile \o PlanTokens(header)
  BY <1>1
<1>20. ab \in Seq(Changes) /\ InTurn(ab) /\ \A S : HowMany(ab, S) = HowMany(a, S) + HowMany(b, S)
  BY <1>9, <1>14, <1>18, ConcatProperties, ConcatCounts, TurnConcat
<1> HIDE DEF ab
<1>21. abc \in Seq(Changes) /\ InTurn(abc) /\ \A S : HowMany(abc, S) = HowMany(ab, S) + HowMany(c, S)
  BY <1>11, <1>14, <1>18, <1>20, ConcatProperties, ConcatCounts, TurnConcat
<1> HIDE DEF abc
<1>22. abcd \in Seq(Changes) /\ InTurn(abcd) /\ \A S : HowMany(abcd, S) = HowMany(abc, S) + HowMany(d, S)
  BY <1>12, <1>14, <1>18, <1>21, ConcatProperties, ConcatCounts, TurnConcat
<1> HIDE DEF abcd
<1>23. InTurn(plan) /\ \A S : HowMany(plan, S) = HowMany(k, S) + HowMany(abcd, S)
  BY <1>13, <1>14, <1>18, <1>22, ConcatCounts, TurnConcat
<1> HIDE DEF plan
<1>24. \A l \in {m, n, a, b, c, d} : \A S : HowMany(l, S) \in Nat
  <2>1. m \in Seq(Changes) /\ n \in Seq(Changes)
    BY <1>7, <1>8, <1>14, SeqMonotonic
  <2> QED
    BY <1>14, <2>1, PlacesFinite
<1>15. \A S : HowMany(plan, S) = HowMany(m, S) + HowMany(n, S) + HowMany(a, S) + HowMany(b, S) + HowMany(c, S) + HowMany(d, S)
  <2> SUFFICES ASSUME NEW S
               PROVE  HowMany(plan, S) = HowMany(m, S) + HowMany(n, S) + HowMany(a, S) + HowMany(b, S)
                                           + HowMany(c, S) + HowMany(d, S)
    OBVIOUS
  <2>1. /\ HowMany(m, S) \in Nat /\ HowMany(n, S) \in Nat /\ HowMany(a, S) \in Nat
        /\ HowMany(b, S) \in Nat /\ HowMany(c, S) \in Nat /\ HowMany(d, S) \in Nat
    BY <1>24
  <2>2. HowMany(k, S) = HowMany(m, S) + HowMany(n, S)
    BY <1>13
  <2>3. HowMany(abc, S) = HowMany(a, S) + HowMany(b, S) + HowMany(c, S)
    BY <1>20, <1>21
  <2>4. HowMany(plan, S) = HowMany(k, S) + (HowMany(abc, S) + HowMany(d, S))
    BY <1>22, <1>23
  <2> QED
    BY <2>1, <2>2, <2>3, <2>4
<1>16. ASSUME NEW kind \in Tokens
       PROVE  /\ HowMany(plan, Ops("install", kind)) = Cardinality(Missing(header, kind))
              /\ HowMany(plan, Ops("remove", kind)) = Cardinality(Surplus(header, kind))
  <2>1. CASE kind = "tpm2"
    BY <1>5, <1>6, <1>7, <1>8, <1>9, <1>10, <1>11, <1>12, <1>15, <2>1
  <2>2. CASE kind = "fido2"
    BY <1>5, <1>6, <1>7, <1>8, <1>9, <1>10, <1>11, <1>12, <1>15, <2>2
  <2> QED
    BY <1>6, <2>1, <2>2
<1>17. ASSUME unlock.keyfile, ~KeyWorks
       PROVE  Places(plan, Ops("install", "keyfile")) # {}
  <2>1. HowMany(plan, Ops("install", "keyfile")) = 1
    BY <1>4, <1>6, <1>7, <1>8, <1>9, <1>10, <1>11, <1>12, <1>15, <1>17
  <2> QED
    BY <2>1, Counted
<1> QED
  BY <1>16, <1>17, <1>19, <1>23

\* What is left of a plan when its first change is done.
LEMMA TailSettles ==
  ASSUME NEW list \in Seq(Changes), list # <<>>, InTurn(list)
  PROVE  /\ Tail(list) \in Seq(Changes) /\ InTurn(Tail(list)) /\ Head(list) \in Changes
         /\ Head(list) \in Removals => Tail(list) \in Seq(Removals)
         /\ list \in Seq(Removals) => Head(list) \in Removals
         /\ \A S : Head(list) \notin S /\ Places(list, S) # {} => Places(Tail(list), S) # {}
<1>1. /\ Tail(list) \in Seq(Changes) /\ Len(list) \in Nat \ {0} /\ Len(Tail(list)) = Len(list) - 1
      /\ \A n \in 1 .. Len(list) - 1 : Tail(list)[n] = list[n + 1]
      /\ DOMAIN list = 1 .. Len(list) /\ DOMAIN Tail(list) = 1 .. Len(list) - 1
      /\ Head(list) = list[1] /\ Head(list) \in Changes
  <2>1. /\ Tail(list) \in Seq(Changes) /\ Len(list) \in Nat \ {0} /\ Len(Tail(list)) = Len(list) - 1
        /\ \A n \in 1 .. Len(Tail(list)) : Tail(list)[n] = list[n + 1]
        /\ Head(list) \in Changes
    BY HeadTailProperties, EmptySeq, LenProperties
  <2>2. DOMAIN list = 1 .. Len(list) /\ DOMAIN Tail(list) = 1 .. Len(Tail(list))
    BY <2>1, LenProperties
  <2> QED
    BY <2>1, <2>2
<1>2. InTurn(Tail(list))
  <2> SUFFICES ASSUME NEW m \in 1 .. Len(list) - 1, NEW n \in 1 .. Len(list) - 1, m < n,
                      Tail(list)[m] \in Removals
               PROVE  Tail(list)[n] \in Removals
    BY <1>1 DEF InTurn
  <2>1. m + 1 \in DOMAIN list /\ n + 1 \in DOMAIN list /\ m + 1 < n + 1
    BY <1>1
  <2> QED
    BY <1>1, <2>1 DEF InTurn
<1>3. ASSUME Head(list) \in Removals
      PROVE  Tail(list) \in Seq(Removals)
  <2>1. \A n \in 1 .. Len(Tail(list)) : Tail(list)[n] \in Removals
    <3> SUFFICES ASSUME NEW n \in 1 .. Len(Tail(list))
                 PROVE  Tail(list)[n] \in Removals
      OBVIOUS
    <3>1. 1 \in DOMAIN list /\ n + 1 \in DOMAIN list /\ 1 < n + 1
      BY <1>1
    <3>2. list[n + 1] \in Removals
      BY <1>1, <1>3, <3>1 DEF InTurn
    <3> QED
      BY <1>1, <3>2
  <2>2. Len(Tail(list)) \in Nat /\ Tail(list) \in [1 .. Len(Tail(list)) -> Changes]
    BY <1>1, LenProperties
  <2>3. Tail(list) \in [1 .. Len(Tail(list)) -> Removals]
    BY <2>1, <2>2
  <2> QED
    BY <2>2, <2>3, SeqDef
<1>4. list \in Seq(Removals) => Head(list) \in Removals
  BY <1>1, ElementOfSeq
<1>5. ASSUME NEW S, Head(list) \notin S, Places(list, S) # {}
      PROVE  Places(Tail(list), S) # {}
  <2>1. PICK n \in 1 .. Len(list) : list[n] \in S
    BY <1>1, <1>5 DEF Places
  <2>2. n - 1 \in 1 .. Len(list) - 1 /\ (n - 1) + 1 = n
    BY <1>1, <1>5, <2>1
  <2>3. n - 1 \in Places(Tail(list), S)
    BY <1>1, <2>1, <2>2 DEF Places
  <2> QED
    BY <2>3
<1> QED
  BY <1>1, <1>2, <1>3, <1>4, <1>5

\* A new plan asks for all that is missing.
LEMMA SettleStart ==
  ASSUME OpensInv, FALSE \notin HeaderReads, NEW labels, NEW seen, NEW dump \in Dumps, NEW asked,
         StartApply(labels, seen, dump, asked)
  PROVE  SettleInv'
<1>1. dump = header
  BY UnlockAssumption DEF Dumps
<1>2. /\ UNCHANGED <<header, mapper, unlock, keyfile, slotKey>> /\ skipped' = {} /\ wiped' = {}
      /\ todo' = PlanKeyfile \o PlanTokens(header)
  BY <1>1 DEF StartApply, ApplyDisk
<1>3. InTurn(todo')
  BY <1>2, PlanSettles DEF OpensInv
<1>4. ASSUME NEW kind \in Tokens
      PROVE  Held(kind) + HowMany(todo', Ops("install", kind)) >= Count(kind) + HowMany(todo', Ops("remove", kind))
  <2>1. /\ HowMany(todo', Ops("install", kind)) = Cardinality(Missing(header, kind))
        /\ HowMany(todo', Ops("remove", kind)) = Cardinality(Surplus(header, kind))
    BY <1>2, PlanSettles DEF OpensInv
  <2>2. Held(kind) + Cardinality(Missing(header, kind)) >= Count(kind) + Cardinality(Surplus(header, kind))
    BY MissingCounts DEF OpensInv
  <2> QED
    BY <2>1, <2>2
<1>5. \A kind : Held(kind)' = Held(kind) /\ Count(kind)' = Count(kind)
  BY <1>2 DEF Held, Open, EnrolledCount, SlotsOf, Count
<1>6. Enough'
  BY <1>4, <1>5 DEF Enough
<1>7. unlock.keyfile /\ ~KeyWorks => Places(todo', Ops("install", "keyfile")) # {}
  BY <1>2, PlanSettles DEF OpensInv
<1>8. KeySettled'
  BY <1>2, <1>7 DEF KeySettled, KeyWorks, Open, SlotsOf
<1>9. WipedSound'
  BY <1>2 DEF WipedSound
<1> QED
  BY <1>3, <1>6, <1>8, <1>9 DEF SettleInv, Settling

\* Steps that touch no keyslot.
LEMMA SettleRests ==
  ASSUME SettleInv, UNCHANGED <<header, mapper, unlock, slotKey, skipped, wiped>>,
         keyfile' = keyfile \/ Places(todo, Ops("install", "keyfile")) # {},
         pc' # "idle" => pc # "idle" /\ todo' = todo,
         pc = "done" => pc' \in {"done", "idle"}
  PROVE  SettleInv'
<1> SUFFICES ASSUME pc' # "idle"
             PROVE  Settling'
  BY DEF SettleInv
<1>1. Settling /\ todo' = todo
  BY DEF SettleInv
<1>2. \A kind : Held(kind)' = Held(kind) /\ Count(kind)' = Count(kind)
  BY DEF Held, Open, EnrolledCount, SlotsOf, Count
<1>3. Enough'
  BY <1>1, <1>2 DEF Settling, Enough
<1>4. KeySettled'
  BY <1>1 DEF Settling, KeySettled, KeyWorks, Open, SlotsOf
<1>5. WipedSound'
  BY <1>1 DEF Settling, WipedSound
<1> QED
  BY <1>1, <1>3, <1>4, <1>5 DEF Settling

\* A change that is passed over: none of a key that is still wanted.
LEMMA SettlePasses ==
  ASSUME OpensInv, SettleInv, UNCHANGED <<header, mapper, unlock, keyfile, slotKey, wiped>>,
         pc = "done", pc' = "done", todo # <<>>, todo' = Tail(todo), skipped \subseteq skipped',
         Current \notin Ops("install", "keyfile"),
         \A kind \in Tokens \ skipped' :
            Current \notin Ops("install", kind) /\ Current \notin Ops("remove", kind)
  PROVE  SettleInv'
<1>1. Settling /\ todo \in Seq(Changes) /\ Head(todo) = Current
  BY PlanInChanges DEF SettleInv, Current
<1>2. \A kind : Held(kind)' = Held(kind) /\ Count(kind)' = Count(kind)
  BY DEF Held, Open, EnrolledCount, SlotsOf, Count
<1>3. ASSUME NEW kind \in Tokens \ skipped'
      PROVE  /\ HowMany(todo', Ops("install", kind)) = HowMany(todo, Ops("install", kind))
             /\ HowMany(todo', Ops("remove", kind)) = HowMany(todo, Ops("remove", kind))
  <2>1. todo' \in Seq(Changes)
    BY <1>1, TailSettles DEF Settling
  <2>2. \A S : Current \notin S => HowMany(todo, S) = HowMany(todo', S) /\ HowMany(todo', S) \in Nat
    <3> SUFFICES ASSUME NEW S, Current \notin S
                 PROVE  HowMany(todo, S) = HowMany(todo', S) /\ HowMany(todo', S) \in Nat
      OBVIOUS
    <3>1. HowMany(todo', S) \in Nat
      BY <2>1, PlacesFinite
    <3>2. HowMany(todo, S) = HowMany(Tail(todo), S) + (IF Head(todo) \in S THEN 1 ELSE 0)
      BY <1>1, TailCounts
    <3> QED
      BY <1>1, <3>1, <3>2
  <2> QED
    BY <1>3, <2>2
<1>4. Enough'
  <2> SUFFICES ASSUME NEW kind \in Tokens \ skipped'
               PROVE  Held(kind)' + HowMany(todo', Ops("install", kind))
                        >= Count(kind)' + HowMany(todo', Ops("remove", kind))
    BY DEF Enough
  <2>1. kind \in Tokens \ skipped
    OBVIOUS
  <2> QED
    BY <1>1, <1>2, <1>3, <2>1 DEF Settling, Enough
<1>5. KeySettled'
  <2>1. Places(todo, Ops("install", "keyfile")) # {} => Places(todo', Ops("install", "keyfile")) # {}
    BY <1>1, TailSettles DEF Settling
  <2> QED
    BY <1>1, <2>1 DEF Settling, KeySettled, KeyWorks, Open, SlotsOf
<1>6. WipedSound'
  BY <1>1, TailSettles DEF Settling, WipedSound
<1> QED
  BY <1>1, <1>4, <1>5, <1>6, TailSettles DEF SettleInv, Settling

\* A free keyslot is filled: one more of the kind, and as many of every other.
LEMMA FilledCounts ==
  ASSUME LuksTypeOK, NEW kind \in LuksKinds, FreeSlots # {}, header' = InSlot(kind)
  PROVE  /\ EnrolledCount(header', kind) = EnrolledCount(header, kind) + 1
         /\ \A k \in LuksKinds \ {kind} : EnrolledCount(header', k) = EnrolledCount(header, k)
         /\ SlotsOf(header', "keyfile") # {} \/ SlotsOf(header, "keyfile") = {}
         /\ kind = "keyfile" => SlotsOf(header', "keyfile") # {}
         /\ \A s \in Slots : header'[s] = header[s] \/ header[s] = "free"
<1> DEFINE n == CHOOSE s \in FreeSlots : \A t \in FreeSlots : s <= t
<1>1. n \in Slots /\ header[n] = "free"
  <2>1. FreeSlots \subseteq Nat
    BY DEF FreeSlots, SlotsOf, Slots
  <2>2. n \in FreeSlots
    BY <2>1, LeastExists
  <2> QED
    BY <2>2 DEF FreeSlots, SlotsOf
<1>2. header' = [header EXCEPT ![n] = kind]
  BY DEF InSlot
<1> HIDE DEF n
<1>3. header'[n] = kind /\ \A s \in Slots : s # n => header'[s] = header[s]
  BY <1>1, <1>2 DEF LuksTypeOK
<1>4. kind # "free"
  BY DEF LuksKinds
<1>5. SlotsOf(header', kind) = SlotsOf(header, kind) \cup {n} /\ n \notin SlotsOf(header, kind)
  BY <1>1, <1>3, <1>4 DEF SlotsOf
<1>6. \A k \in LuksKinds \ {kind} : SlotsOf(header', k) = SlotsOf(header, k)
  BY <1>1, <1>3 DEF SlotsOf, LuksKinds
<1>7. IsFiniteSet(SlotsOf(header, kind))
  <2>1. IsFiniteSet(Slots)
    BY DiskAssumption, FS_Interval DEF Slots
  <2>2. SlotsOf(header, kind) \in SUBSET Slots
    BY DEF SlotsOf
  <2> QED
    BY <2>1, <2>2, FS_Subset
<1>8. Cardinality(SlotsOf(header', kind)) = Cardinality(SlotsOf(header, kind)) + 1
  BY <1>5, <1>7, FS_AddElement
<1>9. EnrolledCount(header', kind) = EnrolledCount(header, kind) + 1
  BY <1>8 DEF EnrolledCount
<1>10. \A k \in LuksKinds \ {kind} : EnrolledCount(header', k) = EnrolledCount(header, k)
  BY <1>6 DEF EnrolledCount
<1>11. \A s \in Slots : header'[s] = header[s] \/ header[s] = "free"
  BY <1>1, <1>3
<1>12. \A s \in SlotsOf(header, "keyfile") : s \in SlotsOf(header', "keyfile")
  BY <1>11 DEF SlotsOf
<1>13. kind = "keyfile" => n \in SlotsOf(header', "keyfile")
  BY <1>1, <1>3 DEF SlotsOf
<1> QED
  BY <1>9, <1>10, <1>11, <1>12, <1>13

LEMMA SettleEnrols ==
  ASSUME OpensInv, SettleInv, NEW kind \in LuksKinds, FreeSlots # {}, header' = InSlot(kind),
         UNCHANGED <<mapper, unlock, keyfile, skipped, wiped>>, Open,
         pc = "done", pc' = "done", todo # <<>>, todo' = Tail(todo),
         Current.op = "install", Kind = kind,
         IF kind = "keyfile" THEN keyfile # "none" /\ slotKey' = keyfile ELSE slotKey' = slotKey
  PROVE  SettleInv'
<1>1. Settling /\ todo \in Seq(Changes) /\ Head(todo) = Current /\ LuksTypeOK
  BY PlanInChanges DEF SettleInv, Current, OpensInv
<1>2. /\ Current \in Changes /\ Current \notin Removals
      /\ \A k \in LuksKinds : Current \in Ops("install", k) <=> k = kind
      /\ \A k \in LuksKinds : Current \notin Ops("remove", k)
  <2>1. Current \in Changes
    BY <1>1, TailSettles DEF Settling
  <2> QED
    BY <2>1 DEF Removals, Ops, Kind
<1>3. wiped = {}
  BY <1>1, <1>2, TailSettles DEF Settling, WipedSound
<1>4. /\ EnrolledCount(header', kind) = EnrolledCount(header, kind) + 1
      /\ \A k \in LuksKinds \ {kind} : EnrolledCount(header', k) = EnrolledCount(header, k)
      /\ SlotsOf(header', "keyfile") # {} \/ SlotsOf(header, "keyfile") = {}
      /\ kind = "keyfile" => SlotsOf(header', "keyfile") # {}
  BY <1>1, FilledCounts
<1>5. Enough'
  <2> SUFFICES ASSUME NEW k \in Tokens \ skipped
               PROVE  Held(k)' + HowMany(todo', Ops("install", k))
                        >= Count(k)' + HowMany(todo', Ops("remove", k))
    BY DEF Enough
  <2>1. k \in LuksKinds
    BY DEF Tokens, LuksKinds
  <2>2. Held(k) + HowMany(todo, Ops("install", k)) >= Count(k) + HowMany(todo, Ops("remove", k))
    BY <1>1 DEF Settling, Enough
  <2>3. Held(k) \in Nat /\ Count(k) \in Nat /\ Count(k)' = Count(k)
    <3>1. Count(k) \in Nat
      BY <1>1, <2>1, CountIs DEF LuksTypeOK
    <3> QED
      BY <3>1, HeldIs DEF Count
  <2>4. Held(k)' = IF k = kind THEN Held(k) + 1 ELSE Held(k)
    <3>1. Held(k)' = EnrolledCount(header', k) /\ Held(k) = EnrolledCount(header, k)
      BY DEF Held, Open, EnrolledCount, SlotsOf
    <3> QED
      BY <1>4, <2>1, <3>1
  <2>5. todo' \in Seq(Changes)
    BY <1>1, TailSettles DEF Settling
  <2>6. \A S : HowMany(todo', S) \in Nat
    BY <2>5, PlacesFinite
  <2>7. \A S : HowMany(todo, S) = HowMany(todo', S) + (IF Current \in S THEN 1 ELSE 0)
    BY <1>1, TailCounts
  <2>8. HowMany(todo, Ops("remove", k)) = HowMany(todo', Ops("remove", k))
    BY <1>2, <2>1, <2>6, <2>7
  <2>9. HowMany(todo, Ops("install", k)) = HowMany(todo', Ops("install", k)) + (IF k = kind THEN 1 ELSE 0)
    BY <1>2, <2>1, <2>7
  <2> QED
    BY <2>2, <2>3, <2>4, <2>6, <2>8, <2>9
<1>6. KeySettled'
  <2>1. CASE kind = "keyfile"
    BY <1>4, <2>1 DEF KeySettled, KeyWorks, Open, SlotsOf
  <2>2. CASE kind # "keyfile"
    <3>1. KeyWorks => KeyWorks'
      BY <1>4, <2>2 DEF KeyWorks, Open, SlotsOf
    <3>2. Places(todo, Ops("install", "keyfile")) # {} => Places(todo', Ops("install", "keyfile")) # {}
      <4>1. Current \notin Ops("install", "keyfile")
        BY <1>2, <2>2 DEF LuksKinds
      <4> QED
        BY <1>1, <4>1, TailSettles DEF Settling
    <3> QED
      BY <1>1, <3>1, <3>2 DEF Settling, KeySettled
  <2> QED
    BY <2>1, <2>2
<1>7. WipedSound'
  BY <1>3 DEF WipedSound
<1> QED
  BY <1>1, <1>5, <1>6, <1>7, TailSettles DEF SettleInv, Settling

\* A keyslot that is wiped was one too many.
LEMMA SettleWipes ==
  ASSUME OpensInv, SettleInv, FALSE \notin HeaderReads, NEW dump \in Dumps, WipeToken(dump)
  PROVE  SettleInv'
<1> DEFINE left == SlotsOf(header, Kind) \ wiped
           gone == IF left = {} THEN SlotsOf(header, Kind) ELSE {Max(left)}
<1>1. dump = header
  BY UnlockAssumption DEF Dumps
<1>2. /\ todo # <<>> /\ Kind # "keyfile" /\ Current.op = "remove" /\ pc = "done" /\ Open
      /\ header' = [s \in Slots |-> IF s \in gone THEN "free" ELSE header[s]]
      /\ wiped' = IF left = {} THEN wiped ELSE wiped \cup gone
      /\ todo' = Tail(todo) /\ UNCHANGED <<mapper, unlock, keyfile, slotKey, skipped, pc>>
  BY <1>1 DEF WipeToken, Running, Advance
<1>3. Settling /\ todo \in Seq(Changes) /\ Head(todo) = Current /\ LuksTypeOK
  BY <1>2, PlanInChanges DEF SettleInv, Current, OpensInv
<1>4. /\ Kind \in Tokens /\ Current \in Removals /\ Kind \in LuksKinds
      /\ \A k \in LuksKinds : Current \in Ops("remove", k) <=> k = Kind
      /\ \A k \in LuksKinds : Current \notin Ops("install", k)
  <2>1. Current \in Changes
    BY <1>2, <1>3, TailSettles DEF Settling
  <2>2. Kind \in LuksKinds
    BY <2>1 DEF Changes, Items, Kind
  <2> QED
    BY <1>2, <2>1, <2>2 DEF Removals, Ops, Kind, Tokens, LuksKinds
<1>5. todo' \in Seq(Removals) /\ todo' \in Seq(Changes) /\ InTurn(todo')
  BY <1>2, <1>3, <1>4, TailSettles DEF Settling
<1>6. gone \subseteq SlotsOf(header, Kind)
  <2>1. CASE left = {}
    BY <2>1
  <2>2. CASE left # {}
    <3>1. left \subseteq Nat /\ \A s \in left : s <= MaxSlots
      BY DiskAssumption DEF SlotsOf, Slots
    <3>2. left \subseteq SlotsOf(header, Kind)
      OBVIOUS
    <3> HIDE DEF left
    <3>3. Max(left) \in left
      BY <2>2, <3>1, DiskAssumption, MaxOfBounded
    <3> QED
      BY <2>2, <3>2, <3>3
  <2> QED
    BY <2>1, <2>2
<1>7. left = {} => SlotsOf(header, Kind) = {}
  <2>1. \A s \in SlotsOf(header, Kind) : s \notin wiped
    BY <1>3, <1>4 DEF SlotsOf, Settling, WipedSound, Tokens
  <2> QED
    BY <2>1
<1>8. /\ \A s \in Slots : header'[s] = IF s \in gone THEN "free" ELSE header[s]
      /\ \A s \in wiped' : s \in Slots /\ header'[s] = "free"
  <2>1. \A s \in Slots : header'[s] = IF s \in gone THEN "free" ELSE header[s]
    BY <1>2
  <2>2. ASSUME NEW s \in wiped'
        PROVE  s \in Slots /\ header'[s] = "free"
    <3>1. CASE s \in gone
      BY <1>6, <2>1, <3>1 DEF SlotsOf
    <3>2. CASE s \notin gone
      <4>1. s \in wiped /\ s \in Slots /\ header[s] = "free"
        BY <1>2, <1>3, <3>2 DEF Settling, WipedSound
      <4> QED
        BY <2>1, <3>2, <4>1
    <3> QED
      BY <3>1, <3>2
  <2> QED
    BY <2>1, <2>2
<1>9. WipedSound'
  BY <1>2, <1>5, <1>8 DEF WipedSound
<1>10. SlotsOf(header', "keyfile") = SlotsOf(header, "keyfile")
  BY <1>2, <1>4, <1>6, <1>8 DEF SlotsOf
<1>11. KeySettled'
  <2>1. Places(todo, Ops("install", "keyfile")) # {} => Places(todo', Ops("install", "keyfile")) # {}
    <3>1. Current \notin Ops("install", "keyfile")
      BY <1>4 DEF LuksKinds
    <3> QED
      BY <1>2, <1>3, <3>1, TailSettles DEF Settling
  <2>2. KeyWorks => KeyWorks'
    BY <1>2, <1>10 DEF KeyWorks, Open
  <2> QED
    BY <1>2, <1>3, <2>1, <2>2 DEF Settling, KeySettled
<1>12. /\ \A k \in LuksKinds \ {Kind} : EnrolledCount(header', k) = EnrolledCount(header, k)
       /\ EnrolledCount(header', Kind) >= EnrolledCount(header, Kind) - 1
  <2>1. \A k \in LuksKinds \ {Kind} : SlotsOf(header', k) = SlotsOf(header, k)
    BY <1>6, <1>8 DEF SlotsOf, LuksKinds
  <2>2. IsFiniteSet(SlotsOf(header, Kind)) /\ Cardinality(SlotsOf(header, Kind)) \in Nat
    <3>1. IsFiniteSet(Slots)
      BY DiskAssumption, FS_Interval DEF Slots
    <3>2. SlotsOf(header, Kind) \in SUBSET Slots
      BY DEF SlotsOf
    <3> QED
      BY <3>1, <3>2, FS_Subset, FS_CardinalityType
  <2>3. CASE left = {}
    <3>1. SlotsOf(header', Kind) = SlotsOf(header, Kind)
      BY <1>4, <1>7, <1>8, <2>3 DEF SlotsOf, Tokens
    <3> QED
      BY <2>1, <2>2, <3>1 DEF EnrolledCount
  <2>4. CASE left # {}
    <3>1. SlotsOf(header', Kind) = SlotsOf(header, Kind) \ {Max(left)}
      BY <1>4, <1>6, <1>8, <2>4 DEF SlotsOf, Tokens
    <3> HIDE DEF left, gone
    <3>2. Cardinality(SlotsOf(header', Kind)) >= Cardinality(SlotsOf(header, Kind)) - 1
      BY <2>2, <3>1, FS_RemoveElement
    <3> QED
      BY <2>1, <3>2 DEF EnrolledCount
  <2> QED
    BY <2>3, <2>4
<1> HIDE DEF left, gone
<1>13. Enough'
  <2> SUFFICES ASSUME NEW k \in Tokens \ skipped
               PROVE  Held(k)' + HowMany(todo', Ops("install", k))
                        >= Count(k)' + HowMany(todo', Ops("remove", k))
    BY <1>2 DEF Enough
  <2>1. k \in LuksKinds
    BY DEF Tokens, LuksKinds
  <2>2. Held(k) + HowMany(todo, Ops("install", k)) >= Count(k) + HowMany(todo, Ops("remove", k))
    BY <1>3 DEF Settling, Enough
  <2>3. Held(k) \in Nat /\ Count(k) \in Nat /\ Count(k)' = Count(k)
    <3>1. Count(k) \in Nat
      BY <1>3, <2>1, CountIs DEF LuksTypeOK
    <3> QED
      BY <1>2, <3>1, HeldIs DEF Count
  <2>4. Held(k)' \in Int /\ Held(k)' >= IF k = Kind THEN Held(k) - 1 ELSE Held(k)
    <3>1. Held(k)' = EnrolledCount(header', k) /\ Held(k) = EnrolledCount(header, k)
      BY <1>2 DEF Held, Open, EnrolledCount, SlotsOf
    <3>2. EnrolledCount(header', k) \in Nat /\ EnrolledCount(header, k) \in Nat
      BY CountType
    <3> QED
      BY <1>12, <2>1, <3>1, <3>2
  <2>5. \A S : HowMany(todo', S) \in Nat
    BY <1>5, PlacesFinite
  <2>6. \A S : HowMany(todo, S) = HowMany(todo', S) + (IF Current \in S THEN 1 ELSE 0)
    BY <1>2, <1>3, TailCounts
  <2>7. HowMany(todo, Ops("install", k)) = HowMany(todo', Ops("install", k))
    BY <1>4, <2>1, <2>5, <2>6
  <2>8. HowMany(todo, Ops("remove", k)) = HowMany(todo', Ops("remove", k)) + (IF k = Kind THEN 1 ELSE 0)
    BY <1>4, <2>1, <2>6
  <2> QED
    BY <2>2, <2>3, <2>4, <2>5, <2>7, <2>8
<1> QED
  BY <1>5, <1>9, <1>11, <1>13 DEF SettleInv, Settling

LEMMA SettleLuks ==
  ASSUME OpensInv, SettleInv, FALSE \notin HeaderReads, LuksSteps
  PROVE  SettleInv'
<1> USE DEF Advance, Running, disk
<1>1. ASSUME pc' = "idle"
      PROVE  SettleInv'
  BY <1>1 DEF SettleInv
<1>2. CASE NeedsVolume \/ AbortToken \/ FinishApply
  BY <1>1, <1>2 DEF NeedsVolume, AbortToken, FinishApply, RaiseLuks, Raise, EndWith
<1>3. ASSUME pc = "done", todo # <<>>
      PROVE  /\ Current \in Changes /\ Kind \in LuksKinds
             /\ Current.op = "install" /\ Kind = "keyfile" => Places(todo, Ops("install", "keyfile")) # {}
  <2>1. todo \in Seq(Changes) /\ Head(todo) = Current
    BY PlanInChanges DEF Current
  <2>2. Current \in Changes /\ 1 \in DOMAIN todo /\ todo[1] = Current
    BY <1>3, <2>1, HeadTailProperties, EmptySeq, LenProperties
  <2> QED
    BY <2>2 DEF Changes, Items, Kind, Ops, Places
<1>4. ASSUME pc = "done", todo # <<>>
      PROVE  /\ \A k : Current \in Ops("install", k) <=> Current.op = "install" /\ Kind = k
             /\ \A k : Current \in Ops("remove", k) <=> Current.op = "remove" /\ Kind = k
  BY <1>3, <1>4 DEF Ops, Kind
<1>5. CASE DropKeyfile
  <2>1. /\ UNCHANGED <<header, mapper, unlock, keyfile, slotKey, skipped, wiped>> /\ pc = "done"
        /\ pc' = pc /\ todo # <<>> /\ todo' = Tail(todo) /\ Kind = "keyfile" /\ Current.op = "remove"
    BY <1>5 DEF DropKeyfile
  <2> QED
    BY <1>4, <2>1, SettlePasses DEF Tokens
<1>6. CASE AlreadySkipped
  <2>1. /\ UNCHANGED <<header, mapper, unlock, keyfile, slotKey, skipped, wiped>> /\ pc = "done"
        /\ pc' = pc /\ todo # <<>> /\ todo' = Tail(todo) /\ Kind # "keyfile" /\ Kind \in skipped
        /\ Current.op = "install"
    BY <1>6 DEF AlreadySkipped, TokenInstall
  <2> QED
    BY <1>4, <2>1, SettlePasses
<1>7. CASE SkipToken
  <2>1. /\ UNCHANGED <<header, mapper, unlock, keyfile, slotKey, wiped>> /\ pc = "done"
        /\ pc' = pc /\ todo # <<>> /\ todo' = Tail(todo) /\ Kind # "keyfile"
        /\ skipped' = skipped \cup {Kind} /\ Current.op = "install"
    BY <1>7 DEF SkipToken, TokenInstall
  <2> QED
    BY <1>4, <2>1, SettlePasses
<1>8. CASE EnrolToken
  <2>1. /\ UNCHANGED <<mapper, unlock, keyfile, slotKey, skipped, wiped>> /\ pc = "done"
        /\ pc' = "done" /\ todo # <<>> /\ todo' = Tail(todo) /\ Kind # "keyfile" /\ Open
        /\ FreeSlots # {} /\ header' = InSlot(Kind) /\ Current.op = "install"
    BY <1>8 DEF EnrolToken, TokenInstall
  <2> DEFINE kind == Kind
  <2>2. kind \in LuksKinds /\ kind = Kind
    BY <1>3, <2>1
  <2> HIDE DEF kind
  <2>3. FreeSlots # {} /\ header' = InSlot(kind) /\ kind # "keyfile"
    BY <2>1, <2>2
  <2> QED
    BY <2>1, <2>2, <2>3, SettleEnrols
<1>9. ASSUME NEW done \in BOOLEAN, CreateKeyfile(done)
      PROVE  SettleInv'
  <2>1. /\ UNCHANGED <<header, mapper, unlock, slotKey, skipped, wiped>> /\ pc = "done"
        /\ todo # <<>> /\ Kind = "keyfile" /\ Current.op = "install"
        /\ pc' = "idle" \/ (pc' = "done" /\ todo' = todo)
    BY <1>9 DEF CreateKeyfile, RaiseLuks, Raise, EndWith
  <2> QED
    BY <1>3, <2>1, SettleRests
<1>10. ASSUME NEW done \in BOOLEAN, EnrollKeyfile(done)
       PROVE  SettleInv'
  <2>1. CASE done
    <3>1. /\ UNCHANGED <<mapper, unlock, keyfile, skipped, wiped>> /\ pc = "done"
          /\ pc' = "done" /\ todo # <<>> /\ todo' = Tail(todo) /\ Kind = "keyfile" /\ Open
          /\ FreeSlots # {} /\ header' = InSlot("keyfile") /\ Current.op = "install"
          /\ keyfile # "none" /\ slotKey' = keyfile
      BY <1>10, <2>1 DEF EnrollKeyfile
    <3>2. "keyfile" \in LuksKinds
      BY DEF LuksKinds
    <3> QED
      BY <3>1, <3>2, SettleEnrols
  <2>2. CASE ~done
    BY <1>1, <1>10, <2>2 DEF EnrollKeyfile, RaiseLuks, Raise, EndWith
  <2> QED
    BY <1>10, <2>1, <2>2
<1>11. ASSUME NEW dump \in Dumps, WipeToken(dump)
       PROVE  SettleInv'
  BY <1>11, SettleWipes
<1> QED
  BY <1>2, <1>5, <1>6, <1>7, <1>8, <1>9, <1>10, <1>11 DEF LuksSteps

\* A volume is only encrypted while none is open: everything is planned then.
LEMMA SettleEncrypt ==
  ASSUME OpensInv, SettleInv, UNCHANGED <<unlock, keyfile, slotKey, skipped, wiped, todo>>,
         NEW formatted \in BOOLEAN, NEW opened \in BOOLEAN, Encrypt(formatted, opened)
  PROVE  SettleInv'
<1>1. pc = "format" /\ pc' = "mkfs"
  BY DEF Encrypt
<1>2. CASE ~formatted
  <2>1. UNCHANGED <<header, mapper>>
    BY <1>2 DEF Encrypt
  <2> QED
    BY <1>1, <2>1, SettleRests
<1>3. CASE formatted
  <2>1. ~Open
    BY <1>3 DEF Encrypt, Open
  <2>2. Settling
    BY <1>1 DEF SettleInv
  <2>3. wiped' = {}
    BY <1>1, <2>2 DEF Settling, WipedSound
  <2>4. KeySettled'
    BY <2>1, <2>2 DEF Settling, KeySettled, KeyWorks
  <2>5. Enough'
    <3> SUFFICES ASSUME NEW k \in Tokens \ skipped
                 PROVE  Held(k)' + HowMany(todo, Ops("install", k))
                          >= Count(k)' + HowMany(todo, Ops("remove", k))
      BY DEF Enough
    <3>1. Held(k) + HowMany(todo, Ops("install", k)) >= Count(k) + HowMany(todo, Ops("remove", k))
      BY <2>2 DEF Settling, Enough
    <3>2. Held(k) = 0
      BY <2>1 DEF Held
    <3>3. Held(k)' \in Nat
      BY CountType DEF Held, EnrolledCount, SlotsOf
    <3>4. Count(k) \in Nat /\ Count(k)' = Count(k)
      <4>1. k \in LuksKinds
        BY DEF Tokens, LuksKinds
      <4>2. Count(k) \in Nat
        BY <4>1, CountIs DEF OpensInv, LuksTypeOK
      <4> QED
        BY <4>2 DEF Count
    <3>5. HowMany(todo, Ops("install", k)) \in Nat /\ HowMany(todo, Ops("remove", k)) \in Nat
      BY PlanInChanges, PlacesFinite
    <3> QED
      BY <3>1, <3>2, <3>3, <3>4, <3>5
  <2> QED
    BY <2>2, <2>3, <2>4, <2>5 DEF SettleInv, Settling, WipedSound
<1> QED
  BY <1>2, <1>3

LEMMA SettleDisk ==
  ASSUME DiskInv, OpensInv, SettleInv, DiskPart
  PROVE  SettleInv'
<1>1. /\ UNCHANGED <<unlock, keyfile, slotKey, skipped, wiped>>
      /\ todo' = IF pc' = "idle" THEN <<>> ELSE todo
  BY DEF DiskPart
<1>2. ASSUME UNCHANGED <<header, mapper>>, pc \notin {"idle", "done"}
      PROVE  SettleInv'
  BY <1>1, <1>2, SettleRests
<1>3. CASE \/ Validate \/ KeepTable \/ EnableSwap
           \/ \E done, also \in BOOLEAN : BeginPartitions(done, also)
           \/ \E done \in BOOLEAN : \/ Wipe(done) \/ CreateTable(done) \/ CreatePartition(done)
                                    \/ MountPartition(done)
  BY <1>2, <1>3 DEF Validate, KeepTable, BeginPartitions, EnableSwap, Wipe, CreateTable,
     CreatePartition, MountPartition, disk
<1>4. ASSUME NEW done \in BOOLEAN, NEW also \in BOOLEAN, Encrypt(done, also)
      PROVE  SettleInv'
  <2>1. todo' = todo
    BY <1>1, <1>4 DEF Encrypt
  <2> QED
    BY <1>1, <1>4, <2>1, SettleEncrypt
<1>5. ASSUME NEW done \in BOOLEAN, NEW also \in BOOLEAN, Mkfs(done, also)
      PROVE  SettleInv'
  <2>1. UNCHANGED <<header, mapper>>
    BY <1>5, MkfsEffect
  <2>2. pc \in {"format", "mkfs"}
    BY <1>5 DEF Mkfs
  <2> QED
    BY <1>2, <2>1, <2>2
<1>6. CASE SomebodyPartitions
  BY <1>2, <1>6 DEF SomebodyPartitions
<1> QED
  BY <1>3, <1>4, <1>5, <1>6 DEF DiskPart, DiskSteps

LEMMA SettleInductive ==
  FALSE \notin HeaderReads => (DiskInv /\ OpensInv /\ SettleInv /\ [Next]_vars => SettleInv')
<1> SUFFICES ASSUME FALSE \notin HeaderReads, DiskInv, OpensInv, SettleInv, [Next]_vars
             PROVE  SettleInv'
  OBVIOUS
<1>1. ASSUME NEW labels, NEW seen, NEW dump \in Dumps, NEW asked,
             StartApply(labels, seen, dump, asked)
      PROVE  SettleInv'
  BY <1>1, SettleStart
<1>2. CASE DiskPart
  BY <1>2, SettleDisk
<1>3. CASE LuksSteps
  BY <1>3, SettleLuks
<1>4. CASE \/ \E dump, read : Sync(dump, read) \/ \E u \in Unlocks : Edit(u)
           \/ \E kind \in {"passphrase", "fido2"} : HandEnrol(kind) \/ \E s \in Slots : HandKill(s)
           \/ Unlock
  <2>1. pc' = "idle"
    BY <1>4 DEF Sync, CaptureDisk, Edit, HandEnrol, HandKill, Unlock, diskVars, disk
  <2> QED
    BY <2>1 DEF SettleInv
<1>5. CASE PlugOrUnplug \/ UNCHANGED vars
  BY <1>5, SettleRests DEF PlugOrUnplug, vars, luksVars, diskVars, disk
<1>6. CASE (Die \/ PowerCut) /\ CutShort
  BY <1>6 DEF Die, PowerCut, EndWith, SettleInv
<1> QED
  BY <1>1, <1>2, <1>3, <1>4, <1>5, <1>6 DEF Next

\* An apply that ends well has enrolled what the document declares - on an old volume,
\* on one that was opened by hand, and on one the disk action made after the plan - where
\* luksDump can read the header.  A token that is counted is not known by which it is, so
\* the argument counts: what the volume holds and what is still to be enrolled is never
\* less than what is declared and what is still to be wiped.
THEOREM UnlockDelivered == FALSE \notin HeaderReads => (Spec => []UnlockSettles)
<1> SUFFICES ASSUME FALSE \notin HeaderReads
             PROVE  Spec => []UnlockSettles
  OBVIOUS
<1>1. Init => OpensInv
  BY OpensInit
<1>2. Init => SettleInv
  BY DEF Init, InitDisk, SettleInv
<1>3. DiskInv /\ OpensInv /\ [Next]_vars => OpensInv'
  BY OpensInductive
<1>4. DiskInv /\ OpensInv /\ SettleInv /\ [Next]_vars => SettleInv'
  BY SettleInductive
<1>5. OpensInv /\ SettleInv => UnlockSettles
  <2> SUFFICES ASSUME OpensInv, SettleInv, pc = "done", todo = <<>>, skipped = {}, Open
               PROVE  /\ \A kind \in {"tpm2", "fido2"} : EnrolledCount(header, kind) >= Count(kind)
                      /\ unlock.keyfile => KeyWorks
    BY DEF UnlockSettles
  <2>1. Settling
    BY DEF SettleInv
  <2>2. \A S : Places(todo, S) = {} /\ HowMany(todo, S) = 0
    BY FS_EmptySet DEF Places, HowMany
  <2>3. ASSUME NEW kind \in Tokens
        PROVE  EnrolledCount(header, kind) >= Count(kind)
    <3>1. Held(kind) + 0 >= Count(kind) + 0
      BY <2>1, <2>2 DEF Settling, Enough
    <3>2. Held(kind) = EnrolledCount(header, kind) /\ EnrolledCount(header, kind) \in Nat
      BY CountType DEF Held
    <3>3. Count(kind) \in Nat
      BY CountIs DEF OpensInv, LuksTypeOK, Tokens, LuksKinds
    <3> QED
      BY <3>1, <3>2, <3>3
  <2>4. unlock.keyfile => KeyWorks
    BY <2>1, <2>2 DEF Settling, KeySettled
  <2> QED
    BY <2>3, <2>4 DEF Tokens
<1> QED
  BY <1>1, <1>2, <1>3, <1>4, <1>5, DiskIsSound, PTL DEF Spec

-----------------------------------------------------------------------------
(***************************************************************************)
(* What is declared gets mounted                                           *)
(***************************************************************************)

LabelOf(i) == layout.parts[i].label
PartCount == Len(layout.parts)
LastLabel == LabelOf(PartCount)
StartOf(i) == parts[node[LabelOf(i)]].start

\* The first partitions of the document are where the apply believes them to be.
Located(m) ==
  /\ \A i \in 1 .. m : LabelOf(i) \in DOMAIN node /\ node[LabelOf(i)] \in DOMAIN parts
  /\ \A i, k \in 1 .. m : node[LabelOf(i)] = node[LabelOf(k)] => i = k

MadeAt(i) ==
  /\ StartOf(i) \in DOMAIN content
  /\ content[StartOf(i)].label = ExpectedLabel(layout.parts[i]) /\ content[StartOf(i)].fresh
  /\ layout.parts[i].enc => mapper = StartOf(i)
MadeTo(m) == Located(PartCount) /\ \A i \in 1 .. m : MadeAt(i)

\* Numbers without a gap are given out as the apply counts; with one, the last
\* partition gets a lower number than it is believed to have.
Numbered ==
  pc = "create" /\ work.i > 0 =>
    \E n \in Nat \ {0} :
      /\ work.todo = {n} /\ \A k \in DOMAIN parts : k < n
      /\ \/ (\A m \in 1 .. n - 1 : m \in DOMAIN parts) /\ Located(work.i - 1)
         \/ \E m \in 1 .. n - 1 : m \notin DOMAIN parts

Formatted ==
  /\ pc \in {"format", "mkfs"} => Extent(LastLabel) = {} \/ MadeTo(work.i - 1)
  /\ pc = "mkfs" => /\ layout.parts[work.i].enc /\ Extent(LabelOf(work.i)) # {}
                    /\ Extent(LastLabel) = {} \/ mapper = StartOf(work.i)

ShowsAt(i, d) == \E n \in ShownAt(d.at) : mounts[n].sub = d.sub /\ mounts[n].from = StartOf(i)
Shows(i) == \A d \in MountsDeclared(layout.parts[i]) : ShowsAt(i, d)

MountedSoFar ==
  pc = "mount" =>
    /\ MadeTo(PartCount)
    /\ \A i \in DOMAIN layout.parts \ work.todo :
         /\ Mountable(layout.parts[i]) /\ Shows(i)
         /\ \A k \in ToMount : Deep(layout.parts[i]) <= Deep(layout.parts[k])

Finished ==
  pc = "done" /\ outcome = "made" =>
    /\ MadeTo(PartCount)
    /\ \A i \in DOMAIN layout.parts : layout.parts[i].kind \notin {"swap", "random"} => Shows(i)

MadeInv ==
  /\ Arranged(layout.parts) /\ \E S : mounts \in Seq(S)
  /\ pc = "mount" => work.todo \subseteq DOMAIN layout.parts
  /\ clean => Numbered /\ Formatted /\ MountedSoFar /\ Finished

LEMMA PartsDeclared ==
  ASSUME DiskInv
  PROVE  /\ PartCount \in Nat \ {0} /\ DOMAIN layout.parts = 1 .. PartCount
         /\ \A i \in 1 .. PartCount : layout.parts[i] \in PartitionSpec
<1>1. layout.parts \in Seq(PartitionSpec) /\ layout.parts # <<>>
  BY DEF DiskInv, DiskTypeOK
<1> DEFINE list == layout.parts
<1>2. Len(list) \in Nat /\ DOMAIN list = 1 .. Len(list) /\ list # <<>> /\ \A i \in 1 .. Len(list) : list[i] \in PartitionSpec
  BY <1>1
<1>3. Len(list) # 0
  BY <1>1, <1>2, EmptySeq
<1> QED
  BY <1>2, <1>3 DEF PartCount

\* parted gives out the lowest number that is free.
LEMMA FreeNumberIsLowest ==
  ASSUME DiskInv, NEW m \in Nat \ {0}, m \notin DOMAIN parts
  PROVE  FreeNumber <= m /\ FreeNumber \in Nat \ {0} /\ FreeNumber \notin DOMAIN parts
<1> DEFINE S == (1 .. NextNumber(parts)) \ DOMAIN parts
<1>1. NextNumber(parts) \in Nat \ {0} /\ \A k \in DOMAIN parts : k < NextNumber(parts)
  BY NextIsFree
<1>2. S \subseteq Nat \ {0} /\ NextNumber(parts) \in S
  BY <1>1
<1>3. m <= NextNumber(parts) => m \in S
  BY <1>1
<1> HIDE DEF S
<1>4. \E x \in S : \A y \in S : x <= y
  BY <1>2, LeastExists
<1>5. Min(S) \in S /\ \A y \in S : Min(S) <= y
  BY <1>4 DEF Min
<1>6. FreeNumber = Min(S)
  BY DEF FreeNumber, S
<1>7. Min(S) <= m
  <2>1. CASE m <= NextNumber(parts)
    BY <1>3, <1>5, <2>1
  <2>2. CASE m > NextNumber(parts)
    <3>1. Min(S) <= NextNumber(parts) /\ Min(S) \in Nat
      BY <1>2, <1>5
    <3> QED
      BY <1>1, <2>2, <3>1
  <2> QED
    BY <1>1, <2>1, <2>2
<1>8. S \cap DOMAIN parts = {}
  BY DEF S
<1> QED
  BY <1>2, <1>5, <1>6, <1>7, <1>8

\* Partitions that are where they are believed to be begin at places of their own.
LEMMA LocatedApart ==
  ASSUME DiskInv, NEW m, Located(m), NEW i \in 1 .. m
  PROVE  /\ StartOf(i) \in Nat /\ Extent(LabelOf(i)) = {StartOf(i)}
         /\ \A k \in 1 .. m : k # i => StartOf(k) # StartOf(i)
<1>1. /\ LabelOf(i) \in DOMAIN node /\ node[LabelOf(i)] \in DOMAIN parts
      /\ Extent(LabelOf(i)) = {StartOf(i)}
  BY DEF Located, Extent, StartOf
<1>2. \A n \in DOMAIN parts : parts[n] \in Extents
  BY DEF DiskInv, DiskTypeOK
<1>3. StartOf(i) \in Nat
  BY <1>1, <1>2 DEF StartOf, Extents
<1>4. ASSUME NEW k \in 1 .. m, k # i
      PROVE  StartOf(k) # StartOf(i)
  <2> DEFINE a == node[LabelOf(i)]
             b == node[LabelOf(k)]
  <2>1. a \in DOMAIN parts /\ b \in DOMAIN parts /\ a # b
    BY <1>4 DEF Located
  <2> HIDE DEF a, b
  <2>2. /\ parts[a].start < parts[a].end /\ parts[b].start < parts[b].end
        /\ parts[a].end <= parts[b].start \/ parts[b].end <= parts[a].start
    BY <2>1 DEF DiskInv, TableSound, Disjoint
  <2>3. parts[a] \in Extents /\ parts[b] \in Extents
    BY <1>2, <2>1
  <2>4. parts[a].start # parts[b].start
    BY <2>2, <2>3, DiskAssumption DEF Extents
  <2> QED
    BY <2>4 DEF StartOf, a, b
<1> QED
  BY <1>1, <1>3, <1>4

\* The steps that lead nowhere where something is claimed.
LEMMA MadeElsewhere ==
  ASSUME Arranged(layout.parts), layout'.parts = layout.parts, \E S : mounts' \in Seq(S),
         pc' \notin {"format", "mkfs", "mount"},
         pc' = "create" => work'.i = 0, pc' = "done" => outcome' # "made"
  PROVE  MadeInv'
BY DEF MadeInv, Numbered, Formatted, MountedSoFar, Finished

\* What was made is there as long as nothing of it changes.
LEMMA StillMade ==
  ASSUME UNCHANGED <<layout, parts, content, mapper, node>>
  PROVE  /\ PartCount' = PartCount /\ (Extent(LastLabel) = {})' = (Extent(LastLabel) = {})
         /\ \A m : Located(m)' = Located(m) /\ MadeTo(m)' = MadeTo(m)
         /\ \A i : StartOf(i)' = StartOf(i) /\ Extent(LabelOf(i))' = Extent(LabelOf(i))
         /\ mounts' = mounts => \A i : Shows(i)' = Shows(i)
<1>1. PartCount' = PartCount /\ \A i : LabelOf(i)' = LabelOf(i)
  BY DEF PartCount, LabelOf
<1>2. \A i : StartOf(i)' = StartOf(i) /\ Extent(LabelOf(i))' = Extent(LabelOf(i))
  BY <1>1 DEF StartOf, Extent
<1>3. \A m : Located(m)' = Located(m)
  BY <1>1 DEF Located
<1>4. \A i : MadeAt(i)' = MadeAt(i)
  BY <1>2 DEF MadeAt
<1>5. \A m : MadeTo(m)' = MadeTo(m)
  BY <1>1, <1>3, <1>4 DEF MadeTo
<1>6. (Extent(LastLabel) = {})' = (Extent(LastLabel) = {})
  BY <1>1 DEF LastLabel, Extent
<1>7. ASSUME mounts' = mounts
      PROVE  \A i : Shows(i)' = Shows(i)
  BY <1>2, <1>7 DEF Shows, ShowsAt, ShownAt
<1> QED
  BY <1>1, <1>2, <1>3, <1>5, <1>6, <1>7

LEMMA MadeRests ==
  ASSUME MadeInv, UNCHANGED <<layout, parts, content, mapper, mounts, pc, work, node, outcome>>,
         clean' => clean
  PROVE  MadeInv'
<1>1. /\ Arranged(layout.parts)' /\ \E S : mounts' \in Seq(S)
      /\ (pc = "mount" => work.todo \subseteq DOMAIN layout.parts)'
  BY DEF MadeInv
<1> SUFFICES ASSUME clean, Numbered, Formatted, MountedSoFar, Finished
             PROVE  (Numbered /\ Formatted /\ MountedSoFar /\ Finished)'
  BY <1>1 DEF MadeInv
<1>2. Numbered'
  BY StillMade DEF Numbered
<1>3. Formatted'
  BY StillMade DEF Formatted
<1>4. MountedSoFar'
  BY StillMade DEF MountedSoFar, ToMount
<1>5. Finished'
  BY StillMade DEF Finished
<1> QED
  BY <1>2, <1>3, <1>4, <1>5

LEMMA MadeBegins ==
  ASSUME DiskInv, MadeInv, NEW numbered \in BOOLEAN, NEW placed \in BOOLEAN,
         BeginPartitions(numbered, placed)
  PROVE  MadeInv'
<1> DEFINE number == NextNumber(IF numbered THEN parts ELSE <<>>)
<1>1. /\ pc = "create" /\ UNCHANGED <<layout, parts, mounts>>
      /\ ~(numbered /\ placed) => ~clean'
      /\ \/ pc' = "idle"
         \/ pc' = "create" /\ work'.i = 1 /\ work'.todo = {number}
  BY DEF BeginPartitions, Raise, EndWith, Unchecked, disk
<1>2. CASE pc' = "idle" \/ ~clean'
  BY <1>1, <1>2, MadeElsewhere DEF MadeInv
<1>3. CASE clean' /\ pc' = "create"
  <2>1. number = NextNumber(parts)
    BY <1>1, <1>3
  <2>2. number \in Nat \ {0} /\ \A k \in DOMAIN parts : k < number
    BY <2>1, NextIsFree
  <2>3. Located(0)'
    BY DEF Located
  <2> HIDE DEF number
  <2>4. work'.i - 1 = 0
    BY <1>1, <1>3
  <2>5. Numbered'
    BY <1>1, <1>3, <2>2, <2>3, <2>4 DEF Numbered
  <2> QED
    BY <1>1, <1>3, <2>5 DEF MadeInv, Formatted, MountedSoFar, Finished
<1> QED
  BY <1>1, <1>2, <1>3

LEMMA MadeCreates ==
  ASSUME DiskInv, MadeInv, NEW done \in BOOLEAN, CreatePartition(done)
  PROVE  MadeInv'
<1> DEFINE p == layout.parts[work.i]
           end == PartitionEnd(work.start, p.size)
           e == [start |-> work.start.at, end |-> end.at, new |-> TRUE]
<1>1. pc = "create" /\ work.i > 0 /\ Working /\ UNCHANGED <<layout, content, mapper, mounts>>
  BY DEF CreatePartition, Working
<1>2. CASE end = Bad \/ ~clean'
  <2>1. end = Bad => pc' = "idle"
    BY DEF CreatePartition, Raise, EndWith
  <2>2. pc' # "mount"
    BY <1>1 DEF CreatePartition, Raise, EndWith
  <2> QED
    BY <1>1, <1>2, <2>1, <2>2 DEF MadeInv, Numbered, Formatted, MountedSoFar, Finished
<1>3. CASE end # Bad /\ clean'
  <2>1. done /\ clean
    BY <1>3 DEF CreatePartition, Unchecked
  <2>2. PICK n \in Nat \ {0} :
          /\ work.todo = {n} /\ \A k \in DOMAIN parts : k < n
          /\ \/ (\A m \in 1 .. n - 1 : m \in DOMAIN parts) /\ Located(work.i - 1)
             \/ \E m \in 1 .. n - 1 : m \notin DOMAIN parts
    BY <1>1, <2>1 DEF MadeInv, Numbered
  <2>3. Number = n
    BY <2>2 DEF Number
  <2>4. /\ parts' = Put(parts, FreeNumber, e) /\ node' = Put(node, LabelOf(work.i), n)
        /\ \/ work.i = PartCount /\ pc' = "format" /\ work' = NoWork
           \/ /\ pc' = "create" /\ work.i # PartCount
              /\ work'.i = work.i + 1 /\ work'.todo = {n + 1}
    BY <1>1, <1>3, <2>1, <2>3 DEF CreatePartition, LabelOf, PartCount
  <2> HIDE DEF p, end, e
  <2>5. work.i \in 1 .. PartCount /\ PartCount \in Nat
    BY <1>1, PartsDeclared DEF DiskInv, Careful
  <2>6. n \notin DOMAIN parts
    BY <2>2
  <2>7. FreeNumber <= n /\ FreeNumber \in Nat \ {0} /\ FreeNumber \notin DOMAIN parts
    BY <2>6, FreeNumberIsLowest
  <2>8. /\ DOMAIN parts' = DOMAIN parts \cup {FreeNumber}
        /\ DOMAIN node' = DOMAIN node \cup {LabelOf(work.i)} /\ node'[LabelOf(work.i)] = n
        /\ \A l \in DOMAIN node : l # LabelOf(work.i) => node'[l] = node[l]
    BY <2>4 DEF Put
  <2>9. \A k \in DOMAIN parts' : k < n + 1
    <3>1. \A k \in DOMAIN parts : k \in Nat
      BY DEF DiskInv, DiskTypeOK
    <3> QED
      BY <2>2, <2>7, <2>8, <3>1
  <2>10. PartCount' = PartCount /\ \A i : LabelOf(i)' = LabelOf(i)
    BY <1>1 DEF PartCount, LabelOf
  \* A number is left over below: what is made now takes that one or one below it.
  <2>11. CASE \E m \in 1 .. n - 1 : m \notin DOMAIN parts
    <3>1. PICK m \in 1 .. n - 1 : m \notin DOMAIN parts
      BY <2>11
    <3>2. FreeNumber <= m /\ m < n /\ m \in Nat \ {0}
      BY <3>1, FreeNumberIsLowest
    <3>3. n \notin DOMAIN parts'
      BY <2>6, <2>7, <2>8, <3>2
    <3>4. CASE pc' = "create"
      <4>1. n \in 1 .. (n + 1) - 1 /\ n + 1 \in Nat \ {0}
        OBVIOUS
      <4>2. Numbered'
        BY <2>4, <2>9, <3>3, <3>4, <4>1 DEF Numbered
      <4> QED
        BY <1>1, <3>4, <4>2 DEF MadeInv, Formatted, MountedSoFar, Finished
    <3>5. CASE work.i = PartCount /\ pc' = "format"
      <4>1. (Extent(LastLabel) = {})'
        BY <2>8, <2>10, <3>3, <3>5 DEF Extent, LastLabel
      <4> QED
        BY <1>1, <3>5, <4>1 DEF MadeInv, Numbered, Formatted, MountedSoFar, Finished
    <3> QED
      BY <2>4, <3>4, <3>5
  \* None is: it takes the number it is believed to have.
  <2>12. CASE (\A m \in 1 .. n - 1 : m \in DOMAIN parts) /\ Located(work.i - 1)
    <3>0. PICK last \in 1 .. PartCount : last = work.i
      BY <2>5
    <3>1. FreeNumber = n
      <4>1. FreeNumber < n => FreeNumber \in 1 .. n - 1
        BY <2>7
      <4> QED
        BY <2>7, <2>12, <4>1
    <3>2. \A i \in 1 .. work.i - 1 : i \in 1 .. PartCount /\ LabelOf(i) # LabelOf(work.i)
      <4>1. \A i \in 1 .. work.i - 1 : i \in 1 .. PartCount /\ i # work.i
        BY <2>5
      <4> QED
        BY <2>5, <4>1, PartsDeclared DEF MadeInv, Arranged, LabelsDiffer, LabelOf
    <3>3. ASSUME NEW i \in 1 .. work.i
          PROVE  /\ LabelOf(i)' \in DOMAIN node' /\ (node[LabelOf(i)])' \in DOMAIN parts'
                 /\ i # work.i => /\ i \in 1 .. work.i - 1
                                  /\ (node[LabelOf(i)])' = node[LabelOf(i)]
                                  /\ node[LabelOf(i)] # n
                 /\ i = work.i => (node[LabelOf(i)])' = n
      <4>1. CASE i = work.i
        BY <2>8, <2>10, <3>1, <4>1
      <4>2. CASE i # work.i
        <5>1. i \in 1 .. work.i - 1
          BY <2>5, <4>2
        <5>2. LabelOf(i) \in DOMAIN node /\ node[LabelOf(i)] \in DOMAIN parts
          BY <2>12, <5>1 DEF Located
        <5>3. node'[LabelOf(i)] = node[LabelOf(i)]
          BY <2>8, <3>2, <5>1, <5>2
        <5> QED
          BY <2>6, <2>8, <2>10, <4>2, <5>1, <5>2, <5>3
      <4> QED
        BY <4>1, <4>2
    <3>4. Located(last)'
      <4>1. ASSUME NEW i \in 1 .. last, NEW k \in 1 .. last, (node[LabelOf(i)])' = (node[LabelOf(k)])'
            PROVE  i = k
        <5>1. CASE i # work.i /\ k # work.i
          BY <2>12, <3>0, <3>3, <4>1, <5>1 DEF Located
        <5>2. CASE i = work.i \/ k = work.i
          BY <3>0, <3>3, <4>1, <5>2
        <5> QED
          BY <5>1, <5>2
      <4>2. \A i \in 1 .. last : LabelOf(i)' \in DOMAIN node' /\ (node[LabelOf(i)])' \in DOMAIN parts'
        BY <3>0, <3>3
      <4>3. \A i, k \in 1 .. last : (node[LabelOf(i)])' = (node[LabelOf(k)])' => i = k
        BY <4>1
      <4> QED
        BY <4>2, <4>3 DEF Located
    <3>5. CASE pc' = "create"
      <4>1. work'.i - 1 = last /\ n + 1 \in Nat \ {0}
        BY <2>4, <2>5, <3>0, <3>5
      <4>2. \A m \in 1 .. (n + 1) - 1 : m \in DOMAIN parts'
        <5>1. \A m \in 1 .. (n + 1) - 1 : m = n \/ m \in 1 .. n - 1
          OBVIOUS
        <5> QED
          BY <2>8, <2>12, <3>1, <5>1
      <4>3. Located(work.i - 1)'
        BY <3>4, <4>1
      <4>4. Numbered'
        BY <2>4, <2>9, <3>5, <4>1, <4>2, <4>3 DEF Numbered
      <4> QED
        BY <1>1, <3>5, <4>4 DEF MadeInv, Formatted, MountedSoFar, Finished
    <3>6. CASE work.i = PartCount /\ pc' = "format" /\ work' = NoWork
      <4>1. work'.i - 1 = 0
        BY <3>6 DEF NoWork
      <4>2. PartCount' = last
        BY <2>10, <3>0, <3>6
      <4>3. Located(PartCount)'
        BY <3>4, <4>2
      <4>4. MadeTo(work.i - 1)'
        BY <4>1, <4>3 DEF MadeTo
      <4>5. Formatted'
        BY <3>6, <4>4 DEF Formatted
      <4> QED
        BY <1>1, <3>6, <4>5 DEF MadeInv, Numbered, MountedSoFar, Finished
    <3> QED
      BY <2>4, <3>5, <3>6
  <2> QED
    BY <2>2, <2>11, <2>12
<1> QED
  BY <1>2, <1>3

\* What one partition is made of takes nothing from another.
LEMMA OthersStayMade ==
  ASSUME DiskInv, UNCHANGED <<layout, parts, node>>, Located(PartCount), NEW i \in 1 .. PartCount,
         NEW c, content' = Put(content, StartOf(i), c),
         NEW k \in 1 .. PartCount, k # i, MadeAt(k), layout.parts[k].enc => mapper' = mapper
  PROVE  MadeAt(k)'
<1>1. StartOf(k) # StartOf(i)
  BY LocatedApart
<1>2. StartOf(k)' = StartOf(k)
  BY DEF StartOf, LabelOf
<1>3. StartOf(k) \in DOMAIN content' /\ content'[StartOf(k)] = content[StartOf(k)]
  BY <1>1 DEF Put, MadeAt
<1> QED
  BY <1>2, <1>3 DEF MadeAt

LEMMA MadeEncrypts ==
  ASSUME DiskInv, MadeInv, NEW formatted \in BOOLEAN, NEW opened \in BOOLEAN, Encrypt(formatted, opened)
  PROVE  MadeInv'
<1> DEFINE at == CHOOSE s \in Extent(Partition.label) : TRUE
           i == work.i
<1>1. /\ pc = "format" /\ pc' = "mkfs" /\ Working /\ Partition.enc
      /\ UNCHANGED <<layout, parts, mounts, work, node>>
  BY DEF Encrypt, Working
<1>2. CASE ~clean'
  BY <1>1, <1>2 DEF MadeInv
<1>3. CASE clean'
  <2>1. clean /\ formatted /\ opened /\ mapper = Closed /\ Extent(LabelOf(i)) # {}
    BY <1>3 DEF Encrypt, Unchecked, Partition, LabelOf
  <2>2. at \in Extent(LabelOf(i)) /\ Extent(LabelOf(i)) = {StartOf(i)}
    BY <2>1 DEF Partition, LabelOf, Extent, StartOf
  <2>3. content' = Put(content, StartOf(i), Fresh(NoLabel, "luks", TRUE)) /\ mapper' = StartOf(i)
    BY <2>1, <2>2 DEF Encrypt
  <2>4. i \in 1 .. PartCount /\ PartCount \in Nat
    BY <1>1, PartsDeclared DEF DiskInv, Careful
  <2>5. PartCount' = PartCount /\ LastLabel' = LastLabel /\ \A k : LabelOf(k)' = LabelOf(k) /\ StartOf(k)' = StartOf(k)
    BY <1>1 DEF PartCount, LabelOf, LastLabel, StartOf
  <2> HIDE DEF at
  <2>6. ASSUME MadeTo(i - 1)
        PROVE  MadeTo(i - 1)'
    <3>1. Located(PartCount)'
      BY <1>1, <2>5, <2>6 DEF Located, MadeTo
    <3>2. ASSUME NEW k \in 1 .. i - 1
          PROVE  MadeAt(k)'
      <4>1. k \in 1 .. PartCount /\ k # i /\ MadeAt(k) /\ Located(PartCount)
        BY <2>4, <2>6 DEF MadeTo
      <4>2. ~layout.parts[k].enc
        <5>1. StartOf(k) \in Nat
          BY <4>1, LocatedApart
        <5> QED
          BY <2>1, <4>1, <5>1 DEF MadeAt, Closed
      <4> QED
        BY <1>1, <2>3, <2>4, <4>1, <4>2, OthersStayMade
    <3> QED
      BY <1>1, <3>1, <3>2 DEF MadeTo
  <2>7. Extent(LastLabel)' = Extent(LastLabel) /\ Extent(LabelOf(i))' = Extent(LabelOf(i))
    BY <1>1, <2>5 DEF Extent
  <2>8. Formatted'
    <3>1. Extent(LastLabel) = {} \/ MadeTo(i - 1)
      BY <1>1, <2>1 DEF MadeInv, Formatted
    <3> QED
      BY <1>1, <2>1, <2>3, <2>5, <2>6, <2>7, <3>1 DEF Formatted, Partition
  <2> QED
    BY <1>1, <2>8 DEF MadeInv, Numbered, MountedSoFar, Finished
<1> QED
  BY <1>2, <1>3

LEMMA MadeFormats ==
  ASSUME DiskInv, MadeInv, NEW done \in BOOLEAN, NEW made \in BOOLEAN, Mkfs(done, made)
  PROVE  MadeInv'
<1> DEFINE p == Partition
           i == work.i
           new == Fresh(ExpectedLabel(p), p.kind, p.enc)
           at == CHOOSE s \in Device(p) : TRUE
           subs == {p.subs[j].name : j \in DOMAIN p.subs}
           written == [new EXCEPT !.subs = IF made THEN @ \cup subs ELSE @]
<1>1. /\ pc = "mkfs" \/ (pc = "format" /\ ~p.enc)
      /\ Working /\ UNCHANGED <<layout, parts, mapper, mounts>>
      /\ \/ pc' = "idle"
         \/ /\ node' = node
            /\ \/ i = PartCount /\ pc' = "mount" /\ work'.todo = DOMAIN layout.parts
               \/ i # PartCount /\ pc' = "format" /\ work' = [work EXCEPT !.i = @ + 1]
  <2>1. pc = "mkfs" \/ (pc = "format" /\ ~p.enc)
    BY DEF Mkfs
  <2>2. UNCHANGED <<layout, parts, mapper, mounts>>
    BY DEF Mkfs
  <2>3. \/ pc' = "idle"
        \/ /\ node' = node
           /\ \/ i = Len(layout.parts) /\ pc' = "mount" /\ work' = [NoWork EXCEPT !.todo = DOMAIN layout.parts]
              \/ i # Len(layout.parts) /\ pc' = "format" /\ work' = [work EXCEPT !.i = @ + 1]
    BY DEF Mkfs, Raise, EndWith
  <2>4. [NoWork EXCEPT !.todo = DOMAIN layout.parts].todo = DOMAIN layout.parts
    BY DEF NoWork
  <2> QED
    BY <2>1, <2>2, <2>3, <2>4 DEF Working, PartCount
<1>2. CASE ~clean' \/ pc' = "idle"
  BY <1>1, <1>2 DEF MadeInv, Numbered, Formatted, MountedSoFar, Finished
<1>3. CASE clean' /\ pc' # "idle"
  <2>1. clean /\ done /\ Device(p) # {} /\ content' = Put(content, at, written)
    BY <1>3 DEF Mkfs, Unchecked
  <2>2. written.label = ExpectedLabel(p) /\ written.fresh
    <3>1. new = [label |-> ExpectedLabel(p), kind |-> p.kind, enc |-> p.enc, subs |-> {}, fresh |-> TRUE]
      BY DEF Fresh
    <3> HIDE DEF p, subs
    <3> QED
      BY <3>1
  <2>3. i \in 1 .. PartCount /\ PartCount \in Nat
    BY <1>1, PartsDeclared DEF DiskInv, Careful
  <2>4. at \in Device(p)
    BY <2>1
  <2> HIDE DEF at, new, written
  <2>5. Extent(LabelOf(i)) # {} /\ (p.enc => pc = "mkfs")
    <3>1. CASE pc = "mkfs"
      BY <2>1, <3>1 DEF MadeInv, Formatted
    <3>2. CASE ~p.enc
      BY <2>1, <3>2 DEF Device, Partition, LabelOf
    <3> QED
      BY <1>1, <3>1, <3>2
  <2>6. Extent(LastLabel) = {} \/ MadeTo(i - 1)
    BY <1>1, <2>1 DEF MadeInv, Formatted
  <2>7. ASSUME MadeTo(i - 1), Extent(LastLabel) # {}
        PROVE  \A k \in 1 .. i : MadeAt(k)'
    <3>1. at = StartOf(i) /\ (p.enc => mapper = StartOf(i))
      <4>1. CASE p.enc
        <5>1. Device(p) = {mapper} \ {Closed}
          BY <4>1 DEF Device
        <5>2. mapper = StartOf(i)
          BY <2>1, <2>5, <2>7, <4>1 DEF MadeInv, Formatted
        <5> QED
          BY <2>4, <5>1, <5>2
      <4>2. CASE ~p.enc
        <5>1. Device(p) = Extent(LabelOf(i))
          BY <4>2 DEF Device, Partition, LabelOf
        <5>2. Extent(LabelOf(i)) = {StartOf(i)}
          BY <2>5 DEF Extent, StartOf
        <5> QED
          BY <2>4, <4>2, <5>1, <5>2
      <4> QED
        BY <4>1, <4>2
    <3>2. \A k : LabelOf(k)' = LabelOf(k) /\ StartOf(k)' = StartOf(k)
      BY <1>1, <1>3 DEF LabelOf, StartOf
    <3>3. content' = Put(content, StartOf(i), written) /\ i \in 1 .. PartCount
      BY <2>1, <2>3, <3>1
    <3>4. Located(PartCount) /\ UNCHANGED <<layout, parts, node, mapper>>
      BY <1>1, <1>3, <2>7 DEF MadeTo
    <3>5. PICK n \in 1 .. PartCount : n = i
      BY <2>3
    <3>6. MadeAt(n)'
      <4>1. StartOf(n)' = StartOf(i) /\ StartOf(i) \in DOMAIN content' /\ content'[StartOf(i)] = written
        BY <3>2, <3>3, <3>5 DEF Put
      <4>2. layout'.parts[n] = p
        BY <1>1, <3>5 DEF Partition
      <4> QED
        BY <1>1, <2>2, <3>1, <4>1, <4>2 DEF MadeAt
    <3>7. ASSUME NEW k \in 1 .. i
          PROVE  MadeAt(k)'
      <4>1. CASE k = i
        BY <3>5, <3>6, <4>1
      <4>2. CASE k # i
        <5>1. k \in 1 .. PartCount /\ MadeAt(k)
          BY <2>3, <2>7, <4>2 DEF MadeTo
        <5> HIDE DEF p, i
        <5>2. i \in 1 .. PartCount /\ k # i
          BY <2>3, <4>2
        <5> QED
          BY <3>3, <3>4, <5>1, <5>2, OthersStayMade
      <4> QED
        BY <4>1, <4>2
    <3> QED
      BY <3>7
  <2>8. PartCount' = PartCount /\ Located(PartCount)' = Located(PartCount) /\ (Extent(LastLabel) = {})' = (Extent(LastLabel) = {})
    <3>1. PartCount' = PartCount /\ \A k : LabelOf(k)' = LabelOf(k)
      BY <1>1 DEF PartCount, LabelOf
    <3>2. Located(PartCount)' = Located(PartCount)
      BY <1>1, <1>3, <3>1 DEF Located
    <3> QED
      BY <1>1, <1>3, <3>1, <3>2 DEF LastLabel, Extent
  <2>9. CASE i = PartCount /\ pc' = "mount" /\ work'.todo = DOMAIN layout.parts
    <3>1. MadeTo(i - 1) /\ Extent(LastLabel) # {}
      BY <2>5, <2>6, <2>9 DEF LastLabel
    <3>2. MadeTo(PartCount)'
      <4>1. PICK n \in 1 .. PartCount : n = i
        BY <2>3
      <4>2. PartCount' = n /\ \A k \in 1 .. n : MadeAt(k)'
        BY <2>7, <2>8, <2>9, <3>1, <4>1
      <4> QED
        BY <2>8, <3>1, <4>2 DEF MadeTo
    <3>3. MountedSoFar' /\ work'.todo \subseteq DOMAIN layout'.parts
      BY <1>1, <2>9, <3>2 DEF MountedSoFar
    <3> QED
      BY <1>1, <2>9, <3>3 DEF MadeInv, Numbered, Formatted, Finished
  <2>10. CASE pc' = "format" /\ work' = [work EXCEPT !.i = @ + 1]
    <3>1. work'.i - 1 = i
      BY <2>3, <2>10 DEF DiskInv, DiskTypeOK, WorkType
    <3>2. (Extent(LastLabel) = {})' \/ MadeTo(work.i - 1)'
      <4> SUFFICES ASSUME Extent(LastLabel) # {}
                   PROVE  MadeTo(work.i - 1)'
        BY <2>8
      <4>1. PICK n \in 1 .. PartCount : n = i
        BY <2>3
      <4>2. (work.i - 1)' = n /\ \A k \in 1 .. n : MadeAt(k)'
        BY <2>6, <2>7, <3>1, <4>1
      <4>3. Located(PartCount)'
        BY <2>6, <2>8 DEF MadeTo
      <4> QED
        BY <4>2, <4>3 DEF MadeTo
    <3>3. Formatted'
      BY <2>10, <3>2 DEF Formatted
    <3> QED
      BY <1>1, <2>10, <3>3 DEF MadeInv, Numbered, MountedSoFar, Finished
  <2> QED
    BY <1>1, <1>3, <2>9, <2>10
<1> QED
  BY <1>2, <1>3

\* A btrfs with subvolumes is mounted, at the depth of the shallowest of them if its
\* partition has no mountpoint.
LEMMA EffectiveType ==
  ASSUME NEW p \in PartitionSpec
  PROVE  /\ Effective(p) \in Path \cup {NoPath}
         /\ p.subs # <<>> => Effective(p) # NoPath
         /\ Effective(p) = NoPath => p.at = NoPath
         /\ Mountable(p) => Deep(p) \in Nat
<1>1. p.at \in {NoPath} \cup Path /\ p.subs \in Seq([name : STRING, at : Path])
  BY DEF PartitionSpec
<1> DEFINE all == {p.subs[j].at : j \in DOMAIN p.subs}
<1>2. all \subseteq Path
  <2>1. \A j \in DOMAIN p.subs : p.subs[j] \in [name : STRING, at : Path]
    BY <1>1, Elements
  <2> QED
    BY <2>1
<1>3. ASSUME p.subs # <<>>, p.at = NoPath
      PROVE  Effective(p) \in Path
  <2>1. all # {}
    <3>1. DOMAIN p.subs # {}
      <4>1. Len(p.subs) \in Nat /\ DOMAIN p.subs = 1 .. Len(p.subs) /\ Len(p.subs) # 0
        BY <1>1, <1>3, EmptySeq, LenProperties
      <4>2. 1 \in 1 .. Len(p.subs)
        BY <4>1
      <4> QED
        BY <4>1, <4>2
    <3> QED
      BY <3>1
  <2>2. Effective(p) = CHOOSE a \in all : \A b \in all : Depth(a) <= Depth(b)
    BY <1>3 DEF Effective
  <2> HIDE DEF all
  <2> DEFINE depths == {Depth(a) : a \in all}
  <2>3. \A a \in all : Depth(a) \in Nat
    BY <1>2, LenProperties DEF Depth, Path
  <2>4. depths \subseteq Nat /\ depths # {}
    BY <2>1, <2>3
  <2>5. PICK x \in depths : \A y \in depths : x <= y
    <3> HIDE DEF depths
    <3> QED
      BY <2>4, LeastExists
  <2>6. \E a \in all : \A b \in all : Depth(a) <= Depth(b)
    BY <2>5
  <2>7. Effective(p) \in all
    BY <2>2, <2>6
  <2> QED
    BY <1>2, <2>7
<1>4. ~(p.subs # <<>> /\ p.at = NoPath) => Effective(p) = p.at
  BY DEF Effective
<1>5. Effective(p) \in Path \cup {NoPath}
  BY <1>1, <1>3, <1>4
<1>6. p.subs # <<>> => Effective(p) # NoPath
  BY <1>1, <1>3, <1>4, PathAssumption
<1>7. Effective(p) = NoPath => p.at = NoPath
  BY <1>3, <1>4, PathAssumption
<1>8. Mountable(p) => Deep(p) \in Nat
  <2> SUFFICES ASSUME Mountable(p)
               PROVE  Deep(p) \in Nat
    OBVIOUS
  <2>1. Effective(p) \in Seq(STRING)
    BY <1>5 DEF Mountable, Path
  <2> QED
    BY <2>1, LenProperties DEF Deep, Depth
<1> QED
  BY <1>5, <1>6, <1>7, <1>8

LEMMA ToMountIs ==
  ASSUME DiskInv, work.todo \subseteq DOMAIN layout.parts
  PROVE  \A i : i \in ToMount <=> i \in work.todo /\ Mountable(layout.parts[i])
BY DEF ToMount, Mountable

\* None that is still to be mounted is mounted at a lesser depth than the next one.
LEMMA NextIsShallowest ==
  ASSUME DiskInv, work.todo \subseteq DOMAIN layout.parts, ToMount # {}
  PROVE  /\ NextToMount \in ToMount
         /\ \A k \in ToMount : Deep(layout.parts[NextToMount]) <= Deep(layout.parts[k])
<1> DEFINE deep(i) == Depth(Effective(layout.parts[i]))
           depths == {deep(i) : i \in ToMount}
<1>1. \A i \in ToMount : deep(i) \in Nat /\ i \in Nat /\ deep(i) = Deep(layout.parts[i])
  BY ToMountIs, PartsDeclared, EffectiveType DEF Deep
<1> HIDE DEF deep
<1>2. depths \subseteq Nat /\ depths # {}
  BY <1>1
<1>3. PICK x \in depths : \A y \in depths : x <= y
  <2> HIDE DEF depths
  <2> QED
    BY <1>2, LeastExists
<1> DEFINE least == {i \in ToMount : deep(i) = x}
<1>4. least \subseteq Nat /\ least # {}
  BY <1>1
<1>5. PICK i \in least : \A j \in least : i <= j
  <2> HIDE DEF least
  <2> QED
    BY <1>4, LeastExists
<1>6. i \in ToMount /\ \A j \in ToMount : deep(i) < deep(j) \/ (deep(i) = deep(j) /\ i <= j)
  <2>1. i \in ToMount /\ deep(i) = x
    OBVIOUS
  <2>2. ASSUME NEW j \in ToMount
        PROVE  deep(i) < deep(j) \/ (deep(i) = deep(j) /\ i <= j)
    <3>1. x <= deep(j)
      BY <1>3
    <3>2. deep(j) = x => i <= j
      BY <1>5
    <3>3. deep(j) \in Nat /\ x \in Nat
      BY <1>1, <1>2
    <3> HIDE DEF least, depths
    <3> QED
      BY <2>1, <3>1, <3>2, <3>3
  <2> QED
    BY <2>1, <2>2
<1> HIDE DEF least, depths
<1>7. NextToMount = CHOOSE n \in ToMount : \A j \in ToMount : deep(n) < deep(j) \/ (deep(n) = deep(j) /\ n <= j)
  BY DEF NextToMount, deep
<1>8. /\ NextToMount \in ToMount
      /\ \A j \in ToMount : deep(NextToMount) < deep(j) \/ deep(NextToMount) = deep(j)
  BY <1>6, <1>7
<1>9. \A j \in ToMount : deep(NextToMount) <= deep(j)
  BY <1>1, <1>8
<1> QED
  BY <1>1, <1>8, <1>9

\* What new mounts do not cover still shows; a new one shows that no later one covers.
LEMMA ShownAfter ==
  ASSUME NEW S, mounts \in Seq(S), NEW T, NEW new \in Seq(T), mounts' = mounts \o new
  PROVE  /\ \E U : mounts' \in Seq(U)
         /\ \A path : \A n \in ShownAt(path) :
               (\A k \in DOMAIN new : ~IsPrefix(new[k].at, path))
                 => n \in ShownAt(path)' /\ mounts'[n] = mounts[n]
         /\ \A k \in DOMAIN new :
               (\A m \in DOMAIN new : k < m => ~IsPrefix(new[m].at, new[k].at))
                 => \E n \in ShownAt(new[k].at)' : mounts'[n] = new[k]
<1> DEFINE U == S \cup T
           c == Len(mounts)
           d == Len(new)
<1>1. mounts \in Seq(U) /\ new \in Seq(U)
  BY SeqMonotonic
<1> HIDE DEF U
<1>2. /\ mounts' \in Seq(U) /\ Len(mounts') = c + d
      /\ \A i \in 1 .. c + d : mounts'[i] = IF i <= c THEN mounts[i] ELSE new[i - c]
  BY <1>1, ConcatProperties
<1>3. c \in Nat /\ d \in Nat /\ DOMAIN mounts = 1 .. c /\ DOMAIN new = 1 .. d
  BY LenProperties
<1>4. DOMAIN mounts' = 1 .. c + d
  BY <1>2, LenProperties
<1> HIDE DEF c, d
<1>5. /\ \A i \in 1 .. c : mounts'[i] = mounts[i]
      /\ \A i \in 1 .. c + d : i > c => i - c \in 1 .. d /\ mounts'[i] = new[i - c]
  BY <1>2, <1>3
<1>6. ASSUME NEW path, NEW n \in ShownAt(path), \A k \in DOMAIN new : ~IsPrefix(new[k].at, path)
      PROVE  n \in ShownAt(path)' /\ mounts'[n] = mounts[n]
  <2>1. /\ n \in 1 .. c /\ mounts[n].at = path
        /\ \A m \in n + 1 .. c : ~IsPrefix(mounts[m].at, path)
    BY <1>3 DEF ShownAt, c
  <2>2. ASSUME NEW m \in n + 1 .. c + d
        PROVE  ~IsPrefix(mounts'[m].at, path)
    <3>1. CASE m <= c
      <4>1. m \in n + 1 .. c /\ m \in 1 .. c
        BY <1>3, <2>1, <3>1
      <4> QED
        BY <1>5, <2>1, <4>1
    <3>2. CASE m > c
      <4>1. m \in 1 .. c + d
        BY <1>3, <2>1
      <4> QED
        BY <1>3, <1>5, <1>6, <3>2, <4>1
    <3> QED
      BY <1>3, <2>1, <3>1, <3>2
  <2>3. n \in 1 .. c + d /\ mounts'[n] = mounts[n]
    BY <1>3, <1>5, <2>1
  <2> QED
    BY <1>2, <1>4, <2>1, <2>2, <2>3 DEF ShownAt
<1>7. ASSUME NEW k \in DOMAIN new, \A m \in DOMAIN new : k < m => ~IsPrefix(new[m].at, new[k].at)
      PROVE  \E n \in ShownAt(new[k].at)' : mounts'[n] = new[k]
  <2>1. k \in 1 .. d /\ c + k \in 1 .. c + d /\ c + k > c /\ c + k - c = k
    BY <1>3
  <2>2. mounts'[c + k] = new[k]
    <3>1. \A i \in 1 .. c + d : i > c => mounts'[i] = new[i - c]
      BY <1>5
    <3>2. mounts'[c + k] = new[(c + k) - c]
      BY <2>1, <3>1
    <3>3. (c + k) - c = k
      BY <1>3
    <3> QED
      BY <3>2, <3>3, Zenon
  <2>3. ASSUME NEW m \in c + k + 1 .. c + d
        PROVE  ~IsPrefix(mounts'[m].at, new[k].at)
    <3>1. m \in 1 .. c + d /\ m > c /\ m - c \in 1 .. d /\ k < m - c
      BY <1>3, <2>1
    <3>2. mounts'[m] = new[m - c]
      BY <1>5, <3>1
    <3> QED
      BY <1>3, <1>7, <3>1, <3>2
  <2>4. c + k \in ShownAt(new[k].at)'
    BY <1>2, <1>4, <2>1, <2>2, <2>3 DEF ShownAt
  <2> QED
    BY <2>2, <2>4
<1> QED
  BY <1>2, <1>6, <1>7

LEMMA MadeMounts ==
  ASSUME DiskInv, MadeInv, NEW done \in BOOLEAN, MountPartition(done)
  PROVE  MadeInv'
<1> DEFINE here == NextToMount
           p == layout.parts[here]
           from == CHOOSE s \in Device(p) : TRUE
           rows == IF p.subs = <<>> THEN <<[at |-> p.at, sub |-> NoLabel]>>
                   ELSE [j \in DOMAIN p.subs |-> [at |-> p.subs[j].at, sub |-> p.subs[j].name]]
           new == [j \in DOMAIN rows |-> [at |-> rows[j].at, sub |-> rows[j].sub, from |-> from]]
<1>1. /\ pc = "mount" /\ ToMount # {} /\ UNCHANGED <<layout, parts, content, mapper>>
      /\ IF done THEN mounts' = mounts \o new /\ work' = [work EXCEPT !.todo = @ \ {here}] /\ UNCHANGED <<pc, node, clean>>
         ELSE mounts' = mounts /\ pc' = "idle" /\ ~clean'
  BY DEF MountPartition, Raise, EndWith, Unchecked, disk
<1>2. CASE ~done
  BY <1>1, <1>2 DEF MadeInv
<1>3. CASE done
  <2>1. /\ mounts' = mounts \o new /\ work' = [work EXCEPT !.todo = @ \ {here}] /\ pc' = "mount"
        /\ node' = node /\ clean' = clean
    BY <1>1, <1>3
  <2>2. PICK S : mounts \in Seq(S)
    BY DEF MadeInv
  <2>3. work.todo \subseteq DOMAIN layout.parts
    BY <1>1 DEF MadeInv
  <2>4. here \in ToMount /\ \A k \in ToMount : Deep(p) <= Deep(layout.parts[k])
    BY <1>1, <2>3, NextIsShallowest
  <2>5. here \in work.todo /\ here \in DOMAIN layout.parts /\ here \in 1 .. PartCount /\ Mountable(p)
    BY <2>3, <2>4, ToMountIs, PartsDeclared
  <2>6. p \in PartitionSpec /\ p.subs \in Seq([name : STRING, at : Path])
    BY <2>5, PartsDeclared DEF PartitionSpec
  <2>7. /\ \E n \in Nat : DOMAIN rows = 1 .. n
        /\ p.subs = <<>> => DOMAIN rows = {1} /\ rows[1] = [at |-> p.at, sub |-> NoLabel]
        /\ p.subs # <<>> => DOMAIN rows = DOMAIN p.subs /\
              \A j \in DOMAIN rows : rows[j] = [at |-> p.subs[j].at, sub |-> p.subs[j].name]
    <3>1. CASE p.subs = <<>>
      <4>1. rows = <<[at |-> p.at, sub |-> NoLabel]>>
        BY <3>1
      <4>2. DOMAIN rows = 1 .. 1 /\ rows[1] = [at |-> p.at, sub |-> NoLabel]
        BY <4>1
      <4> QED
        BY <3>1, <4>2
    <3>2. CASE p.subs # <<>>
      <4>1. Len(p.subs) \in Nat /\ DOMAIN p.subs = 1 .. Len(p.subs)
        BY <2>6, LenProperties
      <4> QED
        BY <3>2, <4>1
    <3> QED
      BY <3>1, <3>2
  <2> HIDE DEF here, p, rows, from
  <2>8. /\ DOMAIN new = DOMAIN rows
        /\ \A j \in DOMAIN rows : /\ new[j].at = rows[j].at /\ new[j].sub = rows[j].sub
                                  /\ new[j].from = from
    OBVIOUS
  <2>9. \E T : new \in Seq(T)
    <3>1. PICK n \in Nat : DOMAIN rows = 1 .. n
      BY <2>7
    <3>2. new \in [1 .. n -> {new[j] : j \in 1 .. n}]
      BY <3>1
    <3> HIDE DEF new
    <3>3. new \in Seq({new[j] : j \in 1 .. n})
      BY <3>2, SeqDef
    <3> QED
      BY <3>3
  <2> HIDE DEF new
  <2>10. PICK list : list = new
    OBVIOUS
  <2>11. /\ \E U : mounts' \in Seq(U)
         /\ \A path : \A n \in ShownAt(path) :
               (\A k \in DOMAIN list : ~IsPrefix(list[k].at, path))
                 => n \in ShownAt(path)' /\ mounts'[n] = mounts[n]
         /\ \A k \in DOMAIN list :
               (\A m \in DOMAIN list : k < m => ~IsPrefix(list[m].at, list[k].at))
                 => \E n \in ShownAt(list[k].at)' : mounts'[n] = list[k]
    <3>1. PICK T : list \in Seq(T)
      BY <2>9, <2>10
    <3> QED
      BY <2>1, <2>2, <2>10, <3>1, ShownAfter
  <2>12. work'.todo = work.todo \ {here} /\ work'.todo \subseteq DOMAIN layout'.parts /\ ToMount' \subseteq ToMount
    <3>1. work'.todo = work.todo \ {here}
      BY <2>1 DEF DiskInv, DiskTypeOK, WorkType
    <3> QED
      BY <1>1, <2>3, <3>1 DEF ToMount
  <2>13. SUFFICES ASSUME clean
                  PROVE  MountedSoFar'
    BY <1>1, <2>1, <2>11, <2>12 DEF MadeInv, Numbered, Formatted, Finished
  <2>14. /\ MadeTo(PartCount)
         /\ \A i \in DOMAIN layout.parts \ work.todo :
              /\ Mountable(layout.parts[i]) /\ Shows(i)
              /\ \A k \in ToMount : Deep(layout.parts[i]) <= Deep(layout.parts[k])
    BY <1>1, <2>13 DEF MadeInv, MountedSoFar
  <2>15. from = StartOf(here)
    <3>1. StartOf(here) \in Nat /\ Extent(LabelOf(here)) = {StartOf(here)} /\ MadeAt(here)
      BY <2>14, <2>5, LocatedApart DEF MadeTo
    <3>2. Device(p) = {StartOf(here)}
      <4>1. CASE p.enc
        BY <3>1, <4>1 DEF MadeAt, Device, Closed, p
      <4>2. CASE ~p.enc
        BY <3>1, <4>2 DEF Device, LabelOf, p
      <4> QED
        BY <4>1, <4>2
    <3> QED
      BY <3>2 DEF from
  <2>16. \A d \in MountsDeclared(p) : \E j \in DOMAIN rows : rows[j].at = d.at /\ rows[j].sub = d.sub
    BY <2>7 DEF MountsDeclared
  <2>17. \A j \in DOMAIN rows : \E e \in MountsDeclared(p) : e.at = rows[j].at
    <3>1. CASE p.subs = <<>>
      <4>1. p.at # NoPath
        BY <2>5, <3>1 DEF Mountable, Effective
      <4>2. [at |-> p.at, sub |-> NoLabel] \in MountsDeclared(p)
        BY <3>1, <4>1 DEF MountsDeclared
      <4> QED
        BY <2>7, <3>1, <4>2
    <3>2. CASE p.subs # <<>>
      BY <2>7, <3>2 DEF MountsDeclared
    <3> QED
      BY <3>1, <3>2
  <2>18. \A i : StartOf(i)' = StartOf(i)
    BY <1>1, <2>1 DEF StartOf, LabelOf
  <2>19. ASSUME NEW i \in DOMAIN layout.parts \ work.todo
         PROVE  Shows(i)'
    <3> SUFFICES ASSUME NEW d \in MountsDeclared(layout.parts[i])
                 PROVE  ShowsAt(i, d)'
      BY <1>1 DEF Shows
    <3>1. PICK n \in ShownAt(d.at) : mounts[n].sub = d.sub /\ mounts[n].from = StartOf(i)
      BY <2>14 DEF Shows, ShowsAt
    <3>2. ASSUME NEW k \in DOMAIN list, IsPrefix(list[k].at, d.at)
          PROVE  FALSE
      <4>1. PICK e \in MountsDeclared(p) : e.at = list[k].at
        BY <2>8, <2>10, <2>17
      <4>2. i # here /\ Mountable(layout.parts[i]) /\ Mountable(layout.parts[here])
        BY <2>14, <2>5 DEF p
      <4>3. Deep(layout.parts[here]) < Deep(layout.parts[i])
        BY <2>5, <3>2, <4>1, <4>2 DEF MadeInv, Arranged, AboveIsEarlier, p
      <4>4. Deep(layout.parts[i]) <= Deep(layout.parts[here])
        BY <2>14, <2>4
      <4>5. Deep(layout.parts[i]) \in Nat /\ Deep(layout.parts[here]) \in Nat
        BY <2>5, <4>2, EffectiveType, PartsDeclared
      <4> QED
        BY <4>3, <4>4, <4>5
    <3>3. n \in ShownAt(d.at)' /\ mounts'[n] = mounts[n]
      BY <2>11, <3>2
    <3> QED
      BY <2>18, <3>1, <3>3 DEF ShowsAt
  <2>20. PICK i \in 1 .. PartCount : i = here
    BY <2>5
  <2>21. Shows(i)'
    <3> SUFFICES ASSUME NEW d \in MountsDeclared(p)
                 PROVE  \E n \in ShownAt(d.at)' : mounts'[n].sub = d.sub /\ mounts'[n].from = StartOf(here)
      BY <1>1, <2>18, <2>20 DEF Shows, ShowsAt, p
    <3>1. PICK j \in DOMAIN rows : rows[j].at = d.at /\ rows[j].sub = d.sub
      BY <2>16
    <3>2. \A m \in DOMAIN list : j < m => ~IsPrefix(list[m].at, list[j].at)
      <4>1. CASE p.subs = <<>>
        BY <2>7, <2>8, <2>10, <3>1, <4>1
      <4>2. CASE p.subs # <<>>
        <5>1. \A a, b \in DOMAIN p.subs : a < b => ~IsPrefix(p.subs[b].at, p.subs[a].at)
          BY <2>5 DEF MadeInv, Arranged, ParentsFirst, p
        <5>2. \A m \in DOMAIN list : list[m].at = p.subs[m].at /\ m \in DOMAIN p.subs
          BY <2>7, <2>8, <2>10, <4>2
        <5> QED
          BY <2>8, <2>10, <5>1, <5>2
      <4> QED
        BY <4>1, <4>2
    <3>3. PICK n \in ShownAt(list[j].at)' : mounts'[n] = list[j]
      BY <2>8, <2>10, <2>11, <3>2
    <3>4. list[j].at = d.at /\ list[j].sub = d.sub /\ list[j].from = from
      BY <2>8, <2>10, <3>1
    <3>5. n \in ShownAt(d.at)'
      BY <3>3, <3>4
    <3> QED
      BY <2>15, <3>3, <3>4, <3>5
  <2>22. MadeTo(PartCount)'
    BY <1>1, <2>1, <2>14, StillMade
  <2>23. MountedSoFar'
    <3>1. work'.todo \subseteq DOMAIN layout'.parts
      BY <1>1, <2>14, <2>12
    <3>2. ASSUME NEW k \in DOMAIN layout'.parts \ work'.todo
          PROVE  /\ Mountable(layout'.parts[k]) /\ Shows(k)'
                 /\ \A m \in ToMount' : Deep(layout'.parts[k]) <= Deep(layout'.parts[m])
      <4>1. CASE k = here
        BY <1>1, <2>4, <2>5, <2>20, <2>21, <2>12, <4>1 DEF p
      <4>2. CASE k # here
        <5>1. k \in DOMAIN layout.parts \ work.todo
          BY <1>1, <2>12, <4>2
        <5> QED
          BY <1>1, <2>14, <2>19, <2>12, <5>1
      <4> QED
        BY <4>1, <4>2
    <3> QED
      BY <2>22, <3>1, <3>2 DEF MountedSoFar
  <2> QED
    BY <2>23
<1> QED
  BY <1>2, <1>3

LEMMA MadeEnds ==
  ASSUME DiskInv, MadeInv, EnableSwap
  PROVE  MadeInv'
<1>1. /\ pc = "mount" /\ ToMount = {} /\ pc' = "done"
      /\ UNCHANGED <<layout, parts, content, mapper, mounts, node, clean>>
  BY DEF EnableSwap, disk
<1> SUFFICES ASSUME clean
             PROVE  Finished'
  BY <1>1 DEF MadeInv, Numbered, Formatted, MountedSoFar
<1>2. /\ MadeTo(PartCount) /\ work.todo \subseteq DOMAIN layout.parts
      /\ \A i \in DOMAIN layout.parts \ work.todo : Shows(i)
  BY <1>1 DEF MadeInv, MountedSoFar
<1>3. ASSUME NEW i \in DOMAIN layout.parts, layout.parts[i].kind \notin {"swap", "random"}
      PROVE  Shows(i)
  <2>1. CASE i \notin work.todo
    BY <1>2, <2>1
  <2>2. CASE i \in work.todo
    <3>1. Effective(layout.parts[i]) = NoPath
      BY <1>1, <1>3, <2>2 DEF ToMount
    <3>2. layout.parts[i].at = NoPath /\ layout.parts[i].subs = <<>>
      BY <3>1, PartsDeclared, EffectiveType
    <3>3. MountsDeclared(layout.parts[i]) = {}
      BY <3>2 DEF MountsDeclared
    <3> QED
      BY <3>3 DEF Shows
  <2> QED
    BY <2>1, <2>2
<1> QED
  BY <1>1, <1>2, <1>3, StillMade DEF Finished

\* Behind the disk action nothing changes what is mounted.
LEMMA MadeLuks ==
  ASSUME MadeInv, LuksSteps
  PROVE  MadeInv'
<1> USE DEF disk, EndWith, Raise, RaiseLuks, Advance, Running, Unchecked
<1>1. /\ UNCHANGED <<layout, parts, content, mapper, mounts>> /\ pc = "done"
      /\ clean' = clean \/ ~clean'
      /\ pc' = "idle" \/ (pc' = "done" /\ UNCHANGED <<work, node, outcome>>)
  BY DEF LuksSteps, NeedsVolume, DropKeyfile, AlreadySkipped, EnrolToken, SkipToken, AbortToken,
     FinishApply, CreateKeyfile, EnrollKeyfile, WipeToken, TokenInstall
<1>2. CASE pc' = "idle"
  BY <1>1, <1>2, MadeElsewhere DEF MadeInv
<1>3. CASE pc' = "done" /\ UNCHANGED <<work, node, outcome>>
  BY <1>1, <1>3, MadeRests
<1> QED
  BY <1>1, <1>2, <1>3

LEMMA MadeInductive == DiskInv /\ MadeInv /\ [Next]_vars => MadeInv'
<1> SUFFICES ASSUME DiskInv, MadeInv, [Next]_vars
             PROVE  MadeInv'
  OBVIOUS
<1>1. Arranged(layout.parts) /\ \E S : mounts \in Seq(S)
  BY DEF MadeInv
<1>2. ASSUME NEW labels, NEW seen, NEW dump, NEW asked, StartApply(labels, seen, dump, asked)
      PROVE  MadeInv'
  <2>1. /\ UNCHANGED <<layout, mounts>>
        /\ pc' = "validate" \/ (pc' = "done" /\ outcome' \in {"silent", "skipped"})
    BY <1>2 DEF StartApply, ApplyDisk, PlanDisk
  <2> QED
    BY <1>1, <2>1, MadeElsewhere
<1>3. CASE DiskPart
  <2>1. CASE \/ Validate \/ KeepTable \/ SomebodyPartitions
             \/ \E done \in BOOLEAN : Wipe(done) \/ CreateTable(done)
    <3>1. /\ UNCHANGED <<layout, mounts>>
          /\ \/ pc' \in {"idle", "wipe", "label", "validate"}
             \/ pc' = "create" /\ work' = [NoWork EXCEPT !.i = 0]
      BY <2>1 DEF Validate, KeepTable, SomebodyPartitions, Wipe, CreateTable, Raise, EndWith
    <3>2. [NoWork EXCEPT !.i = 0].i = 0
      BY DEF NoWork
    <3> QED
      BY <1>1, <3>1, <3>2, MadeElsewhere
  <2>2. ASSUME NEW done \in BOOLEAN, NEW also \in BOOLEAN, Encrypt(done, also)
        PROVE  MadeInv'
    BY <2>2, MadeEncrypts
  <2>3. ASSUME NEW done \in BOOLEAN, NEW also \in BOOLEAN, Mkfs(done, also)
        PROVE  MadeInv'
    BY <2>3, MadeFormats
  <2>4. ASSUME NEW done \in BOOLEAN, NEW also \in BOOLEAN, BeginPartitions(done, also)
        PROVE  MadeInv'
    BY <2>4, MadeBegins
  <2>5. ASSUME NEW done \in BOOLEAN, CreatePartition(done)
        PROVE  MadeInv'
    BY <2>5, MadeCreates
  <2>6. ASSUME NEW done \in BOOLEAN, MountPartition(done)
        PROVE  MadeInv'
    BY <2>6, MadeMounts
  <2>7. CASE EnableSwap
    BY <2>7, MadeEnds
  <2> QED
    BY <1>3, <2>1, <2>2, <2>3, <2>4, <2>5, <2>6, <2>7 DEF DiskPart, DiskSteps
<1>4. CASE LuksSteps
  BY <1>4, MadeLuks
<1>5. ASSUME NEW dump, NEW read, Sync(dump, read)
      PROVE  MadeInv'
  <2>1. pc' = "idle" /\ mounts' = mounts /\ layout' = [layout EXCEPT !.wipe = FALSE]
    BY <1>5 DEF Sync, CaptureDisk
  <2>2. layout'.parts = layout.parts
    BY <2>1 DEF DiskInv, DiskTypeOK
  <2> QED
    BY <1>1, <2>1, <2>2, MadeElsewhere
<1>6. CASE (\E u \in Unlocks : Edit(u)) \/ PlugOrUnplug \/ UNCHANGED vars
  BY <1>6, MadeRests DEF Edit, PlugOrUnplug, vars, diskVars, disk, book
<1>7. CASE \/ \E kind \in {"passphrase", "fido2"} : HandEnrol(kind)
           \/ \E s \in Slots : HandKill(s)
           \/ Unlock
  BY <1>1, <1>7, MadeElsewhere DEF HandEnrol, HandKill, Unlock
<1>8. CASE (Die \/ PowerCut) /\ CutShort
  <2>1. layout' = layout /\ pc' = "idle" /\ (mounts' = mounts \/ mounts' = <<>>)
    BY <1>8 DEF Die, PowerCut, EndWith
  <2>2. \E S : mounts' \in Seq(S)
    BY <1>1, <2>1, EmptySeq
  <2> QED
    BY <1>1, <2>1, <2>2, MadeElsewhere
<1> QED
  BY <1>2, <1>3, <1>4, <1>5, <1>6, <1>7, <1>8 DEF Next

\* A disk that was made without a failing command has every declared filesystem, made in
\* this apply, at its mountpoint and hidden by no other, for any number of partitions and
\* subvolumes.  It takes a document that is Arranged: where it is not, a mount does cover
\* an earlier one, for subvolumes are mounted in the order they are declared in and only
\* partitions by their depth.
THEOREM DeclaredIsMounted ==
  (\A l \in Layouts : Arranged(l.parts)) => (Spec => []MountedAsDeclared)
<1> SUFFICES ASSUME \A l \in Layouts : Arranged(l.parts)
             PROVE  Spec => []MountedAsDeclared
  OBVIOUS
<1>1. Init => MadeInv
  <2> SUFFICES ASSUME Init
               PROVE  MadeInv
    OBVIOUS
  <2>1. layout \in Layouts /\ pc = "idle" /\ mounts = <<>>
    BY DEF Init, InitDisk
  <2>2. \E S : mounts \in Seq(S)
    BY <2>1, EmptySeq
  <2> QED
    BY <2>1, <2>2 DEF MadeInv, Numbered, Formatted, MountedSoFar, Finished
<1>2. DiskInv /\ MadeInv /\ [Next]_vars => MadeInv'
  BY MadeInductive
<1>3. DiskInv /\ MadeInv => MountedAsDeclared
  <2> SUFFICES ASSUME DiskInv, MadeInv, pc = "done", outcome = "made", clean,
                      NEW i \in DOMAIN layout.parts, layout.parts[i].kind \notin {"swap", "random"},
                      NEW d \in MountsDeclared(layout.parts[i])
               PROVE  \E n \in ShownAt(d.at) : /\ mounts[n].sub = d.sub
                                               /\ content[mounts[n].from].label = layout.parts[i].label
                                               /\ content[mounts[n].from].fresh
    BY DEF MountedAsDeclared
  <2>1. MadeAt(i) /\ ShowsAt(i, d)
    BY PartsDeclared DEF MadeInv, Finished, MadeTo, Shows
  <2>2. ExpectedLabel(layout.parts[i]) = layout.parts[i].label
    BY DEF ExpectedLabel
  <2> QED
    BY <2>1, <2>2 DEF MadeAt, ShowsAt
<1> QED
  BY <1>1, <1>2, <1>3, DiskIsSound, PTL DEF Spec

\* The documents without subvolumes are among them, as soon as preflight accepts them:
\* no two partitions with one label and no two mountpoints that are the same.
LEMMA PlainIsArranged ==
  ASSUME NEW list \in Seq(PartitionSpec),
         \A i \in DOMAIN list : list[i].subs = <<>>,
         \A i, k \in DOMAIN list : list[i].label = list[k].label => i = k,
         \A i, k \in DOMAIN list : list[i].at = list[k].at /\ list[i].at # NoPath => i = k
  PROVE  Arranged(list)
<1>1. DOMAIN list = 1 .. Len(list) /\ \A i \in DOMAIN list : list[i] \in PartitionSpec
  OBVIOUS
<1>2. LabelsDiffer(list)
  BY DEF LabelsDiffer
<1>3. ParentsFirst(list)
  BY EmptySeq DEF ParentsFirst
<1>4. ASSUME NEW i \in DOMAIN list, NEW k \in DOMAIN list, i # k,
             Mountable(list[i]), Mountable(list[k]),
             NEW d \in MountsDeclared(list[i]), NEW e \in MountsDeclared(list[k]),
             IsPrefix(e.at, d.at)
      PROVE  Deep(list[k]) < Deep(list[i])
  <2> DEFINE a == list[i].at
             b == list[k].at
  <2>1. Effective(list[i]) = a /\ Effective(list[k]) = b /\ d.at = a /\ e.at = b
    BY DEF Effective, MountsDeclared
  <2>2. a \in Path /\ b \in Path /\ a # b
    BY <1>1, <1>4, <2>1 DEF PartitionSpec, Mountable
  <2>3. Len(b) <= Len(a) /\ SubSeq(b, 1, Len(b)) = SubSeq(a, 1, Len(b))
    BY <1>4, <2>1 DEF IsPrefix
  <2> HIDE DEF a, b
  <2>4. Len(a) \in Nat /\ Len(b) \in Nat
    BY <2>2, LenProperties DEF Path
  <2>5. Len(a) # Len(b)
    <3>1. SubSeq(a, 1, Len(a)) = a
      BY <2>2, SubSeqFull, Zenon DEF Path
    <3>2. SubSeq(b, 1, Len(b)) = b
      BY <2>2, SubSeqFull, Zenon DEF Path
    <3>3. Len(a) = Len(b) => SubSeq(b, 1, Len(b)) = SubSeq(a, 1, Len(a))
      BY <2>3, Zenon
    <3> QED
      BY <2>2, <3>1, <3>2, <3>3, Zenon
  <2> QED
    BY <2>1, <2>3, <2>4, <2>5 DEF Deep, Depth
<1> QED
  BY <1>2, <1>3, <1>4 DEF Arranged, AboveIsEarlier
=============================================================================
