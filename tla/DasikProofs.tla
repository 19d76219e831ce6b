---------------------------- MODULE DasikProofs ----------------------------
(***************************************************************************)
(* What the generation store's helpers return, type correctness, mutual    *)
(* exclusion and the refinement of the abstract specification, for any     *)
(* number of processes, items, blocks and actions in the registry.         *)
(***************************************************************************)
EXTENDS DasikProperties, TLAPS, FiniteSetTheorems, WellFoundedInduction

-----------------------------------------------------------------------------
(***************************************************************************)
(* The largest and the smallest element of a set of numbers                *)
(***************************************************************************)

\* A finite non-empty set of naturals has a maximum: the element with the
\* fewest elements above it.
LEMMA MaxExists ==
  ASSUME NEW S, S \subseteq Nat, IsFiniteSet(S), S # {}
  PROVE  \E x \in S : \A y \in S : x >= y
<1> DEFINE Above(x) == {y \in S : y > x}
           Counts == {Cardinality(Above(x)) : x \in S}
<1>1. \A x \in S : IsFiniteSet(Above(x)) /\ Cardinality(Above(x)) \in Nat
  <2> TAKE x \in S
  <2>1. Above(x) \in SUBSET S
    OBVIOUS
  <2>2. IsFiniteSet(Above(x))
    BY <2>1, FS_Subset
  <2> QED
    BY <2>2, FS_CardinalityType
<1>2. Counts \subseteq Nat /\ Counts # {}
  BY <1>1
<1>3. PICK c \in Counts : \A d \in Counts : <<d, c>> \notin OpToRel(<, Nat)
  BY <1>2, NatLessThanWellFounded, WFMin, Zenon
<1>4. PICK x \in S : c = Cardinality(Above(x))
  OBVIOUS
<1>5. \A y \in S : ~ (Cardinality(Above(y)) < Cardinality(Above(x)))
  BY <1>1, <1>3, <1>4 DEF OpToRel
<1>6. ASSUME NEW y \in S, y > x
      PROVE  FALSE
  <2>1. Above(y) \in SUBSET Above(x)
    <3>1. \A z \in S : z > y => z > x
      BY <1>6
    <3> QED
      BY <3>1
  <2>2. Above(y) # Above(x)
    BY <1>6
  <2>3. Cardinality(Above(y)) <= Cardinality(Above(x))
    BY <1>1, <2>1, FS_Subset
  <2>4. Cardinality(Above(x)) # Cardinality(Above(y))
    BY <1>1, <2>1, <2>2, FS_Subset
  <2> QED
    BY <1>1, <1>5, <2>3, <2>4
<1> QED
  BY <1>6

LEMMA MaxIsLargest ==
  ASSUME NEW S, S \subseteq Nat, IsFiniteSet(S), S # {}
  PROVE  Max(S) \in S /\ \A y \in S : Max(S) >= y
BY MaxExists DEF Max

\* Every non-empty set of naturals has a minimum.
LEMMA MinIsLeast ==
  ASSUME NEW S, S \subseteq Nat, S # {}
  PROVE  Min(S) \in S /\ \A y \in S : Min(S) <= y
<1>1. PICK x \in S : \A y \in S : <<y, x>> \notin OpToRel(<, Nat)
  BY NatLessThanWellFounded, WFMin, Zenon
<1>2. x \in Nat /\ \A y \in S : y \in Nat /\ ~(y < x)
  BY <1>1 DEF OpToRel
<1>3. \A y \in S : x <= y
  BY <1>2
<1> QED
  BY <1>3 DEF Min

-----------------------------------------------------------------------------
(***************************************************************************)
(* The config document                                                     *)
(***************************************************************************)

LEMMA ExpandIsConfig ==
  ASSUME NEW c \in Config
  PROVE  /\ Expand(c) \in Config
         /\ Contributions(c) \subseteq Item
BY ConfigAssumption DEF Expand, Contributions, Config

\* Expanding an expanded config changes nothing: a generation stores the
\* expanded config, and rollback expands it once more.
LEMMA ExpandIdempotent ==
  ASSUME NEW c \in Config
  PROVE  Expand(Expand(c)) = Expand(c)
<1>1. Contributions(Expand(c)) = Contributions(c)
  BY DEF Contributions, Expand, Config
<1> QED
  BY <1>1 DEF Expand, Config

\* A capture changes what is declared on, and only inside the document's items.
LEMMA MergeIsConfig ==
  ASSUME NEW c \in Config, NEW A, A \subseteq Item, NEW read
  PROVE  Merge(c, A, read) \in Config
BY DEF Merge, Captured, ItemsIn, Config

LEMMA SubtractIsConfig ==
  ASSUME NEW c \in Config, NEW original \in Config
  PROVE  SubtractContributions(c, original) \in Config
BY DEF SubtractContributions, Config

-----------------------------------------------------------------------------
(***************************************************************************)
(* The store                                                               *)
(***************************************************************************)

\* _next_number returns a number above every directory there is.
LEMMA NextNumberIsFresh ==
  ASSUME StoreTypeOK
  PROVE  NextNumber \in Nat \ {NoGen} /\ \A n \in Numbers : NextNumber > n
<1>1. CASE Numbers = {}
  BY <1>1 DEF NextNumber, NoGen
<1>2. CASE Numbers # {}
  <2>1. Max(Numbers) \in Numbers /\ \A n \in Numbers : Max(Numbers) >= n
    BY <1>2, MaxIsLargest DEF StoreTypeOK, Numbers
  <2>2. NextNumber = Max(Numbers) + 1
    BY <1>2 DEF NextNumber
  <2> QED
    BY <2>1, <2>2 DEF StoreTypeOK, Numbers, NoGen
<1> QED
  BY <1>1, <1>2

\* What `rollback' without a number goes back to is a generation.
LEMMA PreviousIsGeneration ==
  ASSUME StoreTypeOK, Earlier # {}
  PROVE  Max(Earlier) \in Numbers
<1>1. Earlier \in SUBSET Numbers /\ Numbers \subseteq Nat /\ IsFiniteSet(Numbers)
  BY DEF Earlier, Numbers, StoreTypeOK
<1>2. IsFiniteSet(Earlier) /\ Earlier \subseteq Nat
  BY <1>1, FS_Subset
<1> QED
  BY <1>1, <1>2, MaxIsLargest

LEMMA PutKeepsType ==
  ASSUME StoreTypeOK, NEW n \in Nat \ {NoGen}, NEW g \in Generation,
         Put(n, g), UNCHANGED current
  PROVE  StoreTypeOK'
<1>1. DOMAIN gens' = Numbers \cup {n}
  BY DEF Put
<1>2. IsFiniteSet(Numbers \cup {n})
  BY FS_AddElement DEF StoreTypeOK, Numbers
<1>3. gens' \in [DOMAIN gens' -> Generation]
  BY <1>1 DEF Put, StoreTypeOK, Numbers
<1> QED
  BY <1>1, <1>2, <1>3 DEF StoreTypeOK, Numbers

LEMMA EntryIsGeneration ==
  ASSUME StoreTypeOK, NEW n
  PROVE  Entry(n) \in Generation
BY DEF Entry, EmptyDir, Generation, StoreTypeOK, Numbers

LEMMA RemovalKeepsType ==
  ASSUME StoreTypeOK, NEW n, RemoveFile(n) \/ RemoveDir(n)
  PROVE  StoreTypeOK'
<1>1. CASE RemoveFile(n)
  <2>1. n \in Nat \ {NoGen} /\ gens[n] \in Generation
    BY <1>1 DEF RemoveFile, StoreTypeOK, Numbers
  <2>2. [gens[n] EXCEPT !.config = NoFile] \in Generation
        /\ [gens[n] EXCEPT !.state = NoFile] \in Generation
    BY <2>1 DEF Generation
  <2> QED
    BY <1>1, <2>1, <2>2, PutKeepsType DEF RemoveFile
<1>2. CASE RemoveDir(n)
  <2>1. DOMAIN gens' = Numbers \ {n} /\ current' = current
    BY <1>2 DEF RemoveDir
  <2>2. IsFiniteSet(Numbers \ {n})
    BY FS_RemoveElement DEF StoreTypeOK, Numbers
  <2>3. gens' \in [DOMAIN gens' -> Generation]
    BY <1>2, <2>1 DEF RemoveDir, StoreTypeOK, Numbers
  <2> QED
    BY <2>1, <2>2, <2>3 DEF StoreTypeOK, Numbers
<1> QED
  BY <1>1, <1>2

-----------------------------------------------------------------------------
(***************************************************************************)
(* Type correctness                                                        *)
(***************************************************************************)

\* The values a command computes are of their types.
LEMMA EmptyValues ==
  /\ EmptyConfig \in Config
  /\ EmptyManifest \in Manifest
  /\ NoChanges \in Plan
  /\ Idle \in Run
<1>1. EmptyConfig \in Config /\ EmptyManifest \in Manifest /\ NoChanges \in Plan
  BY DEF EmptyConfig, Config, EmptyManifest, Manifest, NoChanges, Plan
<1> QED
  BY <1>1 DEF Idle, Run, Labels

LEMMA PlanOfIsPlan ==
  ASSUME TypeOK, NEW c \in Config, NEW m \in Manifest
  PROVE  PlanOf(c, m) \in Plan
BY DEF TypeOK, PlanOf, ComputeChanges, Installs, OwnedRemovals, ForcedRemovals,
       Plan, Config, Manifest

LEMMA NewManifestIsManifest ==
  ASSUME TypeOK, NEW p \in Process, NEW completed, NEW partial \in BOOLEAN
  PROVE  BuildNewManifest(p, completed, partial) \in Manifest
<1>1. run[p].config \in Config /\ run[p].seen \in Manifest
  BY DEF TypeOK, Run
<1> QED
  BY <1>1 DEF BuildNewManifest, Manifest, Config, ItemsIn

\* A step that changes one process's record, and a step that ends a command.
LEMMA RunStep ==
  ASSUME TypeOK, NEW p \in Process, NEW r \in Run
  PROVE  [run EXCEPT ![p] = r] \in [Process -> Run]
BY DEF TypeOK

LEMMA LeaveStep ==
  ASSUME TypeOK, NEW p \in Process, Leave(p)
  PROVE  run' \in [Process -> Run] /\ moved' \in [Process -> SUBSET Item]
BY EmptyValues DEF TypeOK, Leave

LEMMA GotoStep ==
  ASSUME TypeOK, NEW p \in Process, NEW label \in Labels, Goto(p, label)
  PROVE  run' \in [Process -> Run]
BY DEF TypeOK, Goto, Run

LEMMA StaleStep ==
  ASSUME TypeOK, NEW i \in Item, NEW others, Stale(i, others)
  PROVE  moved' \in [Process -> SUBSET Item]
BY DEF TypeOK, Stale

LEMMA UnlockedIsHolder ==
  ASSUME TypeOK, NEW p \in Process
  PROVE  Unlocked(p) \in Process \cup {NoProcess}
BY DEF TypeOK, Unlocked

LEMMA StoreUnchanged ==
  ASSUME StoreTypeOK, UNCHANGED <<gens, current>>
  PROVE  StoreTypeOK'
BY DEF StoreTypeOK

\* The steps of a command that leave the generation store alone.
LEMMA TypeCommand ==
  ASSUME TypeOK, NEW p \in Process,
         \/ Load(p) \/ BuildPlan(p) \/ AcquireLock(p) \/ LockBusy(p)
         \/ NextAction(p) \/ AllApplied(p) \/ ActionRaises(p) \/ Interrupt(p)
         \/ PickNumber(p) \/ SaveState(p) \/ Release(p) \/ LinkExists(p)
         \/ Proceed(p) \/ Decline(p) \/ Die(p)
  PROVE  TypeOK'
<1>1. run[p] \in Run /\ StoreTypeOK
  BY DEF TypeOK
<1> USE <1>1
<1>2. CASE Load(p)
  <2> DEFINE m == IF stateFile = NoFile THEN EmptyManifest ELSE stateFile
             l == IF run[p].verb = "sync" THEN "capture" ELSE "plan"
  <2>1. m \in Manifest /\ l \in Labels
    BY EmptyValues DEF TypeOK, Labels, Planning
  <2>2. run' = [run EXCEPT ![p].seen = m, ![p].pc = l]
    BY <1>2 DEF Load
  <2> HIDE DEF m, l
  <2>3. run' \in [Process -> Run]
    BY <2>1, <2>2 DEF TypeOK, Run
  <2> QED
    BY <1>2, <2>3, StoreUnchanged DEF Load, TypeOK, counters
<1>3. CASE BuildPlan(p)
  <2>1. PlanOf(run[p].config, run[p].seen) \in Plan
    BY PlanOfIsPlan DEF Run
  <2>2. run' \in [Process -> Run] /\ moved' \in [Process -> SUBSET Item]
    BY <1>3, <2>1, LeaveStep DEF BuildPlan, TypeOK, Run, Labels, Applying
  <2> QED
    BY <1>3, <2>2, StoreUnchanged DEF BuildPlan, TypeOK, counters
<1>4. CASE AcquireLock(p)
  BY <1>4, GotoStep, StoreUnchanged DEF AcquireLock, TypeOK, Labels, Applying, counters
<1>5. CASE LockBusy(p)
  BY <1>5, LeaveStep, StoreUnchanged DEF LockBusy, TypeOK, counters
<1>6. CASE NextAction(p)
  BY <1>6, StoreUnchanged DEF NextAction, TypeOK, Run, counters
<1>7. CASE AllApplied(p)
  <2>1. BuildNewManifest(p, Completed(p), FALSE) \in Manifest
    BY NewManifestIsManifest
  <2> QED
    BY <1>7, <2>1, StoreUnchanged DEF AllApplied, TypeOK, Run, Labels, Persisting, counters
<1>8. CASE ActionRaises(p) \/ Interrupt(p)
  <2>1. BuildNewManifest(p, Completed(p), TRUE) \in Manifest
    BY NewManifestIsManifest
  <2>2. run' = [run EXCEPT ![p].pc = "number", ![p].plan = NoChanges,
                          ![p].fresh = BuildNewManifest(p, Completed(p), TRUE)]
    BY <1>8 DEF ActionRaises, Interrupt, PersistPartial
  <2>3. run' \in [Process -> Run]
    BY <2>1, <2>2, EmptyValues DEF TypeOK, Run, Labels, Persisting
  <2> QED
    BY <1>8, <2>3, StoreUnchanged DEF ActionRaises, Interrupt, TypeOK, counters
<1>9. CASE PickNumber(p)
  BY <1>9, NextNumberIsFresh, StoreUnchanged
     DEF PickNumber, TypeOK, Run, Labels, Persisting, counters
<1>10. CASE SaveState(p)
  <2>1. stateFile' \in Manifest \cup {NoFile}
    BY <1>10 DEF SaveState, Run
  <2>2. run' \in [Process -> Run]
    BY <1>10, GotoStep DEF SaveState, Labels, Persisting
  <2> QED
    BY <1>10, <2>1, <2>2, StoreUnchanged DEF SaveState, TypeOK, counters
<1>11. CASE Release(p) \/ LinkExists(p) \/ Decline(p) \/ Die(p)
  BY <1>11, LeaveStep, UnlockedIsHolder, StoreUnchanged
     DEF Release, LinkExists, Decline, Die, TypeOK, counters
<1>12. CASE Proceed(p)
  BY <1>12, StoreUnchanged DEF Proceed, TypeOK, Run, Labels, Applying, counters
<1> QED
  BY <1>2, <1>3, <1>4, <1>5, <1>6, <1>7, <1>8, <1>9, <1>10, <1>11, <1>12

\* The steps that change the machine.
LEMMA TypeChange ==
  ASSUME TypeOK, NEW p \in Process, NEW i \in Item,
         AddItem(p, i) \/ DropItem(p, i) \/ ChangeFails(p, i)
  PROVE  TypeOK'
<1>1. run[p] \in Run /\ StoreTypeOK
  BY DEF TypeOK
<1>2. CASE AddItem(p, i)
  <2>1. run' \in [Process -> Run]
    BY <1>1, <1>2 DEF AddItem, TypeOK, Run, Plan
  <2> QED
    BY <1>1, <1>2, <2>1, StaleStep, StoreUnchanged DEF AddItem, TypeOK, counters
<1>3. CASE DropItem(p, i)
  <2>1. run' \in [Process -> Run]
    BY <1>1, <1>3 DEF DropItem, TypeOK, Run, Plan
  <2> QED
    BY <1>1, <1>3, <2>1, StaleStep, StoreUnchanged DEF DropItem, TypeOK, counters
<1>4. CASE ChangeFails(p, i)
  <2> DEFINE left == [run[p].plan EXCEPT !.add = @ \ {i}, !.drop = @ \ {i}]
             r == [run[p] EXCEPT !.plan = left, !.failed = TRUE]
  <2>1. run[p].plan \in Plan /\ left \in Plan
    BY <1>1 DEF Run, Plan
  <2>2. run' = [run EXCEPT ![p] = r]
    BY <1>1, <1>4 DEF ChangeFails, TypeOK, Run
  <2>3. r \in Run
    BY <1>1, <2>1 DEF Run
  <2> HIDE DEF left, r
  <2>4. run' \in [Process -> Run]
    BY <2>2, <2>3 DEF TypeOK
  <2> QED
    BY <1>1, <1>4, <2>4, StoreUnchanged DEF ChangeFails, TypeOK
<1> QED
  BY <1>2, <1>3, <1>4

\* The number a command is about to use names a generation, not NoGen; only a
\* rollback is at "restore", the way into the persist steps without the lock.
ControlOK ==
  \A p \in Process :
    /\ run[p].pc \in (Persisting \ {"number"}) \cup {"restore"} => run[p].number # NoGen
    /\ run[p].pc = "restore" => run[p].verb = "rollback"

\* The steps that change the generation store.
LEMMA TypeStore ==
  ASSUME TypeOK, ControlOK, NEW p \in Process,
         \/ MakeGeneration(p) \/ WriteConfig(p) \/ WriteState(p)
         \/ UnlinkCurrent(p) \/ LinkCurrent(p) \/ DeleteFile(p) \/ DeleteDir(p)
  PROVE  TypeOK'
<1>1. run[p] \in Run /\ StoreTypeOK
  BY DEF TypeOK
<1> DEFINE n == run[p].number
<1>2. n \in Nat /\ Entry(n) \in Generation
  BY <1>1, EntryIsGeneration DEF Run
<1>3. CASE MakeGeneration(p)
  <2>1. n \in Nat \ {NoGen}
    BY <1>2, <1>3 DEF ControlOK, MakeGeneration, At, Persisting
  <2>2. StoreTypeOK'
    BY <1>1, <1>2, <1>3, <2>1, PutKeepsType DEF MakeGeneration, MakeDir
  <2> QED
    BY <1>3, <2>2, GotoStep DEF MakeGeneration, TypeOK, Labels, Persisting, counters
<1>4. CASE WriteConfig(p)
  <2>1. n \in Nat \ {NoGen}
    BY <1>2, <1>4 DEF ControlOK, WriteConfig, At, Persisting
  <2>2. [Entry(n) EXCEPT !.config = run[p].config] \in Generation
    BY <1>1, <1>2 DEF Run, Generation
  <2>3. StoreTypeOK'
    BY <1>1, <1>4, <2>1, <2>2, PutKeepsType DEF WriteConfig, PutConfig
  <2> QED
    BY <1>4, <2>3, GotoStep DEF WriteConfig, TypeOK, Labels, Persisting, counters
<1>5. CASE WriteState(p)
  <2>1. n \in Nat \ {NoGen}
    BY <1>2, <1>5 DEF ControlOK, WriteState, At, Persisting
  <2>2. [Entry(n) EXCEPT !.state = run[p].fresh] \in Generation
    BY <1>1, <1>2 DEF Run, Generation
  <2>3. StoreTypeOK'
    BY <1>1, <1>5, <2>1, <2>2, PutKeepsType DEF WriteState, PutState
  <2> QED
    BY <1>5, <2>3, GotoStep DEF WriteState, TypeOK, Labels, Persisting, counters
<1>6. CASE UnlinkCurrent(p)
  <2>1. StoreTypeOK'
    BY <1>1, <1>6 DEF UnlinkCurrent, Unlink, StoreTypeOK, NoGen
  <2> QED
    BY <1>6, <2>1, GotoStep DEF UnlinkCurrent, TypeOK, Labels, Persisting, counters
<1>7. CASE LinkCurrent(p)
  <2>1. StoreTypeOK'
    BY <1>1, <1>2, <1>7 DEF LinkCurrent, Link, StoreTypeOK
  <2>2. run' \in [Process -> Run]
    BY <1>7, GotoStep DEF LinkCurrent, Labels, Planning, Persisting
  <2> QED
    BY <1>7, <2>1, <2>2 DEF LinkCurrent, TypeOK, counters
<1>8. CASE DeleteFile(p)
  BY <1>1, <1>8, RemovalKeepsType DEF DeleteFile, TypeOK, counters
<1>9. CASE DeleteDir(p)
  <2>1. StoreTypeOK'
    BY <1>1, <1>9, RemovalKeepsType, StoreUnchanged DEF DeleteDir
  <2>2. run' \in [Process -> Run]
    BY <1>1, <1>9 DEF DeleteDir, TypeOK, Run
  <2> QED
    BY <1>9, <2>1, <2>2 DEF DeleteDir, TypeOK, counters
<1> QED
  BY <1>3, <1>4, <1>5, <1>6, <1>7, <1>8, <1>9

\* What a sync that could read the domains `read' is about to write.
CapturedBy(p, read) ==
  SubtractContributions(Merge(run[p].config, present, read), run[p].config)

SyncedManifest(p, read) ==
  [owned      |-> OwnedAfterSync(run[p].config, run[p].seen, read),
   generation |-> run[p].seen.generation,
   hash       |-> Merge(run[p].config, present, read),
   partial    |-> FALSE]

LEMMA CaptureEffect ==
  ASSUME NEW p \in Process, Capture(p)
  PROVE  \E read \in SUBSET (1 .. NumDomains) :
           /\ run' = [run EXCEPT ![p].pc = "saveSync", ![p].config = CapturedBy(p, read),
                                 ![p].fresh = SyncedManifest(p, read)]
           /\ faults' = IF read = 1 .. NumDomains THEN faults ELSE faults + 1
BY DEF Capture, CapturedBy, SyncedManifest

LEMMA SyncedIsManifest ==
  ASSUME TypeOK, NEW p \in Process, NEW read
  PROVE  CapturedBy(p, read) \in Config /\ SyncedManifest(p, read) \in Manifest
<1>1. run[p].config \in Config /\ run[p].seen \in Manifest /\ present \subseteq Item
  BY DEF TypeOK, Run
<1>2. Merge(run[p].config, present, read) \in Config
  BY <1>1, MergeIsConfig
<1>3. CapturedBy(p, read) \in Config
  BY <1>1, <1>2, SubtractIsConfig DEF CapturedBy
<1>4. OwnedAfterSync(run[p].config, run[p].seen, read) \subseteq Item
  BY <1>1 DEF OwnedAfterSync
<1> QED
  BY <1>1, <1>2, <1>3, <1>4 DEF Manifest, SyncedManifest

\* The steps of rollback, sync and prune, and those that start a command.
LEMMA TypeOther ==
  ASSUME TypeOK, NEW p \in Process,
         \/ StartApply(p) \/ StartSync(p) \/ RollbackNamed(p) \/ RollbackPrevious(p)
         \/ (\E keep \in KeepChoices : StartPrune(p, keep))
         \/ Restore(p) \/ RestoreRefused(p)
         \/ Capture(p) \/ SaveSync(p) \/ WriteBack(p) \/ PruneDone(p)
  PROVE  TypeOK'
<1>1. run[p] \in Run /\ StoreTypeOK /\ configFile \in Config
  BY DEF TypeOK
<1>2. CASE StartApply(p)
  <2>1. Expand(configFile) \in Config
    BY <1>1, ExpandIsConfig
  <2>2. run' \in [Process -> Run] /\ named' \subseteq Item
    BY <1>1, <1>2, <2>1 DEF StartApply, TypeOK, Run, Labels, Planning, Config
  <2> QED
    BY <1>1, <1>2, <2>2, StoreUnchanged DEF StartApply, TypeOK, counters
<1>3. CASE StartSync(p)
  <2>1. Expand(configFile) \in Config
    BY <1>1, ExpandIsConfig
  <2>2. run' \in [Process -> Run] /\ named' \subseteq Item
    BY <1>1, <1>3, <2>1 DEF StartSync, TypeOK, Run, Labels, Planning, Config
  <2> QED
    BY <1>1, <1>3, <2>2, StoreUnchanged DEF StartSync, TypeOK
<1>4. CASE RollbackNamed(p) \/ RollbackPrevious(p)
  <2>1. PICK n \in Numbers : RollbackTo(p, n)
    <3>1. CASE RollbackNamed(p)
      BY <3>1 DEF RollbackNamed
    <3>2. CASE RollbackPrevious(p)
      BY <1>1, <3>2, PreviousIsGeneration DEF RollbackPrevious
    <3> QED
      BY <1>4, <3>1, <3>2
  <2>2. n \in Nat
    BY <1>1 DEF StoreTypeOK, Numbers
  <2>3. run' \in [Process -> Run]
    BY <1>1, <2>1, <2>2 DEF RollbackTo, TypeOK, Run, Labels
  <2> QED
    BY <1>1, <2>1, <2>3, StoreUnchanged DEF RollbackTo, TypeOK
<1>5. CASE \E keep \in KeepChoices : StartPrune(p, keep)
  <2>1. PICK keep \in KeepChoices : StartPrune(p, keep)
    BY <1>5
  <2>2. Pruned(keep) \subseteq Nat
    BY <1>1 DEF Pruned, StoreTypeOK, Numbers
  <2>3. run' \in [Process -> Run]
    BY <1>1, <2>1, <2>2 DEF StartPrune, TypeOK, Run, Labels
  <2>4. /\ started' = started + 1
        /\ UNCHANGED <<present, stateFile, configFile, gens, current, lock, moved, named,
                       placed, faults, acts>>
    BY <2>1 DEF StartPrune
  <2> QED
    BY <1>1, <2>3, <2>4, StoreUnchanged DEF TypeOK
<1>6. CASE Restore(p)
  <2> DEFINE c == Expand(gens[run[p].number].config)
  <2>1. gens[run[p].number].config \in Config
    BY <1>1, <1>6 DEF Restore, IsRestorable, Whole, StoreTypeOK, Generation, Numbers
  <2>2. c \in Config
    BY <2>1, ExpandIsConfig
  <2>3. run' \in [Process -> Run] /\ named' \subseteq Item
    BY <1>1, <1>6, <2>2 DEF Restore, TypeOK, Run, Labels, Persisting, Config
  <2> QED
    BY <1>1, <1>6, <2>3, StoreUnchanged DEF Restore, TypeOK, counters
<1>7. CASE RestoreRefused(p) \/ PruneDone(p)
  BY <1>1, <1>7, LeaveStep, StoreUnchanged DEF RestoreRefused, PruneDone, TypeOK, counters
<1>8. CASE Capture(p)
  <2>1. PICK read \in SUBSET (1 .. NumDomains) :
          /\ run' = [run EXCEPT ![p].pc = "saveSync", ![p].config = CapturedBy(p, read),
                                ![p].fresh = SyncedManifest(p, read)]
          /\ faults' = IF read = 1 .. NumDomains THEN faults ELSE faults + 1
    BY <1>8, CaptureEffect
  <2>2. run' \in [Process -> Run]
    BY <1>1, <2>1, SyncedIsManifest DEF TypeOK, Run, Labels
  <2>3. faults' \in Nat
    BY <2>1 DEF TypeOK
  <2> QED
    BY <1>1, <1>8, <2>2, <2>3, StoreUnchanged DEF Capture, TypeOK
<1>9. CASE SaveSync(p)
  <2>1. stateFile' \in Manifest \cup {NoFile}
    BY <1>1, <1>9 DEF SaveSync, Run
  <2>2. run' \in [Process -> Run]
    BY <1>9, GotoStep DEF SaveSync, Labels
  <2> QED
    BY <1>1, <1>9, <2>1, <2>2, StoreUnchanged DEF SaveSync, TypeOK, counters
<1>10. CASE WriteBack(p)
  <2>1. configFile' \in Config
    BY <1>1, <1>10 DEF WriteBack, Run
  <2> QED
    BY <1>1, <1>10, <2>1, LeaveStep, StoreUnchanged DEF WriteBack, TypeOK, counters
<1> QED
  BY <1>2, <1>3, <1>4, <1>5, <1>6, <1>7, <1>8, <1>9, <1>10

LEMMA TypeAdministrator ==
  ASSUME TypeOK, Administrator
  PROVE  TypeOK'
<1>1. StoreTypeOK
  BY DEF TypeOK
<1>2. ASSUME NEW i \in Item, UserChanges(i)
      PROVE  TypeOK'
  BY <1>1, <1>2, StaleStep, StoreUnchanged DEF UserChanges, TypeOK
<1>3. ASSUME NEW c \in Configs, EditConfig(c)
      PROVE  TypeOK'
  BY <1>1, <1>3, DasikAssumption, StoreUnchanged DEF EditConfig, TypeOK
<1> QED
  BY <1>2, <1>3 DEF Administrator

LEMMA TypeInit ==
  ASSUME Init
  PROVE  TypeOK
<1>1. StoreTypeOK
  BY FS_EmptySet DEF Init, StoreInit, StoreTypeOK, NoGen, EmptyDir
<1>2. configFile \in Config
  BY DasikAssumption DEF Init
<1> QED
  BY <1>1, <1>2, EmptyValues DEF Init, TypeOK

LEMMA TypeStutter ==
  ASSUME TypeOK, UNCHANGED vars
  PROVE  TypeOK'
BY DEF TypeOK, StoreTypeOK, vars

-----------------------------------------------------------------------------
(***************************************************************************)
(* The shape of a step                                                     *)
(***************************************************************************)

\* Every step is one process's or the administrator's, so a proof by cases
\* over the actions of one process is a proof by cases over Next.
StepOf(p) ==
  \/ Work(p)
  \/ Decide(p)
  \/ Misfortune(p)

\* A step of one process leaves the records of all the others alone.
LEMMA OthersKeepTheirRecord ==
  ASSUME TypeOK, NEW p \in Process, StepOf(p), NEW q \in Process, q # p
  PROVE  run'[q] = run[q]
<1> USE DEF TypeOK, Goto, Leave
<1>1. CASE Work(p)
  BY <1>1 DEF Work, Load, BuildPlan, AcquireLock, LockBusy, AddItem, DropItem, NextAction,
     AllApplied, ActionRaises, PersistPartial, PickNumber, MakeGeneration, WriteConfig,
     WriteState, UnlinkCurrent, LinkCurrent, LinkExists, SaveState, Release, Restore,
     RestoreRefused, Capture, SaveSync, WriteBack, DeleteFile, DeleteDir, PruneDone
<1>2. CASE Decide(p)
  BY <1>2 DEF Decide, StartApply, StartSync, RollbackNamed, RollbackPrevious, RollbackTo,
     StartPrune, Proceed, Decline
<1>3. CASE Misfortune(p)
  BY <1>3 DEF Misfortune, Interrupt, PersistPartial, Die, ChangeFails
<1> QED
  BY <1>1, <1>2, <1>3 DEF StepOf

LEMMA StepIsOwnOrOthers ==
  ASSUME TypeOK, [Next]_vars, NEW q \in Process
  PROVE  StepOf(q) \/ run'[q] = run[q]
<1>1. PICK p \in Process : StepOf(p) \/ Administrator \/ UNCHANGED vars
  BY DEF Next, StepOf
<1>2. run' = run \/ StepOf(p)
  BY <1>1 DEF Administrator, UserChanges, EditConfig, vars
<1> QED
  BY <1>2, OthersKeepTheirRecord

SavesManifest(p) == SaveState(p) \/ SaveSync(p)

\* Only the two saves touch the manifest.
LEMMA ManifestSteps ==
  ASSUME NEW p \in Process, StepOf(p), ~SavesManifest(p)
  PROVE  stateFile' = stateFile
<1>1. CASE Work(p)
  BY <1>1 DEF SavesManifest, Work, Load, BuildPlan, AcquireLock, LockBusy, AddItem, DropItem,
     NextAction, AllApplied, ActionRaises, PickNumber, MakeGeneration, WriteConfig,
     WriteState, UnlinkCurrent, LinkCurrent, LinkExists, Release, Restore,
     RestoreRefused, Capture, WriteBack, DeleteFile, DeleteDir, PruneDone
<1>2. CASE Decide(p)
  BY <1>2 DEF Decide, StartApply, StartSync, RollbackNamed, RollbackPrevious, RollbackTo,
     StartPrune, Proceed, Decline
<1>3. CASE Misfortune(p)
  BY <1>3 DEF Misfortune, Interrupt, Die, ChangeFails
<1> QED
  BY <1>1, <1>2, <1>3 DEF StepOf

\* The lemmas on the actions, put together.
LEMMA TypeStep ==
  ASSUME TypeOK, ControlOK, [Next]_vars
  PROVE  TypeOK'
<1>1. ASSUME NEW p \in Process, StepOf(p)
      PROVE  TypeOK'
  BY <1>1, TypeCommand, TypeChange, TypeStore, TypeOther
     DEF StepOf, Work, Decide, Misfortune
<1> QED
  BY <1>1, TypeAdministrator, TypeStutter DEF Next, StepOf

LEMMA ControlStep ==
  ASSUME TypeOK, ControlOK, [Next]_vars
  PROVE  ControlOK'
<1> SUFFICES ASSUME NEW q \in Process,
                    run'[q].pc \in (Persisting \ {"number"}) \cup {"restore"}
             PROVE  run'[q].number # NoGen /\ (run'[q].pc = "restore" => run'[q].verb = "rollback")
  BY DEF ControlOK
<1>1. CASE run'[q] = run[q]
  BY <1>1 DEF ControlOK
<1>2. CASE StepOf(q)
  <2> USE <1>2 DEF TypeOK, At, Goto, Persisting, Run
  <2>1. CASE PickNumber(q)
    BY <2>1, NextNumberIsFresh DEF PickNumber
  <2>2. CASE RollbackNamed(q)
    BY <2>2 DEF RollbackNamed, RollbackTo, StoreTypeOK, Numbers
  <2>3. CASE RollbackPrevious(q)
    BY <2>3, PreviousIsGeneration DEF RollbackPrevious, RollbackTo, StoreTypeOK, Numbers
  <2>4. CASE Leave(q)
    BY <2>4 DEF Leave, Idle
  <2>5. CASE MakeGeneration(q) \/ WriteConfig(q) \/ WriteState(q) \/ UnlinkCurrent(q)
             \/ LinkCurrent(q) \/ SaveState(q) \/ Restore(q)
    BY <2>5 DEF ControlOK, MakeGeneration, WriteConfig, WriteState, UnlinkCurrent,
                LinkCurrent, SaveState, Restore
  <2>6. CASE ActionRaises(q) \/ Interrupt(q) \/ AllApplied(q)
    <3>1. PICK m, plan : run' = [run EXCEPT ![q].pc = "number", ![q].plan = plan,
                                            ![q].fresh = m]
                         \/ run' = [run EXCEPT ![q].pc = "number", ![q].fresh = m]
      BY <2>6 DEF ActionRaises, Interrupt, PersistPartial, AllApplied
    <3> QED
      BY <3>1
  <2>7. CASE \/ Load(q) \/ BuildPlan(q) \/ AcquireLock(q) \/ NextAction(q)
             \/ StartApply(q) \/ StartSync(q) \/ Proceed(q)
    BY <2>7, <2>4 DEF Load, BuildPlan, AcquireLock, NextAction, StartApply, StartSync, Proceed
  <2>8. CASE Capture(q)
    <3>1. PICK read :
            run' = [run EXCEPT ![q].pc = "saveSync", ![q].config = CapturedBy(q, read),
                               ![q].fresh = SyncedManifest(q, read)]
      BY <2>8, CaptureEffect
    <3> QED
      BY <3>1
  <2>12. ASSUME NEW keep \in KeepChoices, StartPrune(q, keep)
         PROVE  FALSE
    <3>1. run' = [run EXCEPT ![q].pc = "delete", ![q].verb = "prune",
                             ![q].victims = Pruned(keep)]
      BY <2>12 DEF StartPrune
    <3> QED
      BY <3>1
  <2>11. CASE SaveSync(q) \/ DeleteFile(q) \/ DeleteDir(q)
    BY <2>11 DEF SaveSync, DeleteFile, DeleteDir
  <2>9. CASE \E i \in Item : AddItem(q, i) \/ DropItem(q, i) \/ ChangeFails(q, i)
    BY <2>9 DEF AddItem, DropItem, ChangeFails
  <2>10. CASE \/ LockBusy(q) \/ LinkExists(q) \/ Release(q) \/ RestoreRefused(q)
              \/ WriteBack(q) \/ PruneDone(q) \/ Decline(q) \/ Die(q)
    BY <2>10, <2>4 DEF LockBusy, LinkExists, Release, RestoreRefused, WriteBack,
                       PruneDone, Decline, Die
  <2> QED
    BY <2>1, <2>2, <2>3, <2>5, <2>6, <2>7, <2>8, <2>9, <2>10, <2>11, <2>12
       DEF StepOf, Work, Decide, Misfortune
<1> QED
  BY <1>1, <1>2, StepIsOwnOrOthers

\* Every reachable state is of its type: every value a command computes is a
\* config, a plan, a manifest or a generation number, whatever it read.
THEOREM TypeCorrect == Spec => []TypeOK
<1>1. Init => TypeOK /\ ControlOK
  <2>1. Init => ControlOK
    BY DEF Init, ControlOK, Idle, Persisting
  <2> QED
    BY <2>1, TypeInit
<1>2. TypeOK /\ ControlOK /\ [Next]_vars => (TypeOK /\ ControlOK)'
  BY TypeStep, ControlStep
<1> QED
  BY <1>1, <1>2, PTL DEF Spec

-----------------------------------------------------------------------------
(***************************************************************************)
(* Mutual exclusion                                                        *)
(***************************************************************************)

\* Why applies exclude each other: whoever is between the lock and the end of
\* its persist holds the lock.  Only a rollback is at "restore", so nothing
\* reaches the persist steps as an apply without having taken the lock.
LockHeld == LockFileUsable => \A p \in Process : Inside(p) => lock = p

\* A step of p leaves the lock alone, gives it up, or takes it when free.
LEMMA LockEffect ==
  ASSUME TypeOK, LockFileUsable, NEW p \in Process, StepOf(p)
  PROVE  lock' = lock \/ lock' = Unlocked(p) \/ (lock = NoProcess /\ lock' = p)
<1>1. CASE Work(p)
  BY <1>1 DEF Work, Load, BuildPlan, AcquireLock, LockBusy, AddItem, DropItem, NextAction,
     AllApplied, ActionRaises, PickNumber, MakeGeneration, WriteConfig,
     WriteState, UnlinkCurrent, LinkCurrent, LinkExists, SaveState, Release, Restore,
     RestoreRefused, Capture, SaveSync, WriteBack, DeleteFile, DeleteDir, PruneDone
<1>2. CASE Decide(p)
  BY <1>2 DEF Decide, StartApply, StartSync, RollbackNamed, RollbackPrevious, RollbackTo,
     StartPrune, Proceed, Decline
<1>3. CASE Misfortune(p)
  BY <1>3 DEF Misfortune, Interrupt, Die, ChangeFails
<1> QED
  BY <1>1, <1>2, <1>3 DEF StepOf

\* Whoever is inside after its step took the lock in it, or was inside already
\* and left the lock alone.
LEMMA EntryTakesLock ==
  ASSUME TypeOK, ControlOK, NEW p \in Process, StepOf(p), Inside(p)'
  PROVE  AcquireLock(p) \/ (Inside(p) /\ lock' = lock)
<1> USE DEF TypeOK, At, Goto, Inside, Applying, Persisting, Run
<1>1. ~Leave(p)
  BY DEF Leave, Idle
<1>2. CASE ActionRaises(p) \/ Interrupt(p) \/ AllApplied(p)
  <2>1. PICK m, plan : run' = [run EXCEPT ![p].pc = "number", ![p].plan = plan,
                                          ![p].fresh = m]
                       \/ run' = [run EXCEPT ![p].pc = "number", ![p].fresh = m]
    BY <1>2 DEF ActionRaises, Interrupt, PersistPartial, AllApplied
  <2>2. At(p, "change") /\ lock' = lock
    BY <1>2 DEF ActionRaises, Interrupt, AllApplied
  <2> QED
    BY <2>1, <2>2
<1>3. CASE \/ PickNumber(p) \/ MakeGeneration(p) \/ WriteConfig(p) \/ WriteState(p)
           \/ UnlinkCurrent(p) \/ LinkCurrent(p) \/ SaveState(p) \/ NextAction(p) \/ Proceed(p)
  BY <1>3 DEF PickNumber, MakeGeneration, WriteConfig, WriteState, UnlinkCurrent,
              LinkCurrent, SaveState, NextAction, Proceed
<1>4. CASE \E i \in Item : AddItem(p, i) \/ DropItem(p, i) \/ ChangeFails(p, i)
  BY <1>4 DEF AddItem, DropItem, ChangeFails
<1>5. CASE Load(p) \/ StartApply(p) \/ StartSync(p)
  BY <1>5 DEF Load, StartApply, StartSync, Planning
<1>6. CASE BuildPlan(p)
  BY <1>1, <1>6 DEF BuildPlan
<1>7. CASE Restore(p)
  BY <1>7 DEF Restore, ControlOK
<1>8. CASE RollbackNamed(p) \/ RollbackPrevious(p)
  BY <1>8 DEF RollbackNamed, RollbackPrevious, RollbackTo
<1>9. CASE Capture(p)
  <2>1. PICK read : run' = [run EXCEPT ![p].pc = "saveSync", ![p].config = CapturedBy(p, read),
                                       ![p].fresh = SyncedManifest(p, read)]
    BY <1>9, CaptureEffect
  <2> QED
    BY <2>1
<1>10. CASE SaveSync(p) \/ DeleteFile(p) \/ DeleteDir(p)
  BY <1>10 DEF SaveSync, DeleteFile, DeleteDir
<1>11. ASSUME NEW keep \in KeepChoices, StartPrune(p, keep)
       PROVE  FALSE
  <2>1. run' = [run EXCEPT ![p].pc = "delete", ![p].verb = "prune",
                           ![p].victims = Pruned(keep)]
    BY <1>11 DEF StartPrune
  <2> QED
    BY <2>1
<1>12. ~ ( \/ LockBusy(p) \/ LinkExists(p) \/ Release(p) \/ RestoreRefused(p)
           \/ WriteBack(p) \/ PruneDone(p) \/ Decline(p) \/ Die(p))
  BY <1>1 DEF LockBusy, LinkExists, Release, RestoreRefused, WriteBack, PruneDone,
              Decline, Die
<1> QED
  BY <1>2, <1>3, <1>4, <1>5, <1>6, <1>7, <1>8, <1>9, <1>10, <1>11, <1>12
     DEF StepOf, Work, Decide, Misfortune

LEMMA LockStep ==
  ASSUME TypeOK, ControlOK, LockHeld, [Next]_vars
  PROVE  LockHeld'
<1> SUFFICES ASSUME LockFileUsable, NEW q \in Process, Inside(q)'
             PROVE  lock' = q
  BY DEF LockHeld
<1>1. PICK p \in Process : StepOf(p) \/ Administrator \/ UNCHANGED vars
  BY DEF Next, StepOf
<1>2. CASE Administrator \/ UNCHANGED vars
  BY <1>2 DEF Administrator, UserChanges, EditConfig, vars, LockHeld, Inside
<1>3. CASE StepOf(p) /\ p = q
  BY <1>3, EntryTakesLock DEF AcquireLock, LockHeld
<1>4. CASE StepOf(p) /\ p # q
  <2>1. lock = q
    BY <1>4, OthersKeepTheirRecord DEF Inside, LockHeld
  <2> QED
    BY <1>4, <2>1, LockEffect, DasikAssumption DEF Unlocked
<1> QED
  BY <1>1, <1>2, <1>3, <1>4

\* "One apply at a time, per target": however many processes run however many
\* commands, two applies are never both between the lock and the end of their
\* persist, where the lock file can be created.
THEOREM MutualExclusion == Spec => [](LockFileUsable => OneApplyAtATime)
<1> DEFINE IInv == TypeOK /\ ControlOK /\ LockHeld
<1>1. Init => IInv
  <2>1. Init => ControlOK /\ LockHeld
    BY DEF Init, ControlOK, LockHeld, Inside, Idle, Persisting
  <2> QED
    BY <2>1, TypeInit
<1>2. IInv /\ [Next]_vars => IInv'
  BY TypeStep, ControlStep, LockStep
<1>3. IInv => (LockFileUsable => OneApplyAtATime)
  BY DEF LockHeld, OneApplyAtATime
<1> QED
  BY <1>1, <1>2, <1>3, PTL DEF Spec

-----------------------------------------------------------------------------
(***************************************************************************)
(* The commands keep the promise of Ownership.tla: every interleaving of   *)
(* commands, failures, deaths and acts of the administrator refines it.    *)
(***************************************************************************)

(***************************************************************************)
(* What a command has in memory                                            *)
(***************************************************************************)

\* Everything a running command (its record r) could claim or remove later is
\* in S: the manifest it loaded, its plan, the manifest it is about to save
\* and, until a sync has mixed what it saw into it, its config.
Knows(r, S) ==
  /\ r.seen.owned \subseteq S
  /\ r.plan.add \subseteq S /\ r.plan.drop \subseteq S
  /\ r.fresh # NoFile => r.fresh.owned \subseteq S
  /\ r.pc \notin {"saveSync", "writeBack"} => Expand(r.config).on \subseteq S /\ r.config.off \subseteq S

\* The inductive invariant.
OnlyNamed ==
  /\ OwnedNow \subseteq named
  /\ \A p \in Process : Knows(run[p], named)

LEMMA KnowsMore ==
  ASSUME NEW r, NEW S, NEW T, Knows(r, S), S \subseteq T
  PROVE  Knows(r, T)
BY DEF Knows

LEMMA IdleKnows ==
  ASSUME NEW S
  PROVE  Knows(Idle, S)
BY DEF Knows, Idle, EmptyManifest, NoChanges, EmptyConfig, Expand, Contributions

LEMMA ExpandedConfigIsNamed ==
  ASSUME NEW c \in Config
  PROVE  /\ Expand(Expand(c)).on = Expand(c).on
         /\ Expand(c).off = c.off
         /\ c.on \subseteq Expand(c).on
BY ExpandIdempotent DEF Expand, Config

\* Names are never taken back.
LEMMA NamedGrows ==
  ASSUME [Next]_vars
  PROVE  named \subseteq named'
<1>1. ASSUME NEW p \in Process, Work(p)
      PROVE  named \subseteq named'
  BY <1>1 DEF Work, Load, BuildPlan, AcquireLock, LockBusy, AddItem, DropItem, NextAction,
     AllApplied, ActionRaises, PickNumber, MakeGeneration, WriteConfig,
     WriteState, UnlinkCurrent, LinkCurrent, LinkExists, SaveState, Release, Restore,
     RestoreRefused, Capture, SaveSync, WriteBack, DeleteFile, DeleteDir, PruneDone
<1>2. ASSUME NEW p \in Process, Decide(p)
      PROVE  named \subseteq named'
  BY <1>2 DEF Decide, StartApply, StartSync, RollbackNamed, RollbackPrevious, RollbackTo,
     StartPrune, Proceed, Decline
<1>3. ASSUME NEW p \in Process, Misfortune(p)
      PROVE  named \subseteq named'
  BY <1>3 DEF Misfortune, Interrupt, Die, ChangeFails
<1>4. CASE Administrator \/ UNCHANGED vars
  BY <1>4 DEF Administrator, UserChanges, EditConfig, vars
<1> QED
  BY <1>1, <1>2, <1>3, <1>4 DEF Next

\* build_plan plans nothing that is neither declared, declared off nor owned.
LEMMA PlanIsNamed ==
  ASSUME TypeOK, NEW p \in Process, Knows(run[p], named), At(p, "plan")
  PROVE  LET plan == PlanOf(run[p].config, run[p].seen)
         IN  plan.add \subseteq named /\ plan.drop \subseteq named
<1>1. run[p].config \in Config
  BY DEF TypeOK, Run
<1>2. /\ run[p].config.on \subseteq named
      /\ run[p].config.off \subseteq named
      /\ run[p].seen.owned \subseteq named
  BY <1>1, ExpandedConfigIsNamed DEF Knows, At
<1> QED
  BY <1>2 DEF PlanOf, ComputeChanges, Installs, OwnedRemovals, ForcedRemovals

\* Complete or partial, a new manifest claims what was owned or is declared.
LEMMA NewManifestIsNamed ==
  ASSUME TypeOK, NEW p \in Process, Knows(run[p], named), At(p, "change"),
         NEW completed, NEW partial \in BOOLEAN
  PROVE  BuildNewManifest(p, completed, partial).owned \subseteq named
<1>1. run[p].config \in Config
  BY DEF TypeOK, Run
<1>2. run[p].config.on \subseteq named /\ run[p].seen.owned \subseteq named
  BY <1>1, ExpandedConfigIsNamed DEF Knows, At
<1> QED
  BY <1>2 DEF BuildNewManifest

\* A sync claims nothing for having seen it.
LEMMA SyncIsNamed ==
  ASSUME NEW p \in Process, Knows(run[p], named), At(p, "capture"), NEW read
  PROVE  SyncedManifest(p, read).owned \subseteq named
BY DEF Knows, At, SyncedManifest, OwnedAfterSync

\* A step of its own leaves a command knowing named items only.
LEMMA OwnStepKnows ==
  ASSUME TypeOK, OnlyNamed, [Next]_vars, NEW p \in Process, StepOf(p)
  PROVE  Knows(run'[p], named')
<1> USE DEF TypeOK, At, Goto
<1>1. /\ Knows(run[p], named) /\ Knows(run[p], named')
      /\ run[p] \in Run /\ named \subseteq named' /\ OwnedNow \subseteq named'
  BY KnowsMore, NamedGrows DEF OnlyNamed
<1>2. Leave(p) => Knows(run'[p], named')
  BY IdleKnows DEF Leave
<1>3. CASE Load(p)
  <2> DEFINE m == IF stateFile = NoFile THEN EmptyManifest ELSE stateFile
  <2>1. m.owned \subseteq named'
    BY <1>1 DEF EmptyManifest, OwnedNow
  <2>2. run' = [run EXCEPT ![p].seen = m,
                           ![p].pc = IF run[p].verb = "sync" THEN "capture" ELSE "plan"]
    BY <1>3 DEF Load
  <2>3. run[p].pc = "load"
    BY <1>3 DEF Load
  <2> HIDE DEF m
  <2> QED
    BY <1>1, <2>1, <2>2, <2>3 DEF Knows, Run
<1>4. CASE BuildPlan(p)
  <2> DEFINE plan == PlanOf(run[p].config, run[p].seen)
  <2>1. plan.add \subseteq named' /\ plan.drop \subseteq named'
    BY <1>1, <1>4, PlanIsNamed DEF BuildPlan
  <2>2. Leave(p) \/ run' = [run EXCEPT ![p].plan = plan,
                              ![p].pc = IF run[p].verb = "apply" THEN "lock" ELSE "confirm"]
    BY <1>4 DEF BuildPlan
  <2> QED
    BY <1>1, <1>2, <1>4, <2>1, <2>2 DEF BuildPlan, Knows, Run
<1>5. CASE AllApplied(p)
  <2> DEFINE m == BuildNewManifest(p, Completed(p), FALSE)
  <2>1. m.owned \subseteq named'
    BY <1>1, <1>5, NewManifestIsNamed DEF AllApplied
  <2>2. run' = [run EXCEPT ![p].pc = "number", ![p].fresh = m]
    BY <1>5 DEF AllApplied
  <2>3. run[p].pc = "change"
    BY <1>5 DEF AllApplied
  <2> HIDE DEF m
  <2> QED
    BY <1>1, <2>1, <2>2, <2>3 DEF Knows, Run
<1>6. CASE ActionRaises(p) \/ Interrupt(p)
  <2> DEFINE m == BuildNewManifest(p, Completed(p), TRUE)
  <2>1. m.owned \subseteq named'
    BY <1>1, <1>6, NewManifestIsNamed DEF ActionRaises, Interrupt
  <2>2. run' = [run EXCEPT ![p].pc = "number", ![p].plan = NoChanges, ![p].fresh = m]
    BY <1>6 DEF ActionRaises, Interrupt, PersistPartial
  <2>3. run[p].pc = "change"
    BY <1>6 DEF ActionRaises, Interrupt
  <2> HIDE DEF m
  <2> QED
    BY <1>1, <2>1, <2>2, <2>3 DEF Knows, Run, NoChanges
<1>7. CASE Capture(p)
  <2>1. PICK read : run' = [run EXCEPT ![p].pc = "saveSync", ![p].config = CapturedBy(p, read),
                                       ![p].fresh = SyncedManifest(p, read)]
    BY <1>7, CaptureEffect
  <2>2. SyncedManifest(p, read).owned \subseteq named'
    BY <1>1, <1>7, SyncIsNamed DEF Capture
  <2> QED
    BY <1>1, <2>1, <2>2 DEF Knows, Run
<1>8. CASE StartApply(p)
  <2> DEFINE c == Expand(configFile)
  <2>1. Expand(c).on \subseteq named' /\ c.off \subseteq named'
    BY <1>8, ExpandedConfigIsNamed DEF StartApply
  <2>2. run' = [run EXCEPT ![p].pc = "load", ![p].verb = "apply", ![p].config = c]
    BY <1>8 DEF StartApply
  <2> HIDE DEF c
  <2> QED
    BY <1>1, <2>1, <2>2 DEF Knows, Run
<1>9. CASE StartSync(p)
  <2>1. Expand(configFile).on \subseteq named' /\ configFile.off \subseteq named'
    BY <1>9, ExpandedConfigIsNamed DEF StartSync
  <2>2. run' = [run EXCEPT ![p].pc = "load", ![p].verb = "sync", ![p].config = configFile]
    BY <1>9 DEF StartSync
  <2> QED
    BY <1>1, <2>1, <2>2 DEF Knows, Run
<1>10. CASE Restore(p)
  <2> DEFINE c == Expand(gens[run[p].number].config)
  <2>1. gens[run[p].number].config \in Config
    BY <1>10 DEF Restore, IsRestorable, Whole, StoreTypeOK, Generation, Numbers
  <2>2. Expand(c).on \subseteq named' /\ c.off \subseteq named'
    BY <1>10, <2>1, ExpandedConfigIsNamed DEF Restore
  <2>3. run' = [run EXCEPT ![p].pc = "unlink", ![p].config = c]
    BY <1>10 DEF Restore
  <2> HIDE DEF c
  <2> QED
    BY <1>1, <2>2, <2>3 DEF Knows, Run
<1>11. CASE RollbackNamed(p) \/ RollbackPrevious(p)
  <2>1. PICK n : RollbackTo(p, n)
    BY <1>11 DEF RollbackNamed, RollbackPrevious
  <2> QED
    BY <1>1, <2>1 DEF RollbackTo, Knows, Run
<1>12. ASSUME NEW keep \in KeepChoices, StartPrune(p, keep)
       PROVE  Knows(run'[p], named')
  <2>1. /\ run' = [run EXCEPT ![p].pc = "delete", ![p].verb = "prune",
                              ![p].victims = Pruned(keep)]
        /\ run[p].pc = "idle"
    BY <1>12 DEF StartPrune
  <2> QED
    BY <1>1, <2>1 DEF Knows, Run
<1>13. ASSUME NEW i \in Item, AddItem(p, i) \/ DropItem(p, i) \/ ChangeFails(p, i)
       PROVE  Knows(run'[p], named')
  BY <1>1, <1>13 DEF AddItem, DropItem, ChangeFails, Knows, Run, Plan
<1>14. CASE \/ AcquireLock(p) \/ Proceed(p) \/ NextAction(p) \/ PickNumber(p)
            \/ MakeGeneration(p) \/ WriteConfig(p) \/ WriteState(p) \/ UnlinkCurrent(p)
            \/ LinkCurrent(p) \/ SaveState(p)
  BY <1>1, <1>14 DEF AcquireLock, Proceed, NextAction, PickNumber, MakeGeneration,
     WriteConfig, WriteState, UnlinkCurrent, LinkCurrent, SaveState, Knows, Run
<1>15. CASE SaveSync(p) \/ DeleteFile(p) \/ DeleteDir(p)
  BY <1>1, <1>15 DEF SaveSync, DeleteFile, DeleteDir, Knows, Run
<1>16. CASE \/ LockBusy(p) \/ LinkExists(p) \/ Release(p) \/ RestoreRefused(p)
            \/ WriteBack(p) \/ PruneDone(p) \/ Decline(p) \/ Die(p)
  BY <1>2, <1>16 DEF LockBusy, LinkExists, Release, RestoreRefused, WriteBack,
     PruneDone, Decline, Die
<1> QED
  BY <1>3, <1>4, <1>5, <1>6, <1>7, <1>8, <1>9, <1>10, <1>11, <1>12, <1>13, <1>14,
     <1>15, <1>16 DEF StepOf, Work, Decide, Misfortune

-----------------------------------------------------------------------------
(***************************************************************************)
(* What a step does to the machine and to the manifest                     *)
(***************************************************************************)

\* What a save records, the saving command knew.
LEMMA SaveRecordsKnown ==
  ASSUME TypeOK, NEW p \in Process, Knows(run[p], named), SavesManifest(p)
  PROVE  OwnedNow' \subseteq named
<1>1. stateFile' = run[p].fresh
  BY DEF SavesManifest, SaveState, SaveSync
<1>2. OwnedNow' = IF run[p].fresh = NoFile THEN {} ELSE run[p].fresh.owned
  BY <1>1 DEF OwnedNow
<1> QED
  BY <1>2 DEF Knows

LEMMA OnlyNamedStep ==
  ASSUME TypeOK, OnlyNamed, [Next]_vars
  PROVE  OnlyNamed'
<1>1. named \subseteq named'
  BY NamedGrows
<1>2. ASSUME NEW p \in Process, StepOf(p)
      PROVE  OwnedNow' \subseteq named'
  <2>1. CASE SavesManifest(p)
    BY <1>1, <2>1, SaveRecordsKnown DEF OnlyNamed
  <2>2. CASE ~SavesManifest(p)
    BY <1>1, <1>2, <2>2, ManifestSteps DEF OnlyNamed, OwnedNow
  <2> QED
    BY <2>1, <2>2
<1>3. CASE Administrator \/ UNCHANGED vars
  BY <1>1, <1>3 DEF Administrator, UserChanges, EditConfig, vars, OnlyNamed, OwnedNow
<1>4. ASSUME NEW q \in Process
      PROVE  Knows(run'[q], named')
  <2>1. CASE StepOf(q)
    BY <2>1, OwnStepKnows
  <2>2. CASE run'[q] = run[q]
    BY <1>1, <2>2, KnowsMore DEF OnlyNamed
  <2> QED
    BY <2>1, <2>2, StepIsOwnOrOthers
<1> QED
  BY <1>2, <1>3, <1>4 DEF OnlyNamed, Next, StepOf

-----------------------------------------------------------------------------
(***************************************************************************)
(* The refinement                                                          *)
(***************************************************************************)

\* What happens to the variables of the promise when nothing below does.
Quiet == UNCHANGED <<present, stateFile, named, acts>>

\* The steps of a command that the promise allows by name; all the others are
\* stuttering steps of the promise.
LEMMA QuietSteps ==
  ASSUME NEW p \in Process, StepOf(p), ~SavesManifest(p),
         ~(StartApply(p) \/ StartSync(p) \/ Restore(p)),
         \A i \in Item : ~AddItem(p, i) /\ ~DropItem(p, i)
  PROVE  Quiet
<1>1. CASE Work(p)
  BY <1>1 DEF Quiet, SavesManifest, Work, Load, BuildPlan, AcquireLock, LockBusy, NextAction,
     AllApplied, ActionRaises, PickNumber, MakeGeneration, WriteConfig, WriteState,
     UnlinkCurrent, LinkCurrent, LinkExists, Release, RestoreRefused, Capture,
     WriteBack, DeleteFile, DeleteDir, PruneDone, counters
<1>2. CASE Decide(p)
  BY <1>2 DEF Quiet, Decide, RollbackNamed, RollbackPrevious, RollbackTo, StartPrune,
     Proceed, Decline, counters
<1>3. CASE Misfortune(p)
  BY <1>3 DEF Quiet, Misfortune, Interrupt, Die, ChangeFails
<1> QED
  BY <1>1, <1>2, <1>3 DEF StepOf

LEMMA StepRefines ==
  ASSUME TypeOK, TypeOK', OnlyNamed, OnlyNamed', [Next]_vars
  PROVE  [Promise!Next]_(Promise!vars)
<1> DEFINE Allowed == Promise!Next \/ UNCHANGED <<present, OwnedNow, named, acts>>
<1> SUFFICES Allowed
  BY DEF Promise!vars
<1>1. ASSUME NEW p \in Process, StepOf(p)
      PROVE  Allowed
  <2>1. CASE SavesManifest(p)
    <3>1. OwnedNow' \subseteq named /\ OwnedNow' \in SUBSET Item
      BY <2>1, SaveRecordsKnown DEF OnlyNamed, TypeOK
    <3>2. Promise!Record(OwnedNow')
      BY <2>1, <3>1 DEF Promise!Record, SavesManifest, SaveState, SaveSync, counters
    <3> QED
      BY <3>1, <3>2 DEF Promise!Next
  <2>2. CASE StartApply(p) \/ StartSync(p) \/ Restore(p)
    <3>1. named \subseteq named' /\ named' \in SUBSET Item
      BY NamedGrows DEF TypeOK
    <3>2. Promise!Name(named')
      BY <2>2, <3>1 DEF Promise!Name, StartApply, StartSync, Restore, OwnedNow, counters
    <3> QED
      BY <3>1, <3>2 DEF Promise!Next
  <2>3. ASSUME NEW i \in Item, AddItem(p, i) \/ DropItem(p, i)
        PROVE  Allowed
    <3>1. i \in named
      BY <2>3 DEF AddItem, DropItem, PendingAdds, PendingDrops, OnlyNamed, Knows
    <3>2. Promise!Add(i) \/ Promise!Remove(i)
      BY <2>3, <3>1 DEF Promise!Add, Promise!Remove, AddItem, DropItem, OwnedNow, counters
    <3> QED
      BY <3>2 DEF Promise!Next
  <2>4. CASE Quiet
    BY <2>4 DEF Quiet, OwnedNow
  <2> QED
    BY <1>1, <2>1, <2>2, <2>3, <2>4, QuietSteps
<1>2. ASSUME Administrator
      PROVE  Allowed
  <2>1. present' \in SUBSET Item
    BY DEF TypeOK
  <2>2. Promise!Administer(present')
    BY <1>2 DEF Promise!Administer, Administrator, UserChanges, EditConfig, OwnedNow
  <2> QED
    BY <2>1, <2>2 DEF Promise!Next
<1>3. CASE UNCHANGED vars
  BY <1>3 DEF vars, OwnedNow
<1> QED
  BY <1>1, <1>2, <1>3 DEF Next, StepOf

\* dasik keeps its promise, whatever the interleaving of its commands, their
\* failures and their deaths, with or without the lock: it removes and claims
\* only what a config handed to it has named (set_math.compute_changes,
\* Reconciler._build_new_manifest, Reconciler._owned_after_sync).
THEOREM PromiseKept == Spec => KeepsOwnershipPromise
<1> DEFINE IInv == TypeOK /\ ControlOK /\ OnlyNamed
<1>1. Init => IInv /\ Promise!Init
  <2>1. Init => OnlyNamed
    BY IdleKnows DEF Init, OnlyNamed, OwnedNow
  <2>2. Init => ControlOK
    BY DEF Init, ControlOK, Idle, Persisting
  <2>3. Init => Promise!Init
    BY DEF Init, Promise!Init, OwnedNow
  <2> QED
    BY <2>1, <2>2, <2>3, TypeInit
<1>2. IInv /\ [Next]_vars => IInv'
  BY TypeStep, ControlStep, OnlyNamedStep
<1>3. IInv /\ IInv' /\ [Next]_vars => [Promise!Next]_(Promise!vars)
  BY StepRefines
<1> QED
  BY <1>1, <1>2, <1>3, PTL DEF Spec, KeepsOwnershipPromise, Promise!Spec

=============================================================================
