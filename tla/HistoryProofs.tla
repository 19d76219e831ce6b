---------------------------- MODULE HistoryProofs ----------------------------
(***************************************************************************)
(* The generation history and the manifest that counts it: what holds for  *)
(* any number of processes, and what holds as long as one command at a     *)
(* time writes the history.  Then what holds when the administrator runs   *)
(* one dasik command at a time, through every failure and death: a prune   *)
(* leaves something to roll back to, and nothing slips out of what dasik   *)
(* owns.                                                                   *)
(***************************************************************************)
EXTENDS ConvergenceProofs

\* Nobody starts a command while another one runs.
OneCommandAtATime == \A p, q \in Process : p = q

\* The lock sees to it that two applies never write the history at the same
\* time; rollback does not take it.
OneWriterAtATime ==
  OneCommandAtATime \/ (LockFileUsable /\ "rollback" \notin Verbs)

-----------------------------------------------------------------------------
(***************************************************************************)
(* What a command holds in memory, label by label                          *)
(***************************************************************************)

Shape(r) ==
  /\ r.pc \in {"plan", "lock"} \cup Applying \cup Persisting => r.verb \in {"apply", "rollback"}
  /\ r.pc = "lock" => r.verb = "apply"
  /\ r.verb = "rollback" => "rollback" \in Verbs
  /\ r.pc \notin Persisting \cup {"saveSync", "writeBack"} => r.fresh = NoFile
  /\ r.pc \in Persisting => IF r.fresh = NoFile
                            THEN r.verb = "rollback" /\ r.pc \in {"unlink", "link"}
                            ELSE r.fresh.hash = r.config
  /\ r.victims # {} => r.pc = "delete"
  /\ NoGen \notin r.victims

AllShaped == \A p \in Process : Shape(run[p])

LEMMA IdleShape == Shape(Idle)
BY DEF Shape, Idle, Applying, Persisting

LEMMA OwnStepShape ==
  ASSUME TypeOK, ControlOK, NEW p \in Process, Shape(run[p]), StepOf(p)
  PROVE  Shape(run'[p])
<1> USE DEF TypeOK, At, Goto
<1>1. run[p] \in Run
  OBVIOUS
<1>2. Leave(p) => Shape(run'[p])
  BY IdleShape DEF Leave
<1>3. CASE Load(p) \/ StartApply(p) \/ StartSync(p)
  BY <1>1, <1>3 DEF Load, StartApply, StartSync, Shape, Run, Applying, Persisting
<1>4. CASE BuildPlan(p)
  <2> DEFINE plan == PlanOf(run[p].config, run[p].seen)
  <2>1. Leave(p) \/ run' = [run EXCEPT ![p].plan = plan,
                              ![p].pc = IF run[p].verb = "apply" THEN "lock" ELSE "confirm"]
    BY <1>4 DEF BuildPlan
  <2> HIDE DEF plan
  <2>2. run[p].pc = "plan"
    BY <1>4 DEF BuildPlan
  <2> QED
    BY <1>1, <1>2, <2>1, <2>2 DEF Shape, Run, Applying, Persisting
<1>5. CASE AcquireLock(p) \/ Proceed(p) \/ NextAction(p)
  BY <1>1, <1>5 DEF AcquireLock, Proceed, NextAction, Shape, Run, Applying, Persisting
<1>6. ASSUME NEW i \in Item, AddItem(p, i) \/ DropItem(p, i) \/ ChangeFails(p, i)
      PROVE  Shape(run'[p])
  BY <1>1, <1>6 DEF AddItem, DropItem, ChangeFails, Shape, Run, Plan, Applying, Persisting
<1>7. ASSUME NEW partial \in BOOLEAN, run[p].pc = "change",
             LET m == BuildNewManifest(p, Completed(p), partial)
             IN  \/ run' = [run EXCEPT ![p].pc = "number", ![p].plan = NoChanges, ![p].fresh = m]
                 \/ run' = [run EXCEPT ![p].pc = "number", ![p].fresh = m]
      PROVE  Shape(run'[p])
  <2> DEFINE m == BuildNewManifest(p, Completed(p), partial)
  <2>1. m \in Manifest /\ m.hash = run[p].config
    BY NewManifestIsManifest DEF BuildNewManifest
  <2>2. m # NoFile
    BY <2>1, DasikAssumption
  <2>3. \/ run' = [run EXCEPT ![p].pc = "number", ![p].plan = NoChanges, ![p].fresh = m]
        \/ run' = [run EXCEPT ![p].pc = "number", ![p].fresh = m]
    BY <1>7
  <2> HIDE DEF m
  <2> QED
    BY <1>1, <1>7, <2>1, <2>2, <2>3 DEF Shape, Run, Applying, Persisting
<1>8. CASE AllApplied(p) \/ ActionRaises(p) \/ Interrupt(p)
  BY <1>7, <1>8 DEF AllApplied, ActionRaises, Interrupt, PersistPartial
<1>9. CASE \/ PickNumber(p) \/ MakeGeneration(p) \/ WriteConfig(p) \/ WriteState(p)
           \/ UnlinkCurrent(p) \/ LinkCurrent(p) \/ SaveState(p)
  BY <1>1, <1>9 DEF PickNumber, MakeGeneration, WriteConfig, WriteState, UnlinkCurrent,
     LinkCurrent, SaveState, Shape, Run, Applying, Persisting
<1>10. CASE RollbackNamed(p) \/ RollbackPrevious(p)
  <2>1. PICK n : RollbackTo(p, n)
    BY <1>10 DEF RollbackNamed, RollbackPrevious
  <2> QED
    BY <1>1, <2>1 DEF RollbackTo, Shape, Run, Applying, Persisting
<1>11. CASE Restore(p)
  BY <1>1, <1>11 DEF Restore, ControlOK, Shape, Run, Applying, Persisting
<1>12. CASE Capture(p)
  <2>1. PICK read : run' = [run EXCEPT ![p].pc = "saveSync", ![p].config = CapturedBy(p, read),
                                       ![p].fresh = SyncedManifest(p, read)]
    BY <1>12, CaptureEffect
  <2> QED
    BY <1>1, <1>12, <2>1 DEF Capture, Shape, Run, Applying, Persisting
<1>13. CASE SaveSync(p) \/ DeleteFile(p) \/ DeleteDir(p)
  BY <1>1, <1>13 DEF SaveSync, DeleteFile, DeleteDir, Shape, Run, Applying, Persisting
<1>14. ASSUME NEW keep \in KeepChoices, StartPrune(p, keep)
       PROVE  Shape(run'[p])
  <2>1. /\ run' = [run EXCEPT ![p].pc = "delete", ![p].verb = "prune",
                              ![p].victims = Pruned(keep)]
        /\ run[p].pc = "idle"
    BY <1>14 DEF StartPrune
  <2>2. NoGen \notin Pruned(keep)
    BY DEF Pruned, StoreTypeOK, Numbers
  <2> QED
    BY <1>1, <2>1, <2>2 DEF Shape, Run, Applying, Persisting
<1>15. CASE \/ LockBusy(p) \/ LinkExists(p) \/ Release(p) \/ RestoreRefused(p)
            \/ WriteBack(p) \/ PruneDone(p) \/ Decline(p) \/ Die(p)
  BY <1>2, <1>15 DEF LockBusy, LinkExists, Release, RestoreRefused, WriteBack,
     PruneDone, Decline, Die
<1> QED
  BY <1>3, <1>4, <1>5, <1>6, <1>8, <1>9, <1>10, <1>11, <1>12, <1>13, <1>14, <1>15
     DEF StepOf, Work, Decide, Misfortune

LEMMA ShapeStep ==
  ASSUME TypeOK, ControlOK, AllShaped, [Next]_vars
  PROVE  AllShaped'
<1> SUFFICES ASSUME NEW p \in Process
             PROVE  Shape(run'[p])
  BY DEF AllShaped
<1>1. Shape(run[p])
  BY DEF AllShaped
<1> QED
  BY <1>1, StepIsOwnOrOthers, OwnStepShape

-----------------------------------------------------------------------------
(***************************************************************************)
(* The manifest never counts further than the history                      *)
(***************************************************************************)

\* The steps that change the generation store.
ChangesStore(p) ==
  \/ MakeGeneration(p) \/ WriteConfig(p) \/ WriteState(p)
  \/ UnlinkCurrent(p) \/ LinkCurrent(p) \/ DeleteFile(p) \/ DeleteDir(p)

LEMMA StoreSteps ==
  ASSUME NEW p \in Process, StepOf(p), ~ChangesStore(p)
  PROVE  UNCHANGED storeVars
<1> USE DEF storeVars
<1>1. CASE Work(p)
  BY <1>1 DEF ChangesStore, Work, Load, BuildPlan, AcquireLock, LockBusy, AddItem, DropItem,
     NextAction, AllApplied, ActionRaises, PickNumber, LinkExists, SaveState, Release, Restore,
     RestoreRefused, Capture, SaveSync, WriteBack, PruneDone
<1>2. CASE Decide(p)
  BY <1>2 DEF Decide, StartApply, StartSync, RollbackNamed, RollbackPrevious, RollbackTo,
     StartPrune, Proceed, Decline
<1>3. CASE Misfortune(p)
  BY <1>3 DEF Misfortune, Interrupt, Die, ChangeFails
<1> QED
  BY <1>1, <1>2, <1>3 DEF StepOf

\* The history, with the numbers N, has come at least as far as number g.
Reaches(g, N) == g = 0 \/ \E n \in N : n >= g

\* What a command counts from, what it counts up to, and why a prune never
\* deletes the newest generation.
Counted(r, N) ==
  /\ Reaches(r.seen.generation, N)
  /\ r.fresh # NoFile =>
       /\ r.pc = "number" => r.fresh.generation = r.seen.generation + 1
       /\ r.pc = "mkdir" => r.fresh.generation <= r.number
       /\ r.pc \in {"config", "state", "unlink", "link", "save", "release",
                    "saveSync", "writeBack"} => Reaches(r.fresh.generation, N)
  /\ \A n \in r.victims : \E m \in N : m > n

AllCounted ==
  /\ stateFile # NoFile => Reaches(stateFile.generation, Numbers)
  /\ \A p \in Process : Counted(run[p], Numbers)

\* What prune keeps: keep is at least 1, so the newest generation survives, and
\* every victim has it above.
LEMMA VictimsAreOld ==
  ASSUME StoreTypeOK, NEW keep \in Nat \ {0}, NEW n \in Pruned(keep)
  PROVE  n \in Numbers /\ \E m \in Numbers : m > n
<1>1. n \in Numbers /\ n \notin MostRecent(keep)
  BY DEF Pruned, Survivors
<1>2. {m \in Numbers : m > n} # {}
  <2>1. SUFFICES ASSUME {m \in Numbers : m > n} = {}
                 PROVE  FALSE
    OBVIOUS
  <2>2. Cardinality({m \in Numbers : m > n}) = 0
    BY <2>1, FS_EmptySet
  <2> QED
    BY <1>1, <2>2 DEF MostRecent
<1> QED
  BY <1>1, <1>2

\* A deletion takes one victim at most; everything else only adds.
LEMMA NumbersStep ==
  ASSUME TypeOK, NEW p \in Process, StepOf(p)
  PROVE  \/ Numbers \subseteq Numbers'
         \/ \E n \in run[p].victims : Numbers' = Numbers \ {n}
<1>1. CASE ~ChangesStore(p)
  BY <1>1, StoreSteps DEF storeVars, Numbers
<1>2. CASE MakeGeneration(p) \/ WriteConfig(p) \/ WriteState(p)
  BY <1>2 DEF MakeGeneration, WriteConfig, WriteState, MakeDir, PutConfig, PutState, Put, Numbers
<1>3. CASE UnlinkCurrent(p) \/ LinkCurrent(p)
  BY <1>3 DEF UnlinkCurrent, LinkCurrent, Unlink, Link, Numbers
<1>4. CASE DeleteFile(p)
  BY <1>4 DEF DeleteFile, RemoveFile, Put, Numbers
<1>5. CASE DeleteDir(p)
  <2> DEFINE n == Min(run[p].victims)
  <2>1. n \in run[p].victims
    BY <1>5, MinIsLeast DEF DeleteDir, TypeOK, Run
  <2>2. Numbers' = Numbers \ {n} \/ Numbers' = Numbers
    BY <1>5 DEF DeleteDir, RemoveDir, Numbers
  <2> QED
    BY <2>1, <2>2
<1> QED
  BY <1>1, <1>2, <1>3, <1>4, <1>5 DEF ChangesStore

LEMMA HistoryGrows ==
  ASSUME TypeOK, AllCounted, [Next]_vars
  PROVE  \A m \in Numbers : \E k \in Numbers' : k >= m
<1>1. Numbers \subseteq Nat
  BY DEF TypeOK, StoreTypeOK, Numbers
<1>2. ASSUME NEW p \in Process, StepOf(p)
      PROVE  \A m \in Numbers : \E k \in Numbers' : k >= m
  <2>1. CASE Numbers \subseteq Numbers'
    BY <1>1, <2>1
  <2>2. ASSUME NEW n \in run[p].victims, Numbers' = Numbers \ {n}
        PROVE  \A m \in Numbers : \E k \in Numbers' : k >= m
    <3>1. PICK k \in Numbers : k > n
      BY DEF AllCounted, Counted
    <3>2. n \in Nat
      BY DEF TypeOK, Run
    <3>3. k \in Numbers' /\ k >= n
      BY <1>1, <2>2, <3>1, <3>2
    <3> QED
      BY <1>1, <2>2, <3>3
  <2> QED
    BY <1>2, <2>1, <2>2, NumbersStep
<1>3. CASE Administrator \/ UNCHANGED vars
  <2>1. Numbers' = Numbers
    BY <1>3 DEF Administrator, UserChanges, EditConfig, vars, Numbers
  <2> QED
    BY <1>1, <2>1
<1> QED
  BY <1>2, <1>3 DEF Next, StepOf

\* Whatever the history had reached, it still has.
LEMMA CountedStays ==
  ASSUME NEW M, NEW N, M \subseteq Nat, N \subseteq Nat, \A m \in M : \E k \in N : k >= m
  PROVE  /\ \A g \in Nat : Reaches(g, M) => Reaches(g, N)
         /\ \A r \in Run : Counted(r, M) => Counted(r, N)
<1>1. ASSUME NEW g \in Nat
      PROVE  /\ Reaches(g, M) => Reaches(g, N)
             /\ (\E m \in M : m > g) => \E m \in N : m > g
  BY DEF Reaches
<1>2. ASSUME NEW r \in Run, Counted(r, M)
      PROVE  Counted(r, N)
  <2>1. r.seen.generation \in Nat /\ r.victims \subseteq Nat
    BY DEF Run, Manifest
  <2>2. r.fresh # NoFile => r.fresh.generation \in Nat
    BY DEF Run, Manifest
  <2> QED
    BY <1>1, <1>2, <2>1, <2>2 DEF Counted
<1> QED
  BY <1>1, <1>2

LEMMA IdleCounted ==
  ASSUME NEW N
  PROVE  Counted(Idle, N)
BY DEF Counted, Reaches, Idle, EmptyManifest

\* A step that leaves what a command counts alone.
LEMMA SameCount ==
  ASSUME NEW N, NEW r, NEW s, Counted(r, N),
         s.seen = r.seen, s.victims \subseteq r.victims,
         \/ s.fresh = NoFile
         \/ s.fresh = r.fresh /\ s.pc = r.pc /\ s.number = r.number
         \/ /\ s.fresh = r.fresh
            /\ r.pc \in {"config", "state", "unlink", "link", "save", "saveSync"}
            /\ s.pc \notin {"number", "mkdir"}
  PROVE  Counted(s, N)
<1>1. Reaches(s.seen.generation, N) /\ \A n \in s.victims : \E m \in N : m > n
  BY DEF Counted
<1>2. CASE s.fresh = NoFile
  BY <1>1, <1>2 DEF Counted
<1>3. CASE s.fresh = r.fresh /\ s.pc = r.pc /\ s.number = r.number
  BY <1>1, <1>3 DEF Counted
<1>4. CASE /\ s.fresh = r.fresh
           /\ r.pc \in {"config", "state", "unlink", "link", "save", "saveSync"}
           /\ s.pc \notin {"number", "mkdir"}
  <2>1. r.fresh # NoFile => Reaches(r.fresh.generation, N)
    BY <1>4 DEF Counted
  <2> QED
    BY <1>1, <1>4, <2>1 DEF Counted
<1> QED
  BY <1>2, <1>3, <1>4

LEMMA OwnStepCounted ==
  ASSUME TypeOK, TypeOK', ControlOK, AllShaped, AllCounted, [Next]_vars,
         NEW p \in Process, StepOf(p)
  PROVE  Counted(run'[p], Numbers')
<1> USE DEF TypeOK, At, Goto
<1>1. /\ run[p] \in Run /\ run'[p] \in Run
      /\ Numbers \subseteq Nat /\ Numbers' \subseteq Nat
      /\ Shape(run[p])
      /\ stateFile # NoFile => stateFile.generation \in Nat
  BY DEF StoreTypeOK, Numbers, AllShaped, Manifest
<1>2. \A m \in Numbers : \E k \in Numbers' : k >= m
  BY HistoryGrows
<1>3. /\ Counted(run[p], Numbers) /\ Counted(run[p], Numbers')
      /\ stateFile # NoFile => Reaches(stateFile.generation, Numbers')
  BY <1>1, <1>2, CountedStays DEF AllCounted
<1>4. Leave(p) => Counted(run'[p], Numbers')
  BY IdleCounted DEF Leave
<1>5. CASE Load(p)
  <2> DEFINE m == IF stateFile = NoFile THEN EmptyManifest ELSE stateFile
  <2>1. Reaches(m.generation, Numbers')
    BY <1>3 DEF EmptyManifest, Reaches
  <2>2. run' = [run EXCEPT ![p].seen = m,
                           ![p].pc = IF run[p].verb = "sync" THEN "capture" ELSE "plan"]
    BY <1>5 DEF Load
  <2>3. run[p].fresh = NoFile
    BY <1>1, <1>5 DEF Load, Shape, Persisting
  <2> HIDE DEF m
  <2> QED
    BY <1>1, <1>3, <2>1, <2>2, <2>3 DEF Counted, Run
<1>6. ASSUME NEW partial \in BOOLEAN, run[p].pc = "change",
             LET m == BuildNewManifest(p, Completed(p), partial)
             IN  \/ run' = [run EXCEPT ![p].pc = "number", ![p].plan = NoChanges, ![p].fresh = m]
                 \/ run' = [run EXCEPT ![p].pc = "number", ![p].fresh = m]
      PROVE  Counted(run'[p], Numbers')
  <2> DEFINE m == BuildNewManifest(p, Completed(p), partial)
  <2>1. m.generation = run[p].seen.generation + 1
    BY DEF BuildNewManifest
  <2>2. \/ run' = [run EXCEPT ![p].pc = "number", ![p].plan = NoChanges, ![p].fresh = m]
        \/ run' = [run EXCEPT ![p].pc = "number", ![p].fresh = m]
    BY <1>6
  <2> HIDE DEF m
  <2> QED
    BY <1>1, <1>3, <2>1, <2>2 DEF Counted, Run
<1>7. CASE AllApplied(p) \/ ActionRaises(p) \/ Interrupt(p)
  BY <1>6, <1>7 DEF AllApplied, ActionRaises, Interrupt, PersistPartial
<1>8. CASE PickNumber(p)
  <2>1. NextNumber \in Nat /\ NextNumber >= 1 /\ \A n \in Numbers : NextNumber >= n + 1
    BY <1>1, NextNumberIsFresh DEF NoGen
  <2>2. /\ run'[p].pc = "mkdir" /\ run'[p].number = NextNumber /\ run[p].pc = "number"
        /\ run'[p].seen = run[p].seen /\ run'[p].fresh = run[p].fresh
        /\ run'[p].victims = run[p].victims
    BY <1>1, <1>8 DEF PickNumber, Run
  <2>3. run[p].seen.generation \in Nat
    BY <1>1 DEF Run, Manifest
  <2>4. run[p].seen.generation + 1 <= NextNumber
    BY <1>1, <1>3, <2>1, <2>3 DEF Counted, Reaches
  <2> QED
    BY <1>3, <2>2, <2>4 DEF Counted
<1>9. CASE MakeGeneration(p)
  <2>1. /\ run'[p].pc = "config" /\ run[p].pc = "mkdir"
        /\ run'[p].seen = run[p].seen /\ run'[p].fresh = run[p].fresh
        /\ run'[p].victims = run[p].victims
    BY <1>1, <1>9 DEF MakeGeneration, Run
  <2>2. run[p].number \in Numbers' /\ run[p].number \in Nat
    BY <1>1, <1>9 DEF MakeGeneration, MakeDir, Put, Numbers, Run
  <2>3. run[p].fresh # NoFile => Reaches(run[p].fresh.generation, Numbers')
    BY <1>1, <1>3, <2>1, <2>2 DEF Counted, Reaches, Run, Manifest
  <2> QED
    BY <1>3, <2>1, <2>3 DEF Counted
<1>10. CASE Capture(p)
  <2>1. PICK read : run' = [run EXCEPT ![p].pc = "saveSync", ![p].config = CapturedBy(p, read),
                                       ![p].fresh = SyncedManifest(p, read)]
    BY <1>10, CaptureEffect
  <2>2. SyncedManifest(p, read).generation = run[p].seen.generation
    BY DEF SyncedManifest
  <2> QED
    BY <1>1, <1>3, <2>1, <2>2 DEF Counted, Run
<1>11. ASSUME NEW keep \in KeepChoices, StartPrune(p, keep)
       PROVE  Counted(run'[p], Numbers')
  <2>1. /\ run' = [run EXCEPT ![p].pc = "delete", ![p].verb = "prune",
                              ![p].victims = Pruned(keep)]
        /\ run[p].pc = "idle" /\ Numbers' = Numbers
    BY <1>11 DEF StartPrune, Numbers
  <2>2. \A n \in Pruned(keep) : \E m \in Numbers : m > n
    BY VictimsAreOld, DasikAssumption
  <2> QED
    BY <1>1, <1>3, <2>1, <2>2 DEF Counted, Run
<1>12. CASE \/ WriteConfig(p) \/ WriteState(p) \/ UnlinkCurrent(p) \/ LinkCurrent(p)
            \/ SaveState(p) \/ SaveSync(p)
  BY <1>1, <1>3, <1>12, SameCount DEF WriteConfig, WriteState, UnlinkCurrent, LinkCurrent,
     SaveState, SaveSync, Run
<1>13. CASE \/ BuildPlan(p) \/ AcquireLock(p) \/ Proceed(p) \/ NextAction(p) \/ StartApply(p)
            \/ StartSync(p)
  BY <1>1, <1>3, <1>4, <1>13, SameCount DEF BuildPlan, AcquireLock, Proceed, NextAction,
     StartApply, StartSync, Shape, Run, Persisting
<1>14. ASSUME NEW i \in Item, AddItem(p, i) \/ DropItem(p, i) \/ ChangeFails(p, i)
       PROVE  Counted(run'[p], Numbers')
  <2>1. /\ run'[p].seen = run[p].seen /\ run'[p].victims = run[p].victims
        /\ run'[p].fresh = run[p].fresh /\ run'[p].pc = run[p].pc
        /\ run'[p].number = run[p].number
    BY <1>1, <1>14 DEF AddItem, DropItem, ChangeFails, Run, Plan
  <2> QED
    BY <1>3, <2>1, SameCount
<1>15. CASE RollbackNamed(p) \/ RollbackPrevious(p)
  <2>1. PICK n : RollbackTo(p, n)
    BY <1>15 DEF RollbackNamed, RollbackPrevious
  <2>2. /\ run'[p].seen = run[p].seen /\ run'[p].victims = run[p].victims
        /\ run'[p].fresh = NoFile
    BY <1>1, <2>1 DEF RollbackTo, Shape, Run, Persisting
  <2> QED
    BY <1>3, <2>2, SameCount
<1>16. CASE Restore(p) \/ DeleteFile(p) \/ DeleteDir(p)
  BY <1>1, <1>3, <1>16, SameCount DEF Restore, DeleteFile, DeleteDir, Shape, Run, Persisting
<1>17. CASE \/ LockBusy(p) \/ LinkExists(p) \/ Release(p) \/ RestoreRefused(p)
            \/ WriteBack(p) \/ PruneDone(p) \/ Decline(p) \/ Die(p)
  BY <1>4, <1>17 DEF LockBusy, LinkExists, Release, RestoreRefused, WriteBack,
     PruneDone, Decline, Die
<1> QED
  BY <1>5, <1>7, <1>8, <1>9, <1>10, <1>11, <1>12, <1>13, <1>14, <1>15, <1>16, <1>17
     DEF StepOf, Work, Decide, Misfortune

LEMMA CountedStep ==
  ASSUME TypeOK, TypeOK', ControlOK, AllShaped, AllCounted, [Next]_vars
  PROVE  AllCounted'
<1>1. /\ Numbers \subseteq Nat /\ Numbers' \subseteq Nat
      /\ \A p \in Process : run[p] \in Run
      /\ stateFile # NoFile => stateFile.generation \in Nat
  BY DEF TypeOK, StoreTypeOK, Numbers, Manifest
<1>2. \A m \in Numbers : \E k \in Numbers' : k >= m
  BY HistoryGrows
<1>3. ASSUME NEW p \in Process
      PROVE  Counted(run'[p], Numbers')
  <2>1. CASE StepOf(p)
    BY <2>1, OwnStepCounted
  <2>2. CASE run'[p] = run[p]
    BY <1>1, <1>2, <2>2, CountedStays DEF AllCounted
  <2> QED
    BY <2>1, <2>2, StepIsOwnOrOthers
<1>4. CASE stateFile' = stateFile
  BY <1>1, <1>2, <1>3, <1>4, CountedStays DEF AllCounted
<1>5. ASSUME NEW p \in Process, SaveState(p) \/ SaveSync(p)
      PROVE  AllCounted'
  <2>1. /\ stateFile' = run[p].fresh /\ run[p].pc \in {"save", "saveSync"}
        /\ Numbers' = Numbers
    BY <1>5 DEF SaveState, SaveSync, At, Numbers
  <2>2. stateFile' # NoFile => Reaches(stateFile'.generation, Numbers')
    BY <2>1 DEF AllCounted, Counted
  <2> QED
    BY <1>3, <2>2 DEF AllCounted
<1>6. CASE Administrator \/ UNCHANGED vars
  BY <1>4, <1>6 DEF Administrator, UserChanges, EditConfig, vars
<1> QED
  BY <1>4, <1>5, <1>6, ManifestSteps DEF Next, StepOf, SavesManifest

\* The manifest never counts further than the history it describes, whatever
\* runs at the same time, fails, dies or prunes: new() comes before save(), and
\* prune keeps the newest generation (Reconciler._persist,
\* GenerationStore.prune).
THEOREM ManifestNeverAhead == Spec => []ManifestBehindHistory
<1> DEFINE IInv == TypeOK /\ ControlOK /\ AllShaped /\ AllCounted
<1>1. Init => IInv
  <2>1. Init => ControlOK
    BY DEF Init, ControlOK, Idle, Persisting
  <2>2. Init => AllShaped /\ AllCounted
    BY IdleShape, IdleCounted DEF Init, AllShaped, AllCounted
  <2> QED
    BY <2>1, <2>2, TypeInit
<1>2. IInv /\ [Next]_vars => IInv'
  BY TypeStep, ControlStep, ShapeStep, CountedStep
<1>3. IInv => ManifestBehindHistory
  BY DEF AllCounted, Reaches, ManifestBehindHistory
<1> QED
  BY <1>1, <1>2, <1>3, PTL DEF Spec

-----------------------------------------------------------------------------
(***************************************************************************)
(* The history itself, as long as one command at a time writes it          *)
(***************************************************************************)

\* The command is filling the directory of a new generation, or pointing
\* `current' at it.
Writing(r) == r.pc \in {"config", "state", "unlink", "link"} /\ r.fresh # NoFile

\* The command is a rollback that restored a generation.
Restored(r) ==
  /\ r.verb = "rollback" /\ r.fresh = NoFile
  /\ r.pc \in {"unlink", "link"} \cup Planning \cup Applying

\* What the directory of the generation being written holds by now.
WrittenSoFar(r) ==
  [config |-> IF r.pc = "config" THEN NoFile ELSE r.config,
   state  |-> IF r.pc \in {"config", "state"} THEN NoFile ELSE r.fresh]

\* The new generation is the newest one and holds what its command wrote,
\* nothing else; the restored one is still whole; what `current' names is not
\* about to be pruned.
Written(p) ==
  LET r == run[p] IN
    /\ r.pc = "mkdir" => \A n \in Numbers : r.number > n
    /\ Writing(r) => /\ r.number \in Numbers
                     /\ \A n \in Numbers : r.number >= n
                     /\ gens[r.number] = WrittenSoFar(r)
    /\ Restored(r) => IsRestorable(r.number)
    /\ r.pc = "link" => current = NoGen
    /\ current \notin r.victims

HistorySound ==
  OneWriterAtATime => /\ CurrentIsWhole /\ GenerationCoherent
                      /\ \A p \in Process : Written(p)

\* The inductive invariant.
HistoryInv == TypeOK /\ ControlOK /\ LockHeld /\ AllShaped /\ AllCounted /\ HistorySound

LEMMA WriterIsAlone ==
  ASSUME TypeOK, LockHeld, AllShaped, OneWriterAtATime,
         NEW p \in Process, NEW q \in Process, p # q
  PROVE  /\ ~Restored(run[q])
         /\ run[p].pc \in Persisting => run[q].pc \notin Persisting
<1>1. LockFileUsable /\ "rollback" \notin Verbs
  BY DEF OneWriterAtATime, OneCommandAtATime
<1>2. run[p].verb # "rollback" /\ run[q].verb # "rollback"
  BY <1>1 DEF AllShaped, Shape
<1>3. \A x \in Process : run[x].pc \in Persisting => lock = x
  BY <1>1 DEF AllShaped, Shape, LockHeld, Inside
<1> QED
  BY <1>2, <1>3 DEF Restored

LEMMA PutEffect ==
  ASSUME NEW n, NEW g, Put(n, g)
  PROVE  /\ Numbers' = Numbers \cup {n}
         /\ gens'[n] = g
         /\ \A m \in Numbers \ {n} : gens'[m] = gens[m]
BY DEF Put, Numbers

\* A deletion empties or removes one victim's directory and nothing else.
LEMMA DeletionEffect ==
  ASSUME TypeOK, NEW p \in Process, DeleteFile(p) \/ DeleteDir(p)
  PROVE  \E n \in run[p].victims :
           /\ current' = current /\ Numbers' \subseteq Numbers
           /\ \A m \in Numbers \ {n} : m \in Numbers' /\ gens'[m] = gens[m]
           /\ n \in Numbers' => /\ gens'[n].config \in {gens[n].config, NoFile}
                                /\ gens'[n].state \in {gens[n].state, NoFile}
                                /\ gens'[n].config = NoFile \/ gens'[n].state = NoFile
           /\ run'[p].pc = "delete" /\ run[p].pc = "delete"
           /\ run'[p].victims \in {run[p].victims, run[p].victims \ {n}}
<1> DEFINE n == Min(run[p].victims)
<1>1. n \in run[p].victims /\ run[p] \in Run
  BY MinIsLeast DEF DeleteFile, DeleteDir, TypeOK, Run
<1>2. CASE DeleteFile(p)
  <2>1. /\ n \in Numbers /\ current' = current /\ run' = run /\ run[p].pc = "delete"
        /\ \/ Put(n, [gens[n] EXCEPT !.config = NoFile])
           \/ Put(n, [gens[n] EXCEPT !.state = NoFile])
    BY <1>2 DEF DeleteFile, RemoveFile, At
  <2>2. gens[n] \in Generation
    BY <2>1 DEF TypeOK, StoreTypeOK, Numbers
  <2> HIDE DEF n
  <2>3. /\ Numbers' = Numbers
        /\ \A m \in Numbers \ {n} : gens'[m] = gens[m]
        /\ \/ gens'[n] = [gens[n] EXCEPT !.config = NoFile]
           \/ gens'[n] = [gens[n] EXCEPT !.state = NoFile]
    BY <2>1, PutEffect
  <2>4. /\ gens'[n].config \in {gens[n].config, NoFile}
        /\ gens'[n].state \in {gens[n].state, NoFile}
        /\ gens'[n].config = NoFile \/ gens'[n].state = NoFile
    BY <2>2, <2>3 DEF Generation
  <2> QED
    BY <1>1, <2>1, <2>3, <2>4
<1>3. CASE DeleteDir(p)
  <2>1. /\ run' = [run EXCEPT ![p].victims = @ \ {n}] /\ run[p].pc = "delete"
        /\ IF n \in Numbers THEN RemoveDir(n) ELSE UNCHANGED <<gens, current>>
    BY <1>3 DEF DeleteDir, At
  <2> HIDE DEF n
  <2>2. run'[p].pc = "delete" /\ run'[p].victims = run[p].victims \ {n}
    BY <1>1, <2>1 DEF TypeOK, Run
  <2>3. /\ current' = current /\ n \notin Numbers' /\ Numbers' \subseteq Numbers
        /\ \A m \in Numbers \ {n} : m \in Numbers' /\ gens'[m] = gens[m]
    BY <2>1 DEF RemoveDir, Numbers
  <2> QED
    BY <1>1, <2>1, <2>2, <2>3
<1> QED
  BY <1>2, <1>3

\* What prune is about to delete never includes what `current' names.
LEMMA VictimsAreNotCurrent ==
  ASSUME NEW keep
  PROVE  current \notin Pruned(keep)
BY DEF Pruned, Survivors

LEMMA StoreKeepsSound ==
  ASSUME CurrentIsWhole, GenerationCoherent, UNCHANGED storeVars
  PROVE  CurrentIsWhole' /\ GenerationCoherent'
BY DEF storeVars, CurrentIsWhole, GenerationCoherent, Numbers, Whole

LEMMA SameRecordWritten ==
  ASSUME NEW p \in Process, Written(p), UNCHANGED storeVars, run'[p] = run[p]
  PROVE  Written(p)'
BY DEF storeVars, Written, Numbers, IsRestorable, IsPartial, Whole

\* A command moves on without touching the store: it is not between mkdir and
\* the link then, and it restores nothing new.
LEMMA QuietWritten ==
  ASSUME NEW p \in Process, Written(p), UNCHANGED storeVars,
         run'[p].pc \notin {"mkdir", "config", "state", "unlink", "link"},
         run'[p].victims = {} \/ run'[p].victims = run[p].victims,
         Restored(run'[p]) => Restored(run[p]) /\ run'[p].number = run[p].number
  PROVE  Written(p)'
<1>1. current' \notin run'[p].victims
  BY DEF Written, storeVars
<1>2. Restored(run'[p]) => IsRestorable(run[p].number)'
  BY DEF Written, storeVars, IsRestorable, IsPartial, Whole, Numbers
<1> QED
  BY <1>1, <1>2 DEF Written, Writing

LEMMA OwnQuietWritten ==
  ASSUME HistoryInv, NEW p \in Process, Written(p), StepOf(p), ~ChangesStore(p)
  PROVE  Written(p)'
<1> USE DEF TypeOK, At, Goto
<1>1. /\ run[p] \in Run /\ Shape(run[p]) /\ UNCHANGED storeVars
      /\ run[p].pc = "restore" => run[p].verb = "rollback"
  BY StoreSteps DEF HistoryInv, AllShaped, ControlOK
<1>2. Leave(p) => Written(p)'
  <2>1. Leave(p) => run'[p] = Idle
    BY <1>1 DEF Leave, HistoryInv
  <2> QED
    BY <1>1, <2>1, QuietWritten DEF Idle, Restored, Planning, Applying
<1>3. CASE Load(p) \/ AcquireLock(p) \/ Proceed(p) \/ NextAction(p) \/ StartApply(p) \/ StartSync(p)
  <2>1. /\ run'[p].pc \in {"load", "plan", "capture", "confirm", "change"}
        /\ run'[p].victims = run[p].victims /\ run'[p].fresh = run[p].fresh
        /\ run'[p].number = run[p].number
        /\ run'[p].verb = "rollback" => /\ run'[p].verb = run[p].verb
                                        /\ run[p].pc \in {"lock"} \cup Planning \cup Applying
    BY <1>1, <1>3 DEF HistoryInv, Load, AcquireLock, Proceed, NextAction, StartApply, StartSync,
       Run, Planning, Applying
  <2> QED
    BY <1>1, <2>1, QuietWritten DEF Restored, Shape
<1>4. CASE BuildPlan(p)
  <2> DEFINE plan == PlanOf(run[p].config, run[p].seen)
  <2>1. Leave(p) \/ run' = [run EXCEPT ![p].plan = plan,
                              ![p].pc = IF run[p].verb = "apply" THEN "lock" ELSE "confirm"]
    BY <1>4 DEF BuildPlan
  <2> HIDE DEF plan
  <2>2. run[p].pc = "plan"
    BY <1>4 DEF BuildPlan
  <2> QED
    BY <1>1, <1>2, <2>1, <2>2, QuietWritten DEF HistoryInv, Restored, Run, Planning, Applying
<1>5. ASSUME NEW i \in Item, AddItem(p, i) \/ DropItem(p, i) \/ ChangeFails(p, i)
      PROVE  Written(p)'
  <2>1. /\ run'[p].verb = run[p].verb /\ run'[p].victims = run[p].victims
        /\ run'[p].fresh = run[p].fresh /\ run'[p].pc = "change" /\ run[p].pc = "change"
        /\ run'[p].number = run[p].number
    BY <1>1, <1>5 DEF HistoryInv, AddItem, DropItem, ChangeFails, Run, Plan
  <2> QED
    BY <1>1, <2>1, QuietWritten DEF Restored
<1>6. CASE AllApplied(p) \/ ActionRaises(p) \/ Interrupt(p)
  <2>1. PICK m, plan : run' = [run EXCEPT ![p].pc = "number", ![p].plan = plan, ![p].fresh = m]
                       \/ run' = [run EXCEPT ![p].pc = "number", ![p].fresh = m]
    BY <1>6 DEF AllApplied, ActionRaises, Interrupt, PersistPartial
  <2>2. run'[p].pc = "number" /\ run'[p].victims = run[p].victims
    BY <1>1, <2>1 DEF HistoryInv, Run
  <2> QED
    BY <1>1, <2>2, QuietWritten DEF Restored, Planning, Applying
<1>7. CASE PickNumber(p)
  <2>1. /\ run'[p].pc = "mkdir" /\ run'[p].number = NextNumber
        /\ run'[p].victims = run[p].victims
    BY <1>1, <1>7 DEF HistoryInv, PickNumber, Run
  <2>2. \A n \in Numbers : NextNumber > n
    BY NextNumberIsFresh DEF HistoryInv
  <2>3. Numbers' = Numbers /\ current' = current
    BY <1>1 DEF storeVars, Numbers
  <2> QED
    BY <2>1, <2>2, <2>3 DEF Written, Writing, Restored, Planning, Applying
<1>8. CASE RollbackNamed(p) \/ RollbackPrevious(p)
  <2>1. PICK n : RollbackTo(p, n)
    BY <1>8 DEF RollbackNamed, RollbackPrevious
  <2>2. run'[p].pc = "restore" /\ run'[p].victims = run[p].victims
    BY <1>1, <2>1 DEF HistoryInv, RollbackTo, Run
  <2> QED
    BY <1>1, <2>2, QuietWritten DEF Restored, Planning, Applying
<1>9. CASE Restore(p)
  <2> DEFINE c == Expand(gens[run[p].number].config)
  <2>1. run' = [run EXCEPT ![p].pc = "unlink", ![p].config = c]
    BY <1>9 DEF Restore
  <2> HIDE DEF c
  <2>2. /\ run'[p].pc = "unlink" /\ run'[p].victims = run[p].victims
        /\ run'[p].number = run[p].number /\ run'[p].fresh = run[p].fresh
    BY <1>1, <2>1 DEF HistoryInv, Run
  <2>3. run[p].fresh = NoFile /\ IsRestorable(run[p].number)
    BY <1>1, <1>9 DEF Restore, Shape, Persisting
  <2>4. IsRestorable(run[p].number)'
    BY <1>1, <2>2, <2>3 DEF storeVars, IsRestorable, IsPartial, Whole, Numbers
  <2>5. current' \notin run'[p].victims
    BY <1>1, <2>2 DEF Written, storeVars
  <2> QED
    BY <2>2, <2>3, <2>4, <2>5 DEF Written, Writing
<1>10. CASE Capture(p)
  <2>1. PICK read : run' = [run EXCEPT ![p].pc = "saveSync", ![p].config = CapturedBy(p, read),
                                       ![p].fresh = SyncedManifest(p, read)]
    BY <1>10, CaptureEffect
  <2>2. run'[p].pc = "saveSync" /\ run'[p].victims = run[p].victims
    BY <1>1, <2>1 DEF HistoryInv, Run
  <2> QED
    BY <1>1, <2>2, QuietWritten DEF Restored, Planning, Applying
<1>11. CASE SaveState(p) \/ SaveSync(p)
  <2>1. run'[p].pc \in {"release", "writeBack"} /\ run'[p].victims = run[p].victims
    BY <1>1, <1>11 DEF HistoryInv, SaveState, SaveSync, Run
  <2> QED
    BY <1>1, <2>1, QuietWritten DEF Restored, Planning, Applying
<1>12. ASSUME NEW keep \in KeepChoices, StartPrune(p, keep)
       PROVE  Written(p)'
  <2>1. run' = [run EXCEPT ![p].pc = "delete", ![p].verb = "prune",
                           ![p].victims = Pruned(keep)]
    BY <1>12 DEF StartPrune
  <2>2. run'[p].pc = "delete" /\ run'[p].victims = Pruned(keep)
    BY <1>1, <2>1 DEF HistoryInv, Run
  <2>3. current' \notin run'[p].victims
    BY <1>1, <2>2, VictimsAreNotCurrent DEF storeVars
  <2> QED
    BY <2>2, <2>3 DEF Written, Writing, Restored, Planning, Applying
<1>13. CASE \/ LockBusy(p) \/ LinkExists(p) \/ Release(p) \/ RestoreRefused(p)
            \/ WriteBack(p) \/ PruneDone(p) \/ Decline(p) \/ Die(p)
  BY <1>2, <1>13 DEF LockBusy, LinkExists, Release, RestoreRefused, WriteBack,
     PruneDone, Decline, Die
<1> QED
  BY <1>3, <1>4, <1>5, <1>6, <1>7, <1>8, <1>9, <1>10, <1>11, <1>12, <1>13
     DEF StepOf, Work, Decide, Misfortune, ChangesStore

\* While a command writes, the others do not: only what `current' names could
\* concern them.
LEMMA OthersWritten ==
  ASSUME HistoryInv, OneWriterAtATime, NEW p \in Process, NEW q \in Process, p # q,
         run[p].pc \in Persisting, run'[q] = run[q], current' \notin run[q].victims
  PROVE  Written(q)'
<1>1. ~Restored(run[q]) /\ run[q].pc \notin Persisting
  BY WriterIsAlone DEF HistoryInv
<1> QED
  BY <1>1 DEF Written, Writing, Persisting

\* The three steps that fill the directory of a new generation.
LEMMA DirectoryEffect ==
  ASSUME HistoryInv, NEW p \in Process, Written(p),
         MakeGeneration(p) \/ WriteConfig(p) \/ WriteState(p)
  PROVE  LET n == run[p].number IN
           /\ Put(n, WrittenSoFar(run'[p])) /\ current' = current
           /\ n \in Numbers => gens[n].config \in {run'[p].config, NoFile} /\ gens[n].state = NoFile
           /\ \A m \in Numbers : n >= m
           /\ run[p].pc \in Persisting
           /\ run'[p].pc \in {"config", "state", "unlink"}
           /\ run'[p].number = n /\ run'[p].victims = {}
           /\ run'[p].fresh # NoFile /\ run'[p].fresh.hash = run'[p].config
<1> DEFINE n == run[p].number
<1> USE DEF TypeOK, At, Goto
<1>1. /\ run[p] \in Run /\ Shape(run[p]) /\ n \in Nat /\ Numbers \subseteq Nat
  BY DEF HistoryInv, AllShaped, Run, StoreTypeOK, Numbers
<1>2. /\ run[p].pc \in {"mkdir", "config", "state"}
      /\ run'[p].pc = IF run[p].pc = "mkdir" THEN "config"
                      ELSE IF run[p].pc = "config" THEN "state" ELSE "unlink"
      /\ run'[p].number = n /\ run'[p].config = run[p].config
      /\ run'[p].fresh = run[p].fresh /\ run'[p].victims = run[p].victims
  BY <1>1 DEF HistoryInv, MakeGeneration, WriteConfig, WriteState, Run
<1>3. /\ run[p].fresh # NoFile /\ run[p].fresh.hash = run[p].config
      /\ run[p].victims = {}
  BY <1>1, <1>2 DEF Shape, Persisting
<1>4. CASE MakeGeneration(p)
  <2>1. run[p].pc = "mkdir" /\ \A m \in Numbers : n > m
    BY <1>4 DEF MakeGeneration, Written
  <2>2. n \notin Numbers
    BY <1>1, <2>1
  <2>3. Put(n, EmptyDir) /\ current' = current
    <3>1. Entry(n) = EmptyDir
      BY <2>2 DEF Entry
    <3> QED
      BY <1>4, <3>1 DEF MakeGeneration, MakeDir
  <2>4. WrittenSoFar(run'[p]) = EmptyDir
    BY <1>2, <2>1 DEF WrittenSoFar, EmptyDir
  <2>5. \A m \in Numbers : n >= m
    BY <1>1, <2>1
  <2> QED
    BY <1>2, <1>3, <2>1, <2>2, <2>3, <2>4, <2>5 DEF Persisting
<1>5. CASE WriteConfig(p) \/ WriteState(p)
  <2>1. /\ run[p].pc \in {"config", "state"}
        /\ run[p].pc = "config" => PutConfig(n, run[p].config)
        /\ run[p].pc = "state" => PutState(n, run[p].fresh)
    BY <1>5 DEF WriteConfig, WriteState
  <2>2. n \in Numbers /\ (\A m \in Numbers : n >= m) /\ gens[n] = WrittenSoFar(run[p])
    BY <1>3, <2>1 DEF Written, Writing
  <2>3. /\ Entry(n) = WrittenSoFar(run[p])
        /\ gens[n].config \in {run'[p].config, NoFile} /\ gens[n].state = NoFile
    BY <1>2, <2>1, <2>2 DEF Entry, WrittenSoFar
  <2>4. Put(n, WrittenSoFar(run'[p])) /\ current' = current
    BY <1>2, <2>1, <2>3 DEF PutConfig, PutState, WrittenSoFar
  <2> QED
    BY <1>2, <1>3, <2>2, <2>3, <2>4 DEF Persisting
<1> QED
  BY <1>4, <1>5

LEMMA DirectoryKeepsSound ==
  ASSUME HistoryInv, OneWriterAtATime, NEW p \in Process,
         CurrentIsWhole, GenerationCoherent, \A q \in Process : Written(q),
         \A q \in Process : q # p => run'[q] = run[q],
         MakeGeneration(p) \/ WriteConfig(p) \/ WriteState(p)
  PROVE  /\ CurrentIsWhole' /\ GenerationCoherent'
         /\ \A q \in Process : Written(q)'
<1> DEFINE n == run[p].number
           g == WrittenSoFar(run'[p])
<1>1. /\ Put(n, g) /\ current' = current
      /\ n \in Numbers => gens[n].state = NoFile
      /\ \A m \in Numbers : n >= m
      /\ run[p].pc \in Persisting
      /\ run'[p].pc \in {"config", "state", "unlink"}
      /\ run'[p].number = n /\ run'[p].victims = {}
      /\ run'[p].fresh # NoFile /\ run'[p].fresh.hash = run'[p].config
  BY DirectoryEffect
<1>2. n \in Nat
  BY DEF HistoryInv, TypeOK, Run
<1> HIDE DEF n, g
<1>3. /\ Numbers' = Numbers \cup {n} /\ gens'[n] = g
      /\ \A m \in Numbers \ {n} : gens'[m] = gens[m]
  BY <1>1, PutEffect
<1>4. CurrentIsWhole'
  BY <1>1, <1>3 DEF CurrentIsWhole, Whole
<1>5. g.config # NoFile /\ g.state # NoFile => g.state.hash = g.config
  BY <1>1 DEF g, WrittenSoFar
<1>6. GenerationCoherent'
  BY <1>3, <1>5 DEF GenerationCoherent, Whole
<1>7. Written(p)'
  BY <1>1, <1>2, <1>3 DEF Written, Writing, Restored, g
<1>8. ASSUME NEW q \in Process, q # p
      PROVE  Written(q)'
  <2>1. current' \notin run[q].victims
    BY <1>1 DEF Written
  <2> QED
    BY <1>1, <1>8, <2>1, OthersWritten
<1> QED
  BY <1>4, <1>6, <1>7, <1>8

\* The link is replaced.
LEMMA LinkKeepsSound ==
  ASSUME HistoryInv, OneWriterAtATime, NEW p \in Process,
         CurrentIsWhole, GenerationCoherent, \A q \in Process : Written(q),
         \A q \in Process : q # p => run'[q] = run[q],
         UnlinkCurrent(p) \/ LinkCurrent(p)
  PROVE  /\ CurrentIsWhole' /\ GenerationCoherent'
         /\ \A q \in Process : Written(q)'
<1> DEFINE r == run[p]
<1> USE DEF TypeOK, At, Goto
<1>1. /\ r \in Run /\ Shape(r) /\ r.pc \in {"unlink", "link"} /\ r.pc \in Persisting
      /\ \A q \in Process : run[q].victims \subseteq Nat
      /\ gens' = gens /\ Numbers' = Numbers /\ Numbers \subseteq Nat /\ 0 \notin Numbers
  BY DEF HistoryInv, AllShaped, UnlinkCurrent, LinkCurrent, Unlink, Link, Numbers, Persisting,
     StoreTypeOK, NoGen, Run
<1>2. /\ run'[p].number = r.number /\ run'[p].fresh = r.fresh /\ run'[p].verb = r.verb
      /\ run'[p].config = r.config /\ run'[p].victims = {}
      /\ run'[p].pc = IF r.pc = "unlink" THEN "link" ELSE IF r.fresh = NoFile THEN "load" ELSE "save"
      /\ current' = IF r.pc = "unlink" THEN NoGen ELSE r.number
  BY <1>1 DEF HistoryInv, UnlinkCurrent, LinkCurrent, Unlink, Link, Shape, Run
<1>3. /\ Writing(r) \/ Restored(r)
      /\ r.number \in Numbers /\ Whole(r.number)
      /\ Writing(r) => /\ \A n \in Numbers : r.number >= n
                       /\ gens[r.number] = WrittenSoFar(r)
      /\ Restored(r) => IsRestorable(r.number)
  <2>1. Writing(r) \/ Restored(r)
    BY <1>1 DEF Shape, Writing, Restored
  <2>2. r.config # NoFile
    BY <1>1, DasikAssumption DEF Run
  <2> QED
    BY <1>1, <2>1, <2>2 DEF Written, IsRestorable, Whole, Writing, WrittenSoFar
<1>4. CurrentIsWhole'
  BY <1>1, <1>2, <1>3 DEF CurrentIsWhole, Whole
<1>5. GenerationCoherent'
  BY <1>1 DEF GenerationCoherent, Whole
<1>6. IsRestorable(r.number) => IsRestorable(run[p].number)'
  BY <1>1, <1>2 DEF IsRestorable, IsPartial, Whole
<1>7. Written(p)'
  <2>1. Writing(run'[p]) => /\ Writing(r) /\ WrittenSoFar(run'[p]) = WrittenSoFar(r)
    BY <1>1, <1>2 DEF Writing, WrittenSoFar
  <2>2. Restored(run'[p]) => Restored(r)
    BY <1>1, <1>2 DEF Restored
  <2> QED
    BY <1>1, <1>2, <1>3, <1>6, <2>1, <2>2 DEF Written
<1>8. ASSUME NEW q \in Process, q # p
      PROVE  Written(q)'
  <2>1. Writing(r)
    BY <1>3, <1>8, WriterIsAlone DEF HistoryInv
  <2>2. \A n \in run[q].victims : \E m \in Numbers : m > n
    BY DEF HistoryInv, AllCounted, Counted
  <2>3. NoGen \notin run[q].victims
    BY DEF HistoryInv, AllShaped, Shape
  <2>4. current' \notin run[q].victims
    BY <1>1, <1>2, <1>3, <2>1, <2>2, <2>3 DEF NoGen
  <2> QED
    BY <1>1, <1>8, <2>4, OthersWritten
<1> QED
  BY <1>4, <1>5, <1>7, <1>8

\* A prune takes one old generation apart.
LEMMA DeletionKeepsSound ==
  ASSUME HistoryInv, OneWriterAtATime, NEW p \in Process,
         CurrentIsWhole, GenerationCoherent, \A q \in Process : Written(q),
         \A q \in Process : q # p => run'[q] = run[q],
         DeleteFile(p) \/ DeleteDir(p)
  PROVE  /\ CurrentIsWhole' /\ GenerationCoherent'
         /\ \A q \in Process : Written(q)'
<1>1. PICK n \in run[p].victims :
        /\ current' = current /\ Numbers' \subseteq Numbers
        /\ \A m \in Numbers \ {n} : m \in Numbers' /\ gens'[m] = gens[m]
        /\ n \in Numbers' => /\ gens'[n].config \in {gens[n].config, NoFile}
                             /\ gens'[n].state \in {gens[n].state, NoFile}
                             /\ gens'[n].config = NoFile \/ gens'[n].state = NoFile
        /\ run'[p].pc = "delete" /\ run[p].pc = "delete"
        /\ run'[p].victims \in {run[p].victims, run[p].victims \ {n}}
  BY DeletionEffect DEF HistoryInv
<1>2. n \in Nat /\ n # current /\ (\E m \in Numbers : m > n) /\ Numbers \subseteq Nat
  BY DEF HistoryInv, TypeOK, Run, Written, AllCounted, Counted, StoreTypeOK, Numbers
<1>3. CurrentIsWhole'
  BY <1>1, <1>2 DEF CurrentIsWhole, Whole
<1>4. GenerationCoherent'
  BY <1>1 DEF GenerationCoherent, Whole
<1>5. Written(p)'
  BY <1>1 DEF Written, Writing, Restored, Planning, Applying
<1>6. ASSUME NEW q \in Process, q # p
      PROVE  Written(q)'
  <2>1. ~Restored(run[q])
    BY <1>6, WriterIsAlone DEF HistoryInv
  <2>2. run[q].number \in Nat
    BY DEF HistoryInv, TypeOK, Run
  <2>3. Writing(run[q]) => run[q].number # n /\ run[q].number \in Numbers
    BY <1>2, <2>2 DEF Written
  <2> QED
    BY <1>1, <1>6, <2>1, <2>3 DEF Written
<1> QED
  BY <1>3, <1>4, <1>5, <1>6

LEMMA HistorySoundStep ==
  ASSUME HistoryInv, [Next]_vars
  PROVE  HistorySound'
<1> SUFFICES ASSUME OneWriterAtATime
             PROVE  /\ CurrentIsWhole' /\ GenerationCoherent'
                    /\ \A q \in Process : Written(q)'
  BY DEF HistorySound, OneWriterAtATime, OneCommandAtATime
<1>1. CurrentIsWhole /\ GenerationCoherent /\ \A q \in Process : Written(q)
  BY DEF HistoryInv, HistorySound
<1>2. ASSUME NEW p \in Process, StepOf(p)
      PROVE  /\ CurrentIsWhole' /\ GenerationCoherent'
             /\ \A q \in Process : Written(q)'
  <2>1. \A q \in Process : q # p => run'[q] = run[q]
    BY <1>2, OthersKeepTheirRecord DEF HistoryInv
  <2>2. CASE ~ChangesStore(p)
    <3>1. UNCHANGED storeVars
      BY <1>2, <2>2, StoreSteps
    <3>2. Written(p)'
      BY <1>1, <1>2, <2>2, OwnQuietWritten
    <3>3. \A q \in Process : q # p => Written(q)'
      BY <1>1, <2>1, <3>1, SameRecordWritten
    <3> QED
      BY <1>1, <3>1, <3>2, <3>3, StoreKeepsSound
  <2>3. CASE MakeGeneration(p) \/ WriteConfig(p) \/ WriteState(p)
    BY <1>1, <2>1, <2>3, DirectoryKeepsSound
  <2>4. CASE UnlinkCurrent(p) \/ LinkCurrent(p)
    BY <1>1, <2>1, <2>4, LinkKeepsSound
  <2>5. CASE DeleteFile(p) \/ DeleteDir(p)
    BY <1>1, <2>1, <2>5, DeletionKeepsSound
  <2> QED
    BY <2>2, <2>3, <2>4, <2>5 DEF ChangesStore
<1>3. CASE Administrator \/ UNCHANGED vars
  <2>1. UNCHANGED storeVars /\ run' = run
    BY <1>3 DEF Administrator, UserChanges, EditConfig, vars, storeVars
  <2> QED
    BY <1>1, <2>1, StoreKeepsSound, SameRecordWritten
<1> QED
  BY <1>2, <1>3 DEF Next, StepOf

LEMMA HistoryInvHolds ==
  /\ Init => HistoryInv
  /\ HistoryInv /\ [Next]_vars => HistoryInv'
<1>1. Init => HistoryInv
  <2>1. Init => ControlOK /\ LockHeld
    BY DEF Init, ControlOK, LockHeld, Inside, Idle, Persisting
  <2>2. Init => AllShaped /\ AllCounted
    BY IdleShape, IdleCounted DEF Init, AllShaped, AllCounted
  <2>3. Init => HistorySound
    BY DEF Init, StoreInit, HistorySound, CurrentIsWhole, GenerationCoherent, Numbers, Written,
       Writing, Restored, Idle, Planning, Applying
  <2> QED
    BY <2>1, <2>2, <2>3, TypeInit DEF HistoryInv
<1>2. HistoryInv /\ [Next]_vars => HistoryInv'
  BY TypeStep, ControlStep, LockStep, ShapeStep, CountedStep, HistorySoundStep DEF HistoryInv
<1> QED
  BY <1>1, <1>2

\* Where the lock keeps two writers apart, and nothing that does not take it
\* writes, the history is sound through every failure and death, however many
\* processes apply, sync and prune: what `current' names is whole, no
\* generation mixes two applies, and a rollback converges what is complete
\* (GenerationStore.new, restore and prune, apply_lock.py).
THEOREM GenerationsAreSound ==
  Spec => [](OneWriterAtATime => CurrentIsWhole /\ GenerationCoherent /\ RollbackToCompleteOnly)
<1>1. HistoryInv =>
        (OneWriterAtATime => CurrentIsWhole /\ GenerationCoherent /\ RollbackToCompleteOnly)
  BY DEF HistoryInv, HistorySound, RollbackToCompleteOnly, Written, Restored
<1> QED
  BY <1>1, HistoryInvHolds, PTL DEF Spec

\* What AppendOnly asks of one step.
Appends ==
  /\ \A n \in Numbers \cap Numbers' :
       /\ gens[n].config # NoFile => gens'[n].config \in {gens[n].config, NoFile}
       /\ gens[n].state # NoFile => gens'[n].state \in {gens[n].state, NoFile}
  /\ \A n \in Numbers' \ Numbers, m \in Numbers : n > m

LEMMA StepAppends ==
  ASSUME HistoryInv, OneWriterAtATime, [Next]_vars
  PROVE  Appends \/ UNCHANGED storeVars
<1>1. ASSUME NEW p \in Process, StepOf(p)
      PROVE  Appends \/ UNCHANGED storeVars
  <2>1. Written(p)
    BY DEF HistoryInv, HistorySound
  <2>2. CASE MakeGeneration(p) \/ WriteConfig(p) \/ WriteState(p)
    <3> DEFINE n == run[p].number
    <3>1. /\ Put(n, WrittenSoFar(run'[p]))
          /\ n \in Numbers => gens[n].config \in {run'[p].config, NoFile} /\ gens[n].state = NoFile
          /\ \A m \in Numbers : n >= m
      BY <2>1, <2>2, DirectoryEffect
    <3>2. n \in Nat /\ Numbers \subseteq Nat
      BY DEF HistoryInv, TypeOK, Run, StoreTypeOK, Numbers
    <3> HIDE DEF n
    <3>3. /\ Numbers' = Numbers \cup {n} /\ gens'[n] = WrittenSoFar(run'[p])
          /\ \A m \in Numbers \ {n} : gens'[m] = gens[m]
      BY <3>1, PutEffect
    <3>4. gens'[n].config \in {run'[p].config, NoFile}
      BY <3>3 DEF WrittenSoFar
    <3>5. ASSUME NEW m \in Numbers \cap Numbers'
          PROVE  /\ gens[m].config # NoFile => gens'[m].config \in {gens[m].config, NoFile}
                 /\ gens[m].state # NoFile => gens'[m].state \in {gens[m].state, NoFile}
      <4>1. CASE m = n
        BY <3>1, <3>4, <3>5, <4>1
      <4>2. CASE m # n
        BY <3>3, <3>5, <4>2
      <4> QED
        BY <4>1, <4>2
    <3>6. ASSUME NEW m \in Numbers' \ Numbers, NEW k \in Numbers
          PROVE  m > k
      BY <3>1, <3>2, <3>3, <3>6
    <3> QED
      BY <3>5, <3>6 DEF Appends
  <2>3. CASE UnlinkCurrent(p) \/ LinkCurrent(p)
    BY <2>3 DEF UnlinkCurrent, LinkCurrent, Unlink, Link, Appends, Numbers
  <2>4. CASE DeleteFile(p) \/ DeleteDir(p)
    BY <2>4, DeletionEffect DEF HistoryInv, Appends
  <2> QED
    BY <1>1, <2>2, <2>3, <2>4, StoreSteps DEF ChangesStore
<1>2. CASE Administrator \/ UNCHANGED vars
  BY <1>2 DEF Administrator, UserChanges, EditConfig, vars, storeVars
<1> QED
  BY <1>1, <1>2 DEF Next, StepOf

\* "History is append-only" (generation_store.py): under the same condition no
\* recorded file of a generation is ever rewritten, only pruned, and a new
\* generation is numbered above every other.
THEOREM HistoryIsAppendOnly ==
  ASSUME OneWriterAtATime
  PROVE  Spec => AppendOnly
<1>1. HistoryInv /\ [Next]_vars => [Appends]_storeVars
  BY StepAppends
<1> QED
  BY <1>1, HistoryInvHolds, PTL DEF Spec, AppendOnly, Appends

-----------------------------------------------------------------------------
(***************************************************************************)
(* Prune                                                                   *)
(***************************************************************************)

\* The newest generation that is not partial survives; it is restorable, or
\* half-written.
LEMMA PruneSparesTheNewest ==
  ASSUME StoreTypeOK, NEW keep, NEW n \in Pruned(keep), IsRestorable(n)
  PROVE  \E m \in Numbers \ Pruned(keep) : IsRestorable(m) \/ ~Whole(m)
<1> DEFINE complete == {m \in Numbers : ~IsPartial(m)}
<1>1. complete \in SUBSET Numbers /\ n \in complete
  BY DEF IsRestorable
<1>2. IsFiniteSet(complete) /\ complete \subseteq Nat
  BY <1>1, FS_Subset DEF StoreTypeOK, Numbers
<1>3. Max(complete) \in complete
  BY <1>1, <1>2, MaxIsLargest
<1>4. Max(complete) \in NewestComplete
  BY <1>1 DEF NewestComplete
<1>5. Max(complete) \notin Pruned(keep)
  BY <1>4 DEF Pruned, Survivors
<1>6. IsRestorable(Max(complete)) \/ ~Whole(Max(complete))
  BY <1>3 DEF IsRestorable
<1> QED
  BY <1>3, <1>5, <1>6

\* A step of the prune itself keeps what it spares and restores nothing.
LEMMA DeletionSpares ==
  ASSUME HistoryInv, PruneKeepsARollback, NEW p \in Process, DeleteFile(p) \/ DeleteDir(p),
         \E n \in run'[p].victims : IsRestorable(n)'
  PROVE  \E n \in Numbers' \ run'[p].victims : IsRestorable(n)' \/ ~Whole(n)'
<1>1. PICK n \in run[p].victims :
        /\ Numbers' \subseteq Numbers
        /\ \A m \in Numbers \ {n} : m \in Numbers' /\ gens'[m] = gens[m]
        /\ n \in Numbers' => gens'[n].config = NoFile \/ gens'[n].state = NoFile
        /\ run[p].pc = "delete"
        /\ run'[p].victims \in {run[p].victims, run[p].victims \ {n}}
  BY DeletionEffect DEF HistoryInv
<1>2. PICK m \in run'[p].victims : IsRestorable(m)'
  OBVIOUS
<1>3. m \in run[p].victims /\ m # n /\ IsRestorable(m)
  BY <1>1, <1>2 DEF IsRestorable, IsPartial, Whole
<1>4. PICK k \in Numbers \ run[p].victims : IsRestorable(k) \/ ~Whole(k)
  BY <1>1, <1>3 DEF PruneKeepsARollback, At
<1>5. k \in Numbers' \ run'[p].victims /\ gens'[k] = gens[k]
  BY <1>1, <1>4
<1>6. IsRestorable(k)' \/ ~Whole(k)'
  BY <1>4, <1>5 DEF IsRestorable, IsPartial, Whole
<1> QED
  BY <1>5, <1>6

\* Which steps come to the labels of a prune and of a sync.
LEMMA SideLabels ==
  ASSUME TypeOK, NEW p \in Process, StepOf(p), run'[p].pc \in {"delete", "saveSync", "writeBack"}
  PROVE  \/ DeleteFile(p) \/ DeleteDir(p)
         \/ \E keep \in KeepChoices : StartPrune(p, keep)
         \/ Capture(p) \/ SaveSync(p)
<1> USE DEF TypeOK, At, Goto, Run
<1>1. Leave(p) => run'[p].pc = "idle"
  BY DEF Leave, Idle
<1>2. CASE Work(p)
  <2>1. ASSUME NEW i \in Item, AddItem(p, i) \/ DropItem(p, i)
        PROVE  FALSE
    BY <2>1 DEF AddItem, DropItem
  <2>2. ASSUME AllApplied(p) \/ ActionRaises(p)
        PROVE  FALSE
    <3>1. PICK m, plan : run' = [run EXCEPT ![p].pc = "number", ![p].plan = plan, ![p].fresh = m]
                         \/ run' = [run EXCEPT ![p].pc = "number", ![p].fresh = m]
      BY <2>2 DEF AllApplied, ActionRaises, PersistPartial
    <3> QED
      BY <3>1
  <2>3. ~ (\/ Load(p) \/ BuildPlan(p) \/ AcquireLock(p) \/ NextAction(p) \/ Restore(p))
    BY <1>1 DEF Load, BuildPlan, AcquireLock, NextAction, Restore
  <2>4. ~ (\/ PickNumber(p) \/ MakeGeneration(p) \/ WriteConfig(p) \/ WriteState(p)
           \/ UnlinkCurrent(p) \/ LinkCurrent(p) \/ SaveState(p))
    BY DEF PickNumber, MakeGeneration, WriteConfig, WriteState, UnlinkCurrent, LinkCurrent,
       SaveState
  <2>5. ~ (\/ LockBusy(p) \/ LinkExists(p) \/ Release(p) \/ RestoreRefused(p) \/ WriteBack(p)
           \/ PruneDone(p))
    BY <1>1 DEF LockBusy, LinkExists, Release, RestoreRefused, WriteBack, PruneDone
  <2> QED
    BY <1>2, <2>1, <2>2, <2>3, <2>4, <2>5 DEF Work
<1>3. CASE Decide(p)
  <2>1. ASSUME NEW n, RollbackTo(p, n)
        PROVE  FALSE
    BY <2>1 DEF RollbackTo
  <2>2. ~ (StartApply(p) \/ StartSync(p) \/ Proceed(p) \/ Decline(p))
    BY <1>1 DEF StartApply, StartSync, Proceed, Decline
  <2> QED
    BY <1>3, <2>1, <2>2 DEF Decide, RollbackNamed, RollbackPrevious
<1>4. CASE Misfortune(p)
  <2>1. ASSUME Interrupt(p)
        PROVE  FALSE
    <3>1. PICK m, plan : run' = [run EXCEPT ![p].pc = "number", ![p].plan = plan, ![p].fresh = m]
      BY <2>1 DEF Interrupt, PersistPartial
    <3> QED
      BY <3>1
  <2>2. ASSUME NEW i \in Item, ChangeFails(p, i)
        PROVE  FALSE
    BY <2>2 DEF ChangeFails
  <2> QED
    BY <1>1, <1>4, <2>1, <2>2 DEF Misfortune, Die
<1> QED
  BY <1>2, <1>3, <1>4 DEF StepOf

LEMMA PruneStep ==
  ASSUME HistoryInv, OneCommandAtATime, PruneKeepsARollback, [Next]_vars
  PROVE  PruneKeepsARollback'
<1> SUFFICES ASSUME NEW p \in Process, run'[p].pc = "delete",
                    \E n \in run'[p].victims : IsRestorable(n)'
             PROVE  \E n \in Numbers' \ run'[p].victims : IsRestorable(n)' \/ ~Whole(n)'
  BY DEF PruneKeepsARollback, At
<1>1. CASE StepOf(p)
  <2>1. CASE DeleteFile(p) \/ DeleteDir(p)
    BY <2>1, DeletionSpares
  <2>2. ASSUME NEW keep \in KeepChoices, StartPrune(p, keep)
        PROVE  \E n \in Numbers' \ run'[p].victims : IsRestorable(n)' \/ ~Whole(n)'
    <3>1. run' = [run EXCEPT ![p].pc = "delete", ![p].verb = "prune", ![p].victims = Pruned(keep)]
          /\ gens' = gens
      BY <2>2 DEF StartPrune
    <3>2. run'[p].victims = Pruned(keep) /\ Numbers' = Numbers
      BY <3>1 DEF HistoryInv, TypeOK, Run, Numbers
    <3>3. \A n : (IsRestorable(n) <=> IsRestorable(n)') /\ (Whole(n) <=> Whole(n)')
      BY <3>1, <3>2 DEF IsRestorable, IsPartial, Whole
    <3>4. PICK n \in Pruned(keep) : IsRestorable(n)
      BY <3>2, <3>3
    <3>5. PICK m \in Numbers \ Pruned(keep) : IsRestorable(m) \/ ~Whole(m)
      BY <3>4, PruneSparesTheNewest DEF HistoryInv, TypeOK
    <3> QED
      BY <3>2, <3>3, <3>5
  <2>3. ~Capture(p)
    <3>1. ASSUME NEW read,
                 run' = [run EXCEPT ![p].pc = "saveSync", ![p].config = CapturedBy(p, read),
                                    ![p].fresh = SyncedManifest(p, read)]
          PROVE  FALSE
      BY <3>1 DEF HistoryInv, TypeOK, Run
    <3> QED
      BY <3>1, CaptureEffect
  <2>4. ~SaveSync(p)
    BY DEF SaveSync, Goto, HistoryInv, TypeOK, Run
  <2> QED
    BY <1>1, <2>1, <2>2, <2>3, <2>4, SideLabels DEF HistoryInv
<1>2. CASE UNCHANGED <<run, gens>>
  <2>1. Numbers' = Numbers
    BY <1>2 DEF Numbers
  <2>2. \A n : (IsRestorable(n) <=> IsRestorable(n)') /\ (Whole(n) <=> Whole(n)')
    BY <1>2, <2>1 DEF IsRestorable, IsPartial, Whole
  <2>3. \E n \in Numbers \ run[p].victims : IsRestorable(n) \/ ~Whole(n)
    BY <1>2, <2>2 DEF PruneKeepsARollback, At
  <2> QED
    BY <1>2, <2>1, <2>2, <2>3
<1>3. CASE Administrator \/ UNCHANGED vars
  BY <1>2, <1>3 DEF Administrator, UserChanges, EditConfig, vars
<1> QED
  BY <1>1, <1>3 DEF Next, StepOf, OneCommandAtATime

\* Through every failure and death the stores are sound, as long as commands
\* are not run at the same time: what `current' names is whole, no generation
\* mixes two applies, the manifest is behind the history, a rollback restores
\* only what is complete, and a prune leaves something to roll back to
\* (GenerationStore, Reconciler._persist).
THEOREM StoresAreSound == Spec => [](OneCommandAtATime => StoresStaySound)
<1> DEFINE IInv == HistoryInv /\ (OneCommandAtATime => PruneKeepsARollback)
<1>1. Init => IInv
  <2>1. Init => PruneKeepsARollback
    BY DEF Init, PruneKeepsARollback, At, Idle
  <2> QED
    BY <2>1, HistoryInvHolds
<1>2. IInv /\ [Next]_vars => IInv'
  <2>1. HistoryInv /\ OneCommandAtATime /\ PruneKeepsARollback /\ [Next]_vars => PruneKeepsARollback'
    BY PruneStep
  <2>2. OneCommandAtATime' <=> OneCommandAtATime
    BY DEF OneCommandAtATime
  <2> QED
    BY <2>1, <2>2, HistoryInvHolds
<1>3. IInv => (OneCommandAtATime => StoresStaySound)
  <2>1. HistoryInv /\ OneCommandAtATime =>
          CurrentIsWhole /\ GenerationCoherent /\ RollbackToCompleteOnly
    BY DEF OneWriterAtATime, HistoryInv, HistorySound, RollbackToCompleteOnly, Written, Restored
  <2>2. HistoryInv => ManifestBehindHistory
    BY DEF HistoryInv, AllCounted, Reaches, ManifestBehindHistory
  <2> QED
    BY <2>1, <2>2 DEF StoresStaySound
<1> QED
  BY <1>1, <1>2, <1>3, PTL DEF Spec

-----------------------------------------------------------------------------
(***************************************************************************)
(* What an apply gives up (for any number of processes)                    *)
(***************************************************************************)

\* What the command owns and its config no longer declares.
Undeclared(r) == r.seen.owned \ r.config.on

\* It is planned for removal until it is gone, unless somebody else put it back
\* or the action is about to raise.
Removing(r, A, mv) ==
  r.pc \in {"lock"} \cup Applying =>
    /\ r.plan.add \subseteq r.config.on
    /\ \A i \in Undeclared(r) : i \in mv \/ i \notin A \/ i \in r.plan.drop \/ Excused(r, i)

\* What the manifest it is about to save gives up is gone.
GivesUpTheGone(r, A, mv) ==
  r.pc \in Persisting /\ r.fresh # NoFile => (r.seen.owned \ r.fresh.owned) \cap A \subseteq mv

Giving(r, A, mv) == Removing(r, A, mv) /\ GivesUpTheGone(r, A, mv)

AllGiving == \A p \in Process : Giving(run[p], present, moved[p])

LEMMA OtherLabelGives ==
  ASSUME NEW r, NEW A, NEW mv, r.pc \notin {"lock"} \cup Applying,
         r.pc \notin Persisting \/ r.fresh = NoFile
  PROVE  Giving(r, A, mv)
BY DEF Giving, Removing, GivesUpTheGone

\* A command that goes on with the same plan and the same manifests.
LEMMA SameGives ==
  ASSUME NEW r, NEW s, NEW A, NEW mv, Giving(r, A, mv),
         s.config = r.config, s.seen = r.seen, s.plan = r.plan, s.fresh = r.fresh,
         \/ s.pc \in Applying /\ r.pc \in {"lock", "confirm"}
         \/ s.pc \in Persisting /\ r.pc \in Persisting
  PROVE  Giving(s, A, mv)
BY DEF Giving, Removing, GivesUpTheGone, Undeclared, Excused, Applying, Persisting

LEMMA PlanGives ==
  ASSUME TypeOK, NEW r \in Run, NEW mv, r.pc \in {"lock", "confirm"},
         r.plan = PlanOf(r.config, r.seen)
  PROVE  Giving(r, present, mv)
<1>1. r.plan.add = r.config.on \ present /\ Undeclared(r) \subseteq r.plan.drop
  BY DEF PlanOf, ComputeChanges, Installs, OwnedRemovals, ForcedRemovals, Undeclared
<1> QED
  BY <1>1 DEF Giving, Removing, GivesUpTheGone, Persisting

LEMMA ChangeGives ==
  ASSUME TypeOK, NEW p \in Process, Giving(run[p], present, moved[p]), NEW i \in Item,
         AddItem(p, i) \/ DropItem(p, i) \/ ChangeFails(p, i)
  PROVE  Giving(run'[p], present', moved'[p])
<1>1. /\ run[p] \in Run /\ run'[p].pc = "change" /\ run[p].pc = "change"
      /\ run'[p].config = run[p].config /\ run'[p].seen = run[p].seen
      /\ run'[p].at = run[p].at /\ moved'[p] = moved[p]
  BY DEF AddItem, DropItem, ChangeFails, TypeOK, Run, At, Stale
<1>2. \/ /\ i \in run[p].plan.add /\ present' = present \cup {i}
         /\ run'[p].plan.add = run[p].plan.add \ {i} /\ run'[p].plan.drop = run[p].plan.drop
         /\ run'[p].failed = run[p].failed
      \/ /\ i \in run[p].plan.drop /\ present' = present \ {i}
         /\ run'[p].plan.drop = run[p].plan.drop \ {i} /\ run'[p].plan.add = run[p].plan.add
         /\ run'[p].failed = run[p].failed
      \/ /\ DomainOf[i] = run[p].at /\ present' = present /\ run'[p].failed = TRUE
         /\ run'[p].plan.drop = run[p].plan.drop \ {i}
         /\ run'[p].plan.add = run[p].plan.add \ {i}
  <2>1. CASE AddItem(p, i)
    <3>1. i \in run[p].plan.add /\ present' = present \cup {i} /\ run' = [run EXCEPT ![p].plan.add = @ \ {i}]
      BY <2>1 DEF AddItem, PendingAdds
    <3> QED
      BY <3>1 DEF TypeOK, Run, Plan
  <2>2. CASE DropItem(p, i)
    <3>1. i \in run[p].plan.drop /\ present' = present \ {i} /\ run' = [run EXCEPT ![p].plan.drop = @ \ {i}]
      BY <2>2 DEF DropItem, PendingDrops
    <3> QED
      BY <3>1 DEF TypeOK, Run, Plan
  <2>3. CASE ChangeFails(p, i)
    <3>1. /\ DomainOf[i] = run[p].at /\ present' = present
          /\ run' = [run EXCEPT ![p].plan.add = @ \ {i}, ![p].plan.drop = @ \ {i}, ![p].failed = TRUE]
      BY <2>3 DEF ChangeFails, PendingAdds, PendingDrops, ItemsOf
    <3> QED
      BY <3>1 DEF TypeOK, Run, Plan
  <2> QED
    BY <2>1, <2>2, <2>3
<1>3. Removing(run'[p], present', moved'[p])
  BY <1>1, <1>2 DEF Giving, Removing, Applying, Undeclared, Excused
<1> QED
  BY <1>1, <1>3 DEF Giving, GivesUpTheGone, Persisting

\* Complete or partial, the new manifest gives up the removals of the actions
\* that returned, and those have nothing left planned.
LEMMA ManifestGives ==
  ASSUME TypeOK, NEW p \in Process, Giving(run[p], present, moved[p]), InOrder(run[p]),
         AllApplied(p) \/ ActionRaises(p) \/ Interrupt(p)
  PROVE  Giving(run'[p], present', moved'[p])
<1> DEFINE r == run[p]
           done == Completed(p)
           partial == ~ (r.at > NumDomains)
           m == BuildNewManifest(p, done, partial)
<1>1. /\ r \in Run /\ r.pc = "change" /\ r.at \in Nat /\ NumDomains \in Nat
      /\ moved' = moved /\ present' = present
  BY ConfigAssumption DEF AllApplied, ActionRaises, Interrupt, TypeOK, At, Run
<1>2. \/ run' = [run EXCEPT ![p].pc = "number", ![p].plan = NoChanges, ![p].fresh = m]
      \/ run' = [run EXCEPT ![p].pc = "number", ![p].fresh = m]
  <2>1. CASE AllApplied(p)
    BY <2>1 DEF AllApplied
  <2>2. CASE ActionRaises(p) \/ Interrupt(p)
    <3>1. partial = TRUE
      BY <1>1, <2>2 DEF ActionRaises, Interrupt
    <3> QED
      BY <2>2, <3>1 DEF ActionRaises, Interrupt, PersistPartial
  <2> QED
    BY <2>1, <2>2
<1>3. \A i \in Item : i \in r.seen.owned \ m.owned => i \in Undeclared(r) /\ DomainOf[i] < r.at
  <2>1. \A i \in Item : DomainOf[i] \in 1 .. NumDomains
    BY ConfigAssumption
  <2>2. CASE partial
    BY <1>1, <2>1, <2>2 DEF BuildNewManifest, Completed, ItemsIn, Undeclared
  <2>3. CASE ~partial
    BY <1>1, <2>1, <2>3 DEF BuildNewManifest, Undeclared
  <2> QED
    BY <2>2, <2>3
<1>4. \A i \in Item : DomainOf[i] < r.at => i \notin r.plan.drop /\ ~Excused(r, i)
  <2>1. \A i \in Item : DomainOf[i] \in Nat
    BY ConfigAssumption
  <2> QED
    BY <1>1, <2>1 DEF InOrder, Excused
<1>5. r.seen.owned \subseteq Item
  BY <1>1 DEF Run, Manifest
<1> HIDE DEF m
<1>6. /\ run'[p].pc = "number" /\ run'[p].fresh = m /\ run'[p].seen = r.seen
  BY <1>1, <1>2 DEF TypeOK, Run
<1>7. (r.seen.owned \ m.owned) \cap present \subseteq moved[p]
  BY <1>1, <1>3, <1>4, <1>5 DEF Giving, Removing, Applying
<1> QED
  BY <1>1, <1>6, <1>7 DEF Giving, Removing, GivesUpTheGone, Applying

LEMMA OwnStepGives ==
  ASSUME TypeOK, ControlOK, NEW p \in Process, Shape(run[p]), InOrder(run[p]),
         Giving(run[p], present, moved[p]), StepOf(p)
  PROVE  Giving(run'[p], present', moved'[p])
<1> USE DEF TypeOK, At, Goto
<1>1. run[p] \in Run
  OBVIOUS
<1>2. Leave(p) => Giving(run'[p], present', moved'[p])
  BY OtherLabelGives DEF Leave, Idle, Applying, Persisting
<1>3. CASE Load(p) \/ StartApply(p) \/ StartSync(p)
  <2>1. run'[p].pc \in {"load", "plan", "capture"}
    BY <1>1, <1>3 DEF Load, StartApply, StartSync, Run
  <2> QED
    BY <2>1, OtherLabelGives DEF Applying, Persisting
<1>4. CASE BuildPlan(p)
  <2> DEFINE plan == PlanOf(run[p].config, run[p].seen)
             label == IF run[p].verb = "apply" THEN "lock" ELSE "confirm"
  <2>1. /\ present' = present
        /\ Leave(p) \/ run' = [run EXCEPT ![p].plan = plan, ![p].pc = label]
    BY <1>4 DEF BuildPlan
  <2>2. plan \in Plan
    BY <1>1, PlanOfIsPlan DEF Run
  <2>3. ASSUME run' = [run EXCEPT ![p].plan = plan, ![p].pc = label]
        PROVE  Giving(run'[p], present', moved'[p])
    <3>1. /\ run'[p] \in Run /\ run'[p].pc \in {"lock", "confirm"}
          /\ run'[p].plan = plan
          /\ run'[p].config = run[p].config /\ run'[p].seen = run[p].seen
      BY <1>1, <2>2, <2>3 DEF Run, Labels, Applying
    <3> QED
      BY <2>1, <3>1, PlanGives
  <2> QED
    BY <1>2, <2>1, <2>3
<1>5. ASSUME NEW i \in Item, AddItem(p, i) \/ DropItem(p, i) \/ ChangeFails(p, i)
      PROVE  Giving(run'[p], present', moved'[p])
  BY <1>5, ChangeGives
<1>6. CASE AllApplied(p) \/ ActionRaises(p) \/ Interrupt(p)
  BY <1>6, ManifestGives
<1>7. CASE NextAction(p)
  <2>1. /\ run'[p].pc = "change" /\ run[p].pc = "change" /\ ~run[p].failed
        /\ run'[p].config = run[p].config /\ run'[p].seen = run[p].seen
        /\ run'[p].plan = run[p].plan /\ moved' = moved /\ present' = present
    BY <1>1, <1>7 DEF NextAction, Run
  <2> QED
    BY <2>1 DEF Giving, Removing, GivesUpTheGone, Undeclared, Excused, Applying, Persisting
<1>8. CASE \/ AcquireLock(p) \/ Proceed(p)
           \/ PickNumber(p) \/ MakeGeneration(p) \/ WriteConfig(p) \/ WriteState(p)
           \/ UnlinkCurrent(p) \/ LinkCurrent(p) \/ SaveState(p)
  <2>1. /\ run'[p].config = run[p].config /\ run'[p].seen = run[p].seen
        /\ run'[p].plan = run[p].plan /\ run'[p].fresh = run[p].fresh
        /\ moved' = moved /\ present' = present
        /\ \/ run'[p].pc \in Applying /\ run[p].pc \in {"lock", "confirm"}
           \/ run'[p].pc \in Persisting /\ run[p].pc \in Persisting
           \/ run'[p].pc = "load"
    BY <1>1, <1>8 DEF AcquireLock, Proceed, PickNumber, MakeGeneration, WriteConfig, WriteState,
       UnlinkCurrent, LinkCurrent, SaveState, Run, Applying, Persisting
  <2>2. CASE run'[p].pc = "load"
    BY <2>2, OtherLabelGives DEF Applying, Persisting
  <2> QED
    BY <2>1, <2>2, SameGives
<1>9. CASE Restore(p)
  <2>1. run'[p].pc = "unlink" /\ run'[p].fresh = NoFile
    BY <1>1, <1>9 DEF Restore, Run, Shape, Persisting
  <2> QED
    BY <2>1, OtherLabelGives DEF Applying
<1>10. CASE RollbackNamed(p) \/ RollbackPrevious(p)
  <2>1. PICK n : RollbackTo(p, n)
    BY <1>10 DEF RollbackNamed, RollbackPrevious
  <2>2. run'[p].pc = "restore"
    BY <1>1, <2>1 DEF RollbackTo, Run
  <2> QED
    BY <2>2, OtherLabelGives DEF Applying, Persisting
<1>11. CASE Capture(p)
  <2>1. PICK read : run' = [run EXCEPT ![p].pc = "saveSync", ![p].config = CapturedBy(p, read),
                                       ![p].fresh = SyncedManifest(p, read)]
    BY <1>11, CaptureEffect
  <2>2. run'[p].pc = "saveSync"
    BY <1>1, <2>1 DEF Run
  <2> QED
    BY <2>2, OtherLabelGives DEF Applying, Persisting
<1>12. CASE SaveSync(p) \/ DeleteFile(p) \/ DeleteDir(p)
  <2>1. run'[p].pc \in {"writeBack", "delete"}
    BY <1>1, <1>12 DEF SaveSync, DeleteFile, DeleteDir, Run
  <2> QED
    BY <2>1, OtherLabelGives DEF Applying, Persisting
<1>13. ASSUME NEW keep \in KeepChoices, StartPrune(p, keep)
       PROVE  Giving(run'[p], present', moved'[p])
  <2>1. run' = [run EXCEPT ![p].pc = "delete", ![p].verb = "prune",
                           ![p].victims = Pruned(keep)]
    BY <1>13 DEF StartPrune
  <2>2. run'[p].pc = "delete"
    BY <1>1, <2>1 DEF Run
  <2> QED
    BY <2>2, OtherLabelGives DEF Applying, Persisting
<1>14. CASE \/ LockBusy(p) \/ LinkExists(p) \/ Release(p) \/ RestoreRefused(p)
            \/ WriteBack(p) \/ PruneDone(p) \/ Decline(p) \/ Die(p)
  BY <1>2, <1>14 DEF LockBusy, LinkExists, Release, RestoreRefused, WriteBack,
     PruneDone, Decline, Die
<1> QED
  BY <1>3, <1>4, <1>5, <1>6, <1>7, <1>8, <1>9, <1>10, <1>11, <1>12, <1>13, <1>14
     DEF StepOf, Work, Decide, Misfortune

LEMMA GivingStep ==
  ASSUME TypeOK, ControlOK, AllShaped, AllConverging, AllGiving, [Next]_vars
  PROVE  AllGiving'
<1> SUFFICES ASSUME NEW p \in Process
             PROVE  Giving(run'[p], present', moved'[p])
  BY DEF AllGiving
<1>1. Giving(run[p], present, moved[p]) /\ InOrder(run[p]) /\ Shape(run[p])
  BY DEF AllGiving, AllConverging, Converging, AllShaped
<1>2. CASE StepOf(p)
  BY <1>1, <1>2, OwnStepGives
<1>3. ASSUME Accounted(p), run'[p] = run[p]
      PROVE  Giving(run'[p], present', moved'[p])
  <2>1. run[p].seen.owned \subseteq Item /\ run[p] \in Run
    BY DEF TypeOK, Run, Manifest
  <2>2. CASE Planned(p)
    BY <1>1, <1>3, <2>1, <2>2 DEF Accounted, Giving, Removing, GivesUpTheGone, Undeclared
  <2>3. CASE ~Planned(p)
    BY <1>3, <2>3, OtherLabelGives DEF Planned
  <2> QED
    BY <2>2, <2>3
<1>4. ASSUME NEW q \in Process, q # p, StepOf(q)
      PROVE  Giving(run'[p], present', moved'[p])
  BY <1>3, <1>4, OthersAreAccounted, OthersKeepTheirRecord
<1>5. CASE Administrator \/ UNCHANGED vars
  <2>1. run' = run
    BY <1>5 DEF Administrator, UserChanges, EditConfig, vars
  <2> QED
    BY <1>3, <1>5, <2>1, AdministratorIsAccounted
<1> QED
  BY <1>2, <1>4, <1>5 DEF Next, StepOf

-----------------------------------------------------------------------------
(***************************************************************************)
(* What a sync keeps (for any number of processes)                         *)
(***************************************************************************)

\* What the manifest it is about to save owns, the config file it is about to
\* write declares, or declares off.
SyncKeeps(r) ==
  r.pc \in {"saveSync", "writeBack"} =>
    /\ r.fresh # NoFile
    /\ r.fresh.owned \ Expand(r.config).on \subseteq r.config.off

\* What a sync saw on the machine and owns is declared by hand, contributed by
\* a block or declared off: subtract_contributions takes out of the document
\* only what expand_config puts back.
LEMMA CaptureKeeps ==
  ASSUME TypeOK, NEW p \in Process, NEW read
  PROVE  SyncedManifest(p, read).owned \ Expand(CapturedBy(p, read)).on \subseteq CapturedBy(p, read).off
<1> DEFINE c == run[p].config
           merged == Merge(c, present, read)
<1>1. c \in Config /\ merged \in Config /\ present \subseteq Item
  BY MergeIsConfig DEF TypeOK, Run
<1>2. merged.off = c.off /\ merged.blocks = c.blocks
  BY <1>1 DEF Merge, Config
<1>3. /\ CapturedBy(p, read).off = c.off
      /\ CapturedBy(p, read).on = {i \in merged.on : i \notin Contributions(c) \/ i \in c.on}
      /\ Contributions(CapturedBy(p, read)) = Contributions(c)
  BY <1>1, <1>2 DEF CapturedBy, SubtractContributions, Config, Contributions
<1>4. merged.on \subseteq Expand(CapturedBy(p, read)).on
  <2>1. CapturedBy(p, read) \in Config
    BY <1>1, SubtractIsConfig DEF CapturedBy
  <2>2. Expand(CapturedBy(p, read)).on = CapturedBy(p, read).on \cup Contributions(c)
    BY <1>3, <2>1 DEF Expand, Config
  <2> QED
    BY <1>3, <2>2
<1>5. SyncedManifest(p, read).owned \subseteq present \cap ItemsIn(read)
  BY DEF SyncedManifest, OwnedAfterSync
<1>6. (present \cap ItemsIn(read)) \ merged.on \subseteq c.off
  BY <1>1 DEF Merge, Captured, Config
<1> QED
  BY <1>3, <1>4, <1>5, <1>6

LEMMA SyncKeepsStep ==
  ASSUME TypeOK, \A p \in Process : SyncKeeps(run[p]), [Next]_vars, NEW p \in Process
  PROVE  SyncKeeps(run'[p])
<1> USE DEF TypeOK, At, Goto
<1>1. ASSUME NEW read,
             run' = [run EXCEPT ![p].pc = "saveSync", ![p].config = CapturedBy(p, read),
                                ![p].fresh = SyncedManifest(p, read)]
      PROVE  SyncKeeps(run'[p])
  <2>1. SyncedManifest(p, read).owned \ Expand(CapturedBy(p, read)).on
          \subseteq CapturedBy(p, read).off
    BY CaptureKeeps
  <2>2. SyncedManifest(p, read) # NoFile
    BY SyncedIsManifest, DasikAssumption
  <2>3. run'[p].config = CapturedBy(p, read) /\ run'[p].fresh = SyncedManifest(p, read)
    BY <1>1 DEF Run
  <2> QED
    BY <2>1, <2>2, <2>3 DEF SyncKeeps
<1>2. CASE StepOf(p)
  <2>1. CASE Capture(p)
    BY <1>1, <2>1, CaptureEffect
  <2>2. CASE SaveSync(p)
    BY <2>2 DEF SaveSync, SyncKeeps
  <2>3. CASE DeleteFile(p) \/ DeleteDir(p)
    <3>1. run'[p].pc = "delete"
      BY <2>3 DEF DeleteFile, DeleteDir, Run
    <3> QED
      BY <3>1 DEF SyncKeeps
  <2>4. ASSUME NEW keep, StartPrune(p, keep)
        PROVE  SyncKeeps(run'[p])
    <3>1. run'[p].pc = "delete"
      BY <2>4 DEF StartPrune
    <3> QED
      BY <3>1 DEF SyncKeeps
  <2>5. CASE run'[p].pc \notin {"saveSync", "writeBack"}
    BY <2>5 DEF SyncKeeps
  <2> QED
    BY <1>2, <2>1, <2>2, <2>3, <2>4, <2>5, SideLabels
<1>3. CASE run'[p] = run[p]
  BY <1>3 DEF SyncKeeps
<1> QED
  BY <1>2, <1>3, StepIsOwnOrOthers

-----------------------------------------------------------------------------
(***************************************************************************)
(* The manifest a command loaded is still the one on disk                  *)
(***************************************************************************)

ManifestNow == IF stateFile = NoFile THEN EmptyManifest ELSE stateFile

\* From the load to the save.
Loaded(r) ==
  \/ r.pc \in {"plan", "lock", "capture", "saveSync"} \cup Applying
  \/ r.pc \in Persisting \ {"release"} /\ r.fresh # NoFile

\* s is state.json, m the manifest a command would load from it.
Settled(r, s, m) ==
  /\ Loaded(r) => r.seen = m
  /\ r.pc = "writeBack" => s = r.fresh

LEMMA UnloadedSettled ==
  ASSUME NEW r, NEW s, NEW m, ~Loaded(r), r.pc # "writeBack"
  PROVE  Settled(r, s, m)
BY DEF Settled

\* Nothing but a load reads a manifest.
LEMMA LoadedStep ==
  ASSUME TypeOK, NEW p \in Process, Shape(run[p]), StepOf(p), ~Load(p), Loaded(run'[p])
  PROVE  Loaded(run[p]) /\ run'[p].seen = run[p].seen
<1> USE DEF TypeOK, At, Goto
<1>1. run[p] \in Run
  OBVIOUS
<1>2. ~Leave(p)
  BY DEF Leave, Idle, Loaded, Applying, Persisting
<1>3. CASE BuildPlan(p)
  <2> DEFINE plan == PlanOf(run[p].config, run[p].seen)
             label == IF run[p].verb = "apply" THEN "lock" ELSE "confirm"
  <2>1. run[p].pc = "plan" /\ run' = [run EXCEPT ![p].plan = plan, ![p].pc = label]
    BY <1>2, <1>3 DEF BuildPlan
  <2> HIDE DEF plan, label
  <2> QED
    BY <1>1, <2>1 DEF Loaded, Run
<1>4. CASE AcquireLock(p) \/ Proceed(p) \/ NextAction(p)
  BY <1>1, <1>4 DEF AcquireLock, Proceed, NextAction, Loaded, Applying, Run
<1>5. ASSUME NEW i \in Item, AddItem(p, i) \/ DropItem(p, i) \/ ChangeFails(p, i)
      PROVE  Loaded(run[p]) /\ run'[p].seen = run[p].seen
  BY <1>1, <1>5 DEF AddItem, DropItem, ChangeFails, Loaded, Applying, Run
<1>6. CASE AllApplied(p) \/ ActionRaises(p) \/ Interrupt(p)
  <2>1. PICK m, plan : run' = [run EXCEPT ![p].pc = "number", ![p].plan = plan, ![p].fresh = m]
                         \/ run' = [run EXCEPT ![p].pc = "number", ![p].fresh = m]
    BY <1>6 DEF AllApplied, ActionRaises, Interrupt, PersistPartial
  <2>2. run[p].pc = "change"
    BY <1>6 DEF AllApplied, ActionRaises, Interrupt
  <2> QED
    BY <1>1, <2>1, <2>2 DEF Loaded, Applying, Run
<1>7. CASE \/ PickNumber(p) \/ MakeGeneration(p) \/ WriteConfig(p) \/ WriteState(p)
           \/ UnlinkCurrent(p) \/ LinkCurrent(p) \/ SaveState(p)
  BY <1>1, <1>7 DEF PickNumber, MakeGeneration, WriteConfig, WriteState, UnlinkCurrent,
     LinkCurrent, SaveState, Loaded, Applying, Persisting, Run
<1>8. CASE Restore(p)
  <2>1. run'[p].pc = "unlink" /\ run'[p].fresh = NoFile
    BY <1>1, <1>8 DEF Restore, Run, Shape, Persisting
  <2> QED
    BY <2>1 DEF Loaded, Applying
<1>9. CASE Capture(p)
  <2>1. PICK read : run' = [run EXCEPT ![p].pc = "saveSync", ![p].config = CapturedBy(p, read),
                                       ![p].fresh = SyncedManifest(p, read)]
    BY <1>9, CaptureEffect
  <2> QED
    BY <1>1, <1>9, <2>1 DEF Capture, Loaded, Run
<1>10. ~ (StartApply(p) \/ StartSync(p) \/ SaveSync(p) \/ DeleteFile(p) \/ DeleteDir(p))
  BY <1>1 DEF StartApply, StartSync, SaveSync, DeleteFile, DeleteDir, Loaded, Applying,
     Persisting, Run
<1>11. ASSUME NEW n, RollbackTo(p, n)
       PROVE  FALSE
  BY <1>1, <1>11 DEF RollbackTo, Loaded, Applying, Persisting, Run
<1>12. ASSUME NEW keep, StartPrune(p, keep)
       PROVE  FALSE
  <2>1. run'[p].pc = "delete"
    BY <1>1, <1>12 DEF StartPrune, Run
  <2> QED
    BY <2>1 DEF Loaded, Applying, Persisting
<1>13. ~ (\/ LockBusy(p) \/ LinkExists(p) \/ Release(p) \/ RestoreRefused(p)
          \/ WriteBack(p) \/ PruneDone(p) \/ Decline(p) \/ Die(p))
  BY <1>2 DEF LockBusy, LinkExists, Release, RestoreRefused, WriteBack, PruneDone, Decline, Die
<1> QED
  BY <1>3, <1>4, <1>5, <1>6, <1>7, <1>8, <1>9, <1>10, <1>11, <1>12, <1>13
     DEF StepOf, Work, Decide, Misfortune, RollbackNamed, RollbackPrevious

LEMMA SettledStep ==
  ASSUME TypeOK, OneCommandAtATime, [Next]_vars, NEW p \in Process, Shape(run[p]),
         Settled(run[p], stateFile, ManifestNow)
  PROVE  Settled(run'[p], stateFile', ManifestNow')
<1> USE DEF TypeOK, At, Goto
<1>1. run[p] \in Run
  OBVIOUS
<1>2. CASE Load(p)
  BY <1>1, <1>2 DEF Load, Settled, ManifestNow, Run
<1>3. CASE SaveState(p)
  <2>1. run'[p].pc = "release"
    BY <1>1, <1>3 DEF SaveState
  <2> QED
    BY <2>1, UnloadedSettled DEF Loaded, Applying
<1>4. CASE SaveSync(p)
  BY <1>1, <1>4 DEF SaveSync, Settled, Loaded, Applying, Persisting
<1>5. CASE StepOf(p) /\ ~Load(p) /\ ~SavesManifest(p)
  <2>1. stateFile' = stateFile /\ ManifestNow' = ManifestNow
    BY <1>5, ManifestSteps DEF ManifestNow
  <2>2. Loaded(run'[p]) => run'[p].seen = ManifestNow
    BY <1>5, LoadedStep DEF Settled
  <2>3. run'[p].pc # "writeBack"
    <3>1. ASSUME NEW read,
                 run' = [run EXCEPT ![p].pc = "saveSync", ![p].config = CapturedBy(p, read),
                                    ![p].fresh = SyncedManifest(p, read)]
          PROVE  run'[p].pc # "writeBack"
      BY <1>1, <3>1 DEF Run
    <3>2. ASSUME NEW keep, StartPrune(p, keep)
          PROVE  run'[p].pc = "delete"
      BY <1>1, <3>2 DEF StartPrune, Run
    <3>3. DeleteFile(p) \/ DeleteDir(p) => run'[p].pc = "delete"
      BY <1>1 DEF DeleteFile, DeleteDir, Run
    <3> QED
      BY <1>5, <3>1, <3>2, <3>3, CaptureEffect, SideLabels DEF SavesManifest
  <2> QED
    BY <2>1, <2>2, <2>3 DEF Settled
<1>6. CASE Administrator \/ UNCHANGED vars
  <2>1. UNCHANGED <<run, stateFile>>
    BY <1>6 DEF Administrator, UserChanges, EditConfig, vars
  <2> QED
    BY <2>1 DEF ManifestNow
<1> QED
  BY <1>2, <1>3, <1>4, <1>5, <1>6 DEF Next, StepOf, SavesManifest, OneCommandAtATime

-----------------------------------------------------------------------------
(***************************************************************************)
(* What dasik placed, as long as nothing failed                            *)
(***************************************************************************)

\* From the first change to the save, state.json is behind the machine.
Behind(r) ==
  \/ r.pc = "change"
  \/ r.pc \in Persisting \ {"release"} /\ r.fresh # NoFile

\* P is what dasik placed, o what state.json owns, f how many faults there were.
Placing(r, P, o, f) ==
  /\ r.failed => f # 0
  /\ f = 0 =>
       /\ r.pc \in {"lock"} \cup Applying => P \subseteq r.config.on \cup r.plan.drop
       /\ r.pc \in Persisting \cup {"saveSync"} /\ r.fresh # NoFile => P \subseteq r.fresh.owned
       /\ ~Behind(r) => P \subseteq o

LEMMA FaultPlacing ==
  ASSUME NEW r, NEW P, NEW o, NEW f, f # 0
  PROVE  Placing(r, P, o, f)
BY DEF Placing

\* A command that is not about to record anything.
LEMMA QuietPlacing ==
  ASSUME NEW r, NEW s, NEW P, NEW o, NEW f, Placing(r, P, o, f), ~Behind(r),
         s.failed => r.failed, s.pc \notin {"lock", "saveSync"} \cup Applying,
         s.pc \notin Persisting \/ s.fresh = NoFile
  PROVE  Placing(s, P, o, f)
BY DEF Placing

\* A command that goes on with the same plan and the same manifest.
LEMMA SamePlacing ==
  ASSUME NEW r, NEW s, NEW P, NEW o, NEW f, Placing(r, P, o, f),
         s.failed = r.failed, s.config = r.config, s.plan = r.plan, s.fresh = r.fresh,
         \/ s.pc \in Applying /\ r.pc \in {"lock"} \cup Applying /\ (~Behind(s) => ~Behind(r))
         \/ s.pc \in Persisting \ {"release"} /\ r.pc \in Persisting \ {"release"}
  PROVE  Placing(s, P, o, f)
BY DEF Placing, Behind, Applying, Persisting

LEMMA PlanPlacing ==
  ASSUME NEW r, NEW s, NEW P, NEW f, Placing(r, P, r.seen.owned, f), r.pc = "plan",
         s.failed = r.failed, s.config = r.config, s.pc \in {"lock", "confirm"},
         s.plan = PlanOf(r.config, r.seen)
  PROVE  Placing(s, P, r.seen.owned, f)
<1>1. r.seen.owned \subseteq s.config.on \cup s.plan.drop
  BY DEF PlanOf, ComputeChanges, OwnedRemovals
<1>2. ~Behind(r)
  BY DEF Behind, Persisting
<1> QED
  BY <1>1, <1>2 DEF Placing, Behind, Applying, Persisting

\* dasik places only what it declares, and takes only what it removes.
LEMMA ChangePlacing ==
  ASSUME TypeOK, NEW p \in Process, NEW o, Placing(run[p], placed, o, faults),
         Removing(run[p], present, moved[p]), NEW i \in Item,
         AddItem(p, i) \/ DropItem(p, i) \/ ChangeFails(p, i)
  PROVE  Placing(run'[p], placed', o, faults')
<1>1. CASE ChangeFails(p, i)
  <2>1. faults' = faults + 1 /\ faults \in Nat
    BY <1>1 DEF ChangeFails, TypeOK
  <2> QED
    BY <2>1, FaultPlacing
<1>2. CASE AddItem(p, i) \/ DropItem(p, i)
  <2>1. /\ run[p] \in Run /\ run[p].pc = "change" /\ run'[p].pc = "change"
        /\ run'[p].config = run[p].config /\ run'[p].failed = run[p].failed
        /\ faults' = faults
    BY <1>2 DEF AddItem, DropItem, TypeOK, At, Run, counters
  <2>2. \/ /\ i \in run[p].plan.add /\ placed' = placed \cup {i}
           /\ run'[p].plan.drop = run[p].plan.drop
        \/ /\ i \in run[p].plan.drop /\ placed' = placed \ {i}
           /\ run'[p].plan.drop = run[p].plan.drop \ {i}
    BY <1>2 DEF AddItem, DropItem, PendingAdds, PendingDrops, TypeOK, Run, Plan
  <2>3. run[p].plan.add \subseteq run[p].config.on
    BY <2>1 DEF Removing, Applying
  <2> QED
    BY <2>1, <2>2, <2>3 DEF Placing, Behind, Applying, Persisting
<1> QED
  BY <1>1, <1>2

\* Every action returned: nothing is left to remove, so all of it is declared.
LEMMA AllAppliedPlacing ==
  ASSUME TypeOK, NEW p \in Process, NEW o, Placing(run[p], placed, o, faults),
         InOrder(run[p]), AllApplied(p)
  PROVE  Placing(run'[p], placed', o, faults')
<1> DEFINE m == BuildNewManifest(p, Completed(p), FALSE)
<1>1. /\ run[p] \in Run /\ run[p].pc = "change" /\ run[p].at > NumDomains
      /\ run' = [run EXCEPT ![p].pc = "number", ![p].fresh = m]
      /\ placed' = placed /\ faults' = faults
  BY DEF AllApplied, TypeOK, At, counters
<1>2. \A i \in Item : DomainOf[i] < run[p].at
  BY <1>1, ConfigAssumption DEF Run
<1>3. \A i \in Item : i \notin run[p].plan.drop
  <2>1. \A i \in Item : DomainOf[i] \in Nat
    BY ConfigAssumption
  <2>2. run[p].at \in Nat
    BY <1>1 DEF Run
  <2> QED
    BY <1>1, <1>2, <2>1, <2>2 DEF InOrder
<1>4. placed \subseteq Item
  BY DEF TypeOK
<1>5. m.owned = run[p].config.on
  BY DEF BuildNewManifest
<1> HIDE DEF m
<1>6. /\ run'[p].pc = "number" /\ run'[p].fresh = m /\ run'[p].failed = run[p].failed
  BY <1>1 DEF TypeOK, Run
<1>7. faults = 0 => placed \subseteq run[p].config.on
  BY <1>1, <1>3, <1>4 DEF Placing, Applying
<1>8. NoFile # m => Behind(run'[p])
  BY <1>6 DEF Behind, Persisting
<1>9. m # NoFile
  BY NewManifestIsManifest, DasikAssumption DEF m
<1> QED
  BY <1>1, <1>5, <1>6, <1>7, <1>8, <1>9 DEF Placing, Applying

\* A sync that could read every domain keeps what it owned and still sees.
LEMMA CapturePlacing ==
  ASSUME TypeOK, NEW p \in Process, placed \subseteq present,
         Placing(run[p], placed, run[p].seen.owned, faults), Capture(p)
  PROVE  Placing(run'[p], placed', run[p].seen.owned, faults')
<1>1. PICK read \in SUBSET (1 .. NumDomains) :
        /\ run' = [run EXCEPT ![p].pc = "saveSync", ![p].config = CapturedBy(p, read),
                              ![p].fresh = SyncedManifest(p, read)]
        /\ faults' = IF read = 1 .. NumDomains THEN faults ELSE faults + 1
  BY CaptureEffect
<1>2. run[p] \in Run /\ run[p].pc = "capture" /\ placed' = placed /\ faults \in Nat
  BY DEF Capture, At, TypeOK
<1>3. CASE faults' # 0
  BY <1>3, FaultPlacing
<1>4. CASE faults' = 0
  <2>1. read = 1 .. NumDomains /\ faults = 0
    BY <1>1, <1>2, <1>4
  <2>2. ~Behind(run[p]) /\ ~run[p].failed
    BY <1>2, <2>1 DEF Behind, Persisting, Placing
  <2>3. placed \subseteq run[p].seen.owned
    BY <2>1, <2>2 DEF Placing
  <2>4. placed \subseteq SyncedManifest(p, read).owned
    <3>1. ItemsIn(read) = Item
      BY <2>1, ConfigAssumption DEF ItemsIn
    <3>2. placed \subseteq Item
      BY DEF TypeOK
    <3> QED
      BY <2>3, <3>1, <3>2 DEF SyncedManifest, OwnedAfterSync
  <2>5. /\ run'[p].pc = "saveSync" /\ run'[p].fresh = SyncedManifest(p, read)
        /\ run'[p].failed = run[p].failed
    BY <1>1, <1>2 DEF TypeOK, Run
  <2> QED
    BY <1>2, <2>2, <2>3, <2>4, <2>5 DEF Placing, Applying
<1> QED
  BY <1>3, <1>4

\* The steps that end a command without recording anything.
LEMMA LeavePlacing ==
  ASSUME TypeOK, NEW p \in Process, NEW o, Placing(run[p], placed, o, faults),
         run[p].pc = "link" => current = NoGen,
         \/ LockBusy(p) \/ LinkExists(p) \/ Release(p) \/ RestoreRefused(p)
         \/ WriteBack(p) \/ PruneDone(p) \/ Decline(p) \/ Die(p)
         \/ BuildPlan(p) /\ Leave(p)
  PROVE  Placing(run'[p], placed', o, faults')
<1>1. CASE Die(p)
  <2>1. faults' = faults + 1 /\ faults \in Nat
    BY <1>1 DEF Die, TypeOK
  <2> QED
    BY <2>1, FaultPlacing
<1>2. CASE ~Die(p)
  <2>1. Leave(p) /\ placed' = placed /\ faults' = faults
    BY <1>2 DEF LockBusy, LinkExists, Release, RestoreRefused, WriteBack, PruneDone, Decline,
       BuildPlan, counters
  <2>2. run[p].pc \in {"lock", "release", "restore", "writeBack", "delete", "confirm", "plan"}
    BY <1>2 DEF LockBusy, LinkExists, Release, RestoreRefused, WriteBack, PruneDone, Decline,
       BuildPlan, At
  <2>3. ~Behind(run[p])
    BY <2>2 DEF Behind, Persisting
  <2>4. run'[p].pc = "idle" /\ run'[p].failed = FALSE
    BY <2>1 DEF Leave, Idle, TypeOK
  <2> QED
    BY <2>1, <2>3, <2>4, QuietPlacing DEF Applying, Persisting
<1> QED
  BY <1>1, <1>2

\* The steps before a plan, and those of sync and prune, that record nothing.
LEMMA QuietStepPlacing ==
  ASSUME TypeOK, NEW p \in Process, NEW o, Placing(run[p], placed, o, faults), Shape(run[p]),
         \/ Load(p) \/ StartApply(p) \/ StartSync(p) \/ RollbackNamed(p) \/ RollbackPrevious(p)
         \/ (\E keep \in KeepChoices : StartPrune(p, keep))
         \/ Restore(p) \/ DeleteFile(p) \/ DeleteDir(p)
         \/ run[p].fresh = NoFile /\ (UnlinkCurrent(p) \/ LinkCurrent(p))
  PROVE  Placing(run'[p], placed', o, faults')
<1> USE DEF TypeOK, At, Goto
<1>1. run[p] \in Run
  OBVIOUS
<1>2. ASSUME ~Behind(run[p]), run'[p].failed = run[p].failed,
             run'[p].pc \in {"load", "plan", "capture", "restore", "delete"}
                \/ (run'[p].pc \in {"unlink", "link"} /\ run'[p].fresh = NoFile),
             placed' = placed, faults' = faults
      PROVE  Placing(run'[p], placed', o, faults')
  BY <1>2, QuietPlacing DEF Applying, Persisting
<1>3. CASE Load(p) \/ StartApply(p) \/ StartSync(p)
  <2>1. ~Behind(run[p])
    BY <1>3 DEF Load, StartApply, StartSync, Behind, Persisting
  <2>2. /\ run'[p].pc \in {"load", "plan", "capture"} /\ run'[p].failed = run[p].failed
        /\ placed' = placed /\ faults' = faults
    BY <1>1, <1>3 DEF Load, StartApply, StartSync, Run, counters
  <2> QED
    BY <1>2, <2>1, <2>2
<1>4. ASSUME NEW n, RollbackTo(p, n)
      PROVE  Placing(run'[p], placed', o, faults')
  <2>1. ~Behind(run[p])
    BY <1>4 DEF RollbackTo, Behind, Persisting
  <2>2. /\ run'[p].pc = "restore" /\ run'[p].failed = run[p].failed
        /\ placed' = placed /\ faults' = faults
    BY <1>1, <1>4 DEF RollbackTo, Run
  <2> QED
    BY <1>2, <2>1, <2>2
<1>5. ASSUME NEW keep \in KeepChoices, StartPrune(p, keep)
      PROVE  Placing(run'[p], placed', o, faults')
  <2>1. /\ run' = [run EXCEPT ![p].pc = "delete", ![p].verb = "prune", ![p].victims = Pruned(keep)]
        /\ run[p].pc = "idle" /\ placed' = placed /\ faults' = faults
    BY <1>5 DEF StartPrune
  <2>2. run'[p].pc = "delete" /\ run'[p].failed = run[p].failed
    BY <1>1, <2>1 DEF Run
  <2>3. ~Behind(run[p])
    BY <2>1 DEF Behind, Persisting
  <2> QED
    BY <1>2, <2>1, <2>2, <2>3
<1>6. CASE Restore(p)
  <2>1. run[p].pc = "restore" /\ placed' = placed /\ faults' = faults
    BY <1>6 DEF Restore, counters
  <2>2. /\ run'[p].pc = "unlink" /\ run'[p].fresh = NoFile /\ run'[p].failed = run[p].failed
    BY <1>1, <1>6 DEF Restore, Run, Shape, Persisting
  <2>3. ~Behind(run[p])
    BY <2>1 DEF Behind, Persisting
  <2> QED
    BY <1>2, <2>1, <2>2, <2>3
<1>7. CASE DeleteFile(p) \/ DeleteDir(p)
  <2>1. run[p].pc = "delete" /\ placed' = placed /\ faults' = faults
    BY <1>7 DEF DeleteFile, DeleteDir, counters
  <2>2. run'[p].pc = "delete" /\ run'[p].failed = run[p].failed
    BY <1>1, <1>7 DEF DeleteFile, DeleteDir, Run
  <2>3. ~Behind(run[p])
    BY <2>1 DEF Behind, Persisting
  <2> QED
    BY <1>2, <2>1, <2>2, <2>3
<1>8. CASE run[p].fresh = NoFile /\ (UnlinkCurrent(p) \/ LinkCurrent(p))
  <2>1. ~Behind(run[p]) /\ placed' = placed /\ faults' = faults
    BY <1>8 DEF UnlinkCurrent, LinkCurrent, Behind, counters
  <2>2. /\ run'[p].pc \in {"link", "load"} /\ run'[p].fresh = NoFile
        /\ run'[p].failed = run[p].failed
    BY <1>1, <1>8 DEF UnlinkCurrent, LinkCurrent, Run
  <2> QED
    BY <1>2, <2>1, <2>2
<1> QED
  BY <1>3, <1>4, <1>5, <1>6, <1>7, <1>8 DEF RollbackNamed, RollbackPrevious

\* The steps that go on with the plan or the manifest they have.
LEMMA SameStepPlacing ==
  ASSUME TypeOK, NEW p \in Process, NEW o, Placing(run[p], placed, o, faults),
         \/ AcquireLock(p) \/ Proceed(p) \/ NextAction(p)
         \/ PickNumber(p) \/ MakeGeneration(p) \/ WriteConfig(p) \/ WriteState(p)
         \/ run[p].fresh # NoFile /\ (UnlinkCurrent(p) \/ LinkCurrent(p))
  PROVE  Placing(run'[p], placed', o, faults')
<1> USE DEF TypeOK, At, Goto
<1>1. /\ run[p] \in Run
      /\ run'[p].failed = run[p].failed /\ run'[p].config = run[p].config
      /\ run'[p].plan = run[p].plan /\ run'[p].fresh = run[p].fresh
      /\ placed' = placed /\ faults' = faults
  BY DEF AcquireLock, Proceed, NextAction, PickNumber, MakeGeneration, WriteConfig, WriteState,
     UnlinkCurrent, LinkCurrent, Run, counters
<1>2. \/ /\ run'[p].pc \in Applying /\ run[p].pc \in {"lock"} \cup Applying
         /\ run'[p].pc = "change" \/ run[p].pc = "lock"
      \/ run'[p].pc \in Persisting \ {"release"} /\ run[p].pc \in Persisting \ {"release"}
  BY <1>1 DEF AcquireLock, Proceed, NextAction, PickNumber, MakeGeneration, WriteConfig,
     WriteState, UnlinkCurrent, LinkCurrent, Run, Applying, Persisting
<1>3. (~Behind(run'[p]) => ~Behind(run[p])) \/ run'[p].pc \in Persisting
  BY <1>2 DEF Behind, Applying, Persisting
<1> QED
  BY <1>1, <1>2, <1>3, SamePlacing DEF Applying, Persisting

\* state.json catches up with the machine.
LEMMA SavePlacing ==
  ASSUME TypeOK, NEW p \in Process, NEW o, Placing(run[p], placed, o, faults), Shape(run[p]),
         SaveState(p) \/ (SaveSync(p) /\ SyncKeeps(run[p]))
  PROVE  Placing(run'[p], placed', OwnedNow', faults')
<1> USE DEF TypeOK, At, Goto
<1>1. /\ run[p] \in Run /\ run[p].pc \in {"save", "saveSync"}
      /\ run'[p].pc \in {"release", "writeBack"} /\ run'[p].failed = run[p].failed
      /\ run'[p].fresh = run[p].fresh /\ stateFile' = run[p].fresh
      /\ placed' = placed /\ faults' = faults
  BY DEF SaveState, SaveSync, Run, counters
<1>2. run[p].fresh # NoFile
  BY <1>1 DEF Shape, SyncKeeps, SaveState, SaveSync, Persisting
<1>3. OwnedNow' = run[p].fresh.owned
  BY <1>1, <1>2 DEF OwnedNow
<1> QED
  BY <1>1, <1>2, <1>3 DEF Placing, Applying, Persisting

LEMMA OwnStepPlacing ==
  ASSUME TypeOK, NEW p \in Process, Placing(run[p], placed, OwnedNow, faults),
         Shape(run[p]), InOrder(run[p]), Removing(run[p], present, moved[p]),
         SyncKeeps(run[p]), Settled(run[p], stateFile, ManifestNow), placed \subseteq present,
         run[p].pc = "link" => current = NoGen, StepOf(p)
  PROVE  Placing(run'[p], placed', OwnedNow', faults')
<1>1. CASE SavesManifest(p)
  BY <1>1, SavePlacing DEF SavesManifest
<1>2. CASE ~SavesManifest(p)
  <2>1. OwnedNow' = OwnedNow
    BY <1>2, ManifestSteps DEF OwnedNow
  <2>2. Loaded(run[p]) => run[p].seen.owned = OwnedNow
    BY DEF Settled, ManifestNow, OwnedNow, EmptyManifest
  <2>3. CASE BuildPlan(p)
    <3> DEFINE plan == PlanOf(run[p].config, run[p].seen)
               label == IF run[p].verb = "apply" THEN "lock" ELSE "confirm"
    <3>1. /\ run[p].pc = "plan" /\ placed' = placed /\ faults' = faults
          /\ Leave(p) \/ run' = [run EXCEPT ![p].plan = plan, ![p].pc = label]
      BY <2>3 DEF BuildPlan, At, counters
    <3>2. CASE run' = [run EXCEPT ![p].plan = plan, ![p].pc = label]
      <4>1. run[p].seen.owned = OwnedNow
        BY <2>2, <3>1 DEF Loaded
      <4> HIDE DEF plan
      <4>2. /\ run'[p].pc \in {"lock", "confirm"} /\ run'[p].plan = plan
            /\ run'[p].config = run[p].config /\ run'[p].failed = run[p].failed
        BY <3>2 DEF TypeOK, Run
      <4> QED
        BY <2>1, <3>1, <4>1, <4>2, PlanPlacing DEF plan
    <3> QED
      BY <2>1, <2>3, <3>1, <3>2, LeavePlacing
  <2>4. CASE Capture(p)
    <3>1. run[p].seen.owned = OwnedNow
      BY <2>2, <2>4 DEF Capture, At, Loaded
    <3> QED
      BY <2>1, <2>4, <3>1, CapturePlacing
  <2>5. CASE ActionRaises(p) \/ Interrupt(p)
    <3>1. faults \in Nat /\ faults' \in {faults, faults + 1}
          /\ (faults' = faults => run[p].failed)
      BY <2>5 DEF ActionRaises, Interrupt, TypeOK, counters
    <3>2. faults' # 0
      BY <3>1 DEF Placing
    <3> QED
      BY <3>2, FaultPlacing
  <2>6. ASSUME NEW i \in Item, AddItem(p, i) \/ DropItem(p, i) \/ ChangeFails(p, i)
        PROVE  Placing(run'[p], placed', OwnedNow', faults')
    BY <2>1, <2>6, ChangePlacing
  <2>7. CASE AllApplied(p)
    BY <2>1, <2>7, AllAppliedPlacing
  <2>8. CASE \/ Load(p) \/ StartApply(p) \/ StartSync(p) \/ RollbackNamed(p)
             \/ RollbackPrevious(p) \/ (\E keep \in KeepChoices : StartPrune(p, keep))
             \/ Restore(p) \/ DeleteFile(p) \/ DeleteDir(p)
    BY <2>1, <2>8, QuietStepPlacing
  <2>9. CASE \/ AcquireLock(p) \/ Proceed(p) \/ NextAction(p)
             \/ PickNumber(p) \/ MakeGeneration(p) \/ WriteConfig(p) \/ WriteState(p)
    BY <2>1, <2>9, SameStepPlacing
  <2>10. CASE UnlinkCurrent(p) \/ LinkCurrent(p)
    BY <2>1, <2>10, QuietStepPlacing, SameStepPlacing
  <2>11. CASE \/ LockBusy(p) \/ LinkExists(p) \/ Release(p) \/ RestoreRefused(p)
              \/ WriteBack(p) \/ PruneDone(p) \/ Decline(p) \/ Die(p)
    BY <2>1, <2>11, LeavePlacing
  <2> QED
    BY <1>2, <2>3, <2>4, <2>5, <2>6, <2>7, <2>8, <2>9, <2>10, <2>11
       DEF StepOf, Work, Decide, Misfortune, SavesManifest
<1> QED
  BY <1>1, <1>2

LEMMA PlacedIsPresent ==
  ASSUME TypeOK, placed \subseteq present, [Next]_vars
  PROVE  placed' \subseteq present'
<1>1. ASSUME NEW p \in Process, StepOf(p)
      PROVE  placed' \subseteq present'
  <2>1. ASSUME NEW i \in Item, AddItem(p, i) \/ DropItem(p, i)
        PROVE  placed' \subseteq present'
    BY <2>1 DEF AddItem, DropItem
  <2>2. CASE Work(p) /\ \A i \in Item : ~AddItem(p, i) /\ ~DropItem(p, i)
    BY <2>2 DEF Work, Load, BuildPlan, AcquireLock, LockBusy, NextAction,
       AllApplied, ActionRaises, PickNumber, MakeGeneration, WriteConfig,
       WriteState, UnlinkCurrent, LinkCurrent, LinkExists, SaveState, Release, Restore,
       RestoreRefused, Capture, SaveSync, WriteBack, DeleteFile, DeleteDir, PruneDone
  <2>3. CASE Decide(p)
    BY <2>3 DEF Decide, StartApply, StartSync, RollbackNamed, RollbackPrevious, RollbackTo,
       StartPrune, Proceed, Decline
  <2>4. CASE Misfortune(p)
    BY <2>4 DEF Misfortune, Interrupt, Die, ChangeFails
  <2> QED
    BY <1>1, <2>1, <2>2, <2>3, <2>4 DEF StepOf
<1>2. CASE Administrator
  BY <1>2 DEF Administrator, UserChanges, EditConfig
<1>3. CASE UNCHANGED vars
  BY <1>3 DEF vars
<1> QED
  BY <1>1, <1>2, <1>3 DEF Next, StepOf

\* By hand, the administrator only takes away what dasik placed.
LEMMA PlacingStep ==
  ASSUME TypeOK, OneCommandAtATime, [Next]_vars, NEW p \in Process,
         Placing(run[p], placed, OwnedNow, faults),
         Shape(run[p]), InOrder(run[p]), Removing(run[p], present, moved[p]),
         SyncKeeps(run[p]), Settled(run[p], stateFile, ManifestNow), placed \subseteq present,
         run[p].pc = "link" => current = NoGen
  PROVE  Placing(run'[p], placed', OwnedNow', faults')
<1>1. CASE StepOf(p)
  BY <1>1, OwnStepPlacing
<1>2. CASE Administrator \/ UNCHANGED vars
  <2>1. UNCHANGED <<run, stateFile, faults>> /\ placed' \subseteq placed
    BY <1>2 DEF Administrator, UserChanges, EditConfig, vars
  <2>2. OwnedNow' = OwnedNow
    BY <2>1 DEF OwnedNow
  <2> QED
    BY <2>1, <2>2 DEF Placing
<1> QED
  BY <1>1, <1>2 DEF Next, StepOf, OneCommandAtATime

-----------------------------------------------------------------------------
(***************************************************************************)
(* Ownership                                                               *)
(***************************************************************************)

\* One command at a time: it knows the manifest, and it or the manifest claims
\* what dasik placed.
Knowing ==
  OneCommandAtATime =>
    /\ \A p \in Process : /\ Settled(run[p], stateFile, ManifestNow)
                          /\ Placing(run[p], placed, OwnedNow, faults)
    /\ Process = {} => placed = {}

OwnershipInv ==
  /\ HistoryInv /\ AllConverging /\ AllGiving
  /\ \A p \in Process : SyncKeeps(run[p])
  /\ placed \subseteq present
  /\ Knowing

LEMMA KnowingStep ==
  ASSUME OwnershipInv, [Next]_vars
  PROVE  Knowing'
<1> SUFFICES ASSUME OneCommandAtATime
             PROVE  /\ \A p \in Process : /\ Settled(run'[p], stateFile', ManifestNow')
                                          /\ Placing(run'[p], placed', OwnedNow', faults')
                    /\ Process = {} => placed' = {}
  BY DEF Knowing, OneCommandAtATime
<1>1. ASSUME NEW p \in Process
      PROVE  /\ Settled(run'[p], stateFile', ManifestNow')
             /\ Placing(run'[p], placed', OwnedNow', faults')
  <2>1. /\ TypeOK /\ Shape(run[p]) /\ InOrder(run[p]) /\ Removing(run[p], present, moved[p])
        /\ SyncKeeps(run[p]) /\ Settled(run[p], stateFile, ManifestNow)
        /\ Placing(run[p], placed, OwnedNow, faults) /\ placed \subseteq present
    BY DEF OwnershipInv, Knowing, HistoryInv, AllShaped, AllConverging, Converging, AllGiving, Giving
  <2>2. run[p].pc = "link" => current = NoGen
    BY DEF OwnershipInv, HistoryInv, HistorySound, OneWriterAtATime, Written
  <2> QED
    BY <2>1, <2>2, SettledStep, PlacingStep
<1>2. ASSUME Process = {}
      PROVE  placed' = {}
  <2>1. Administrator \/ UNCHANGED vars
    BY <1>2 DEF Next
  <2>2. placed' \subseteq placed
    BY <2>1 DEF Administrator, UserChanges, EditConfig, vars
  <2> QED
    BY <1>2, <2>2 DEF OwnershipInv, Knowing
<1> QED
  BY <1>1, <1>2

LEMMA OwnershipInvHolds ==
  /\ Init => OwnershipInv
  /\ OwnershipInv /\ [Next]_vars => OwnershipInv'
<1>1. Init => OwnershipInv
  <2> SUFFICES ASSUME Init
               PROVE  OwnershipInv
    OBVIOUS
  <2>1. \A p \in Process : run[p] = Idle
    BY DEF Init
  <2>2. AllConverging
    BY <2>1, IdleConverging DEF Init, AllConverging
  <2>3. AllGiving
    BY <2>1, OtherLabelGives DEF AllGiving, Idle, Applying, Persisting
  <2>4. \A p \in Process : SyncKeeps(run[p])
    BY <2>1 DEF SyncKeeps, Idle
  <2>5. placed = {} /\ Knowing
    BY <2>1, UnloadedSettled
       DEF Init, Knowing, Placing, Loaded, Idle, Applying, Persisting
  <2> QED
    BY <2>2, <2>3, <2>4, <2>5, HistoryInvHolds DEF OwnershipInv
<1>2. OwnershipInv /\ [Next]_vars => OwnershipInv'
  <2> SUFFICES ASSUME OwnershipInv, [Next]_vars
               PROVE  OwnershipInv'
    OBVIOUS
  <2>1. TypeOK /\ ControlOK /\ AllShaped
    BY DEF OwnershipInv, HistoryInv
  <2>2. HistoryInv'
    BY HistoryInvHolds DEF OwnershipInv
  <2>3. AllConverging' /\ AllGiving'
    BY <2>1, ConvergingStep, GivingStep DEF OwnershipInv
  <2>4. \A p \in Process : SyncKeeps(run'[p])
    BY <2>1, SyncKeepsStep DEF OwnershipInv
  <2>5. placed' \subseteq present' /\ Knowing'
    BY <2>1, PlacedIsPresent, KnowingStep DEF OwnershipInv
  <2> QED
    BY <2>2, <2>3, <2>4, <2>5 DEF OwnershipInv
<1> QED
  BY <1>1, <1>2

\* Nothing slips out of what dasik owns: between commands, as long as nothing
\* failed, what it put on the machine is in its manifest; and a sync, whatever
\* it could not read, never writes a manifest and a config file from which the
\* next apply plans a removal (Reconciler._build_new_manifest,
\* _owned_after_sync, subtract_contributions).
THEOREM OwnershipIsKept == Spec => [](OneCommandAtATime => OwnershipSurvives)
<1>1. OwnershipInv => (OneCommandAtATime => OwnershipSurvives)
  <2> SUFFICES ASSUME OwnershipInv, OneCommandAtATime
               PROVE  SyncPlansNoRemoval /\ TakesBackWhatItPlaced
    BY DEF OwnershipSurvives
  <2>1. SyncPlansNoRemoval
    BY DEF SyncPlansNoRemoval, OwnershipInv, SyncKeeps, Knowing, Settled, At
  <2>2. TakesBackWhatItPlaced
    <3> SUFFICES ASSUME AllIdle, faults = 0
                 PROVE  placed \subseteq OwnedNow
      BY DEF TakesBackWhatItPlaced
    <3>1. CASE Process = {}
      BY <3>1 DEF OwnershipInv, Knowing
    <3>2. ASSUME NEW p \in Process
          PROVE  placed \subseteq OwnedNow
      <4>1. Placing(run[p], placed, OwnedNow, faults) /\ run[p].pc = "idle"
        BY DEF OwnershipInv, Knowing, AllIdle, At
      <4> QED
        BY <4>1 DEF Placing, Behind, Persisting
    <3> QED
      BY <3>1, <3>2
  <2> QED
    BY <2>1, <2>2
<1> QED
  BY <1>1, OwnershipInvHolds, PTL DEF Spec

\* What DisownsOnlyWhatIsGone asks of one step.
DisownsTheGone ==
  \A p \in Process : SaveState(p) => (OwnedNow \ OwnedNow') \cap present \subseteq moved[p]

\* What has been recorded is kept, through every failure and death: no recorded
\* file of a generation is rewritten, and a save of an apply or a rollback,
\* complete or not, gives up ownership only of what is off the machine
\* (GenerationStore.new, Reconciler._persist).
THEOREM RecordsStay ==
  ASSUME OneCommandAtATime
  PROVE  Spec => RecordsAreKept
<1>1. OwnershipInv => DisownsTheGone
  <2> SUFFICES ASSUME OwnershipInv, NEW p \in Process, SaveState(p)
               PROVE  (OwnedNow \ OwnedNow') \cap present \subseteq moved[p]
    BY DEF DisownsTheGone
  <2>1. run[p].pc = "save" /\ stateFile' = run[p].fresh
    BY DEF SaveState, At
  <2>2. run[p].fresh # NoFile
    BY <2>1 DEF OwnershipInv, HistoryInv, AllShaped, Shape, Persisting
  <2>3. run[p].seen = ManifestNow
    BY <2>1, <2>2 DEF OwnershipInv, Knowing, Settled, Loaded, Persisting
  <2>4. OwnedNow = run[p].seen.owned /\ OwnedNow' = run[p].fresh.owned
    BY <2>1, <2>2, <2>3 DEF OwnedNow, ManifestNow, EmptyManifest
  <2>5. (run[p].seen.owned \ run[p].fresh.owned) \cap present \subseteq moved[p]
    BY <2>1, <2>2 DEF OwnershipInv, AllGiving, Giving, GivesUpTheGone, Persisting
  <2> QED
    BY <2>4, <2>5
<1>2. Spec => DisownsOnlyWhatIsGone
  BY <1>1, OwnershipInvHolds, PTL DEF Spec, DisownsOnlyWhatIsGone, DisownsTheGone
<1>3. Spec => AppendOnly
  BY HistoryIsAppendOnly DEF OneWriterAtATime
<1> QED
  BY <1>2, <1>3 DEF RecordsAreKept

=============================================================================
