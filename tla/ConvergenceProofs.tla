------------------------- MODULE ConvergenceProofs -------------------------
(***************************************************************************)
(* An apply or a rollback that recorded a complete manifest has converged  *)
(* the machine, for any number of processes, items and actions, and        *)
(* whatever the others and the administrator did meanwhile.                *)
(***************************************************************************)
EXTENDS DasikProofs

-----------------------------------------------------------------------------
(***************************************************************************)
(* The algebra of compute_changes, for any sets D, M, A and F              *)
(***************************************************************************)

\* What the machine holds once a plan is carried out.
Carried(A, plan) == (A \cup plan.add) \ plan.drop

\* Every planned removal is owned or declared off, and every installation is
\* declared: compute_changes never touches drift.
LEMMA ChangesAreScoped ==
  ASSUME NEW D, NEW M, NEW A, NEW F
  PROVE  LET plan == ComputeChanges(D, M, A, F) IN
           /\ plan.add \subseteq D
           /\ plan.drop \subseteq M \cup F
           /\ Drift(D, M, A, F) \cap (plan.add \cup plan.drop) = {}
BY DEF ComputeChanges, Installs, OwnedRemovals, ForcedRemovals, Drift

\* What is on the machine is declared, planned for removal or drift, exactly
\* one of them, as long as nothing is declared both on and off.
LEMMA MachineIsPartitioned ==
  ASSUME NEW D, NEW M, NEW A, NEW F, D \cap F = {}
  PROVE  LET plan == ComputeChanges(D, M, A, F) IN
           /\ A = (A \cap D) \cup (A \cap plan.drop) \cup Drift(D, M, A, F)
           /\ D \cap plan.drop = {}
BY DEF ComputeChanges, Installs, OwnedRemovals, ForcedRemovals, Drift

\* plan, apply, plan: once a plan is carried out and what the config declares
\* is recorded as owned, the next plan is empty (docs/wiki/Workflows.md).  The
\* hypothesis is the one set_math.py states: D and F are disjoint.
THEOREM SecondPlanIsEmpty ==
  ASSUME NEW D, NEW M, NEW A, NEW F, D \cap F = {}
  PROVE  ComputeChanges(D, D, Carried(A, ComputeChanges(D, M, A, F)), F) = NoChanges
<1> DEFINE plan == ComputeChanges(D, M, A, F)
           B == Carried(A, plan)
<1>1. plan.add = D \ A /\ plan.drop = (M \ D) \cup ((F \cap A) \ (M \ D))
  BY DEF ComputeChanges, Installs, OwnedRemovals, ForcedRemovals
<1>2. D \subseteq B
  BY <1>1 DEF Carried
<1>3. F \cap B = {}
  BY <1>1 DEF Carried
<1>4. Installs(D, B) = {} /\ OwnedRemovals(D, D) = {} /\ ForcedRemovals(D, D, B, F) = {}
  BY <1>2, <1>3 DEF Installs, OwnedRemovals, ForcedRemovals
<1> QED
  BY <1>4 DEF ComputeChanges, NoChanges

\* The failure behind the finding on blocks that enable a disabled unit: with
\* an item in D and F, the plan after the plan is never empty.
THEOREM OverlapNeverSettles ==
  ASSUME NEW D, NEW A, NEW F, D \cap F # {}
  PROVE  ComputeChanges(D, D, A, F) # NoChanges
<1>1. PICK i : i \in D \cap F
  OBVIOUS
<1>2. i \in Installs(D, A) \/ i \in ForcedRemovals(D, D, A, F)
  BY <1>1 DEF Installs, ForcedRemovals, OwnedRemovals
<1> QED
  BY <1>2 DEF ComputeChanges, NoChanges

-----------------------------------------------------------------------------
(***************************************************************************)
(* The inductive invariant, over the record r of one process, the machine  *)
(* A, and the items `mv' that others changed since the process planned     *)
(***************************************************************************)

\* What must not be on the machine in the end.
Unwanted(r) == (r.seen.owned \ r.config.on) \cup r.config.off

\* A change of the action being applied failed: the action is going to raise.
Excused(r, i) == r.pc = "change" /\ r.failed /\ DomainOf[i] = r.at

\* Every difference between the machine and the config is still planned,
\* unless somebody else made it or the action is about to raise.
Attempting(r, A, mv) ==
  (r.pc \in {"lock"} \cup Applying /\ ConflictFree(r.config)) =>
    /\ r.plan.add \subseteq r.config.on
    /\ r.plan.drop \cap r.config.on = {}
    /\ \A i \in Item : \/ i \in mv \/ Excused(r, i)
                       \/ /\ i \in r.config.on => i \in A \/ i \in r.plan.add
                          /\ i \in Unwanted(r) => i \notin A \/ i \in r.plan.drop

\* Nothing is left planned for an action that returned.
InOrder(r) ==
  r.pc = "change" => \A i \in Item : i \in r.plan.add \cup r.plan.drop => DomainOf[i] >= r.at

Delivered(r, A, mv) ==
  (r.pc \in Persisting /\ r.fresh # NoFile /\ ~r.fresh.partial /\ ConflictFree(r.config)) =>
    /\ r.fresh.owned = r.config.on
    /\ \A i \in Item : i \in mv \/ ((i \in r.config.on => i \in A) /\ (i \in Unwanted(r) => i \notin A))

\* A manifest is in memory before it is saved, and none before a command
\* converges anything.
HasManifest(r) ==
  /\ r.pc \in {"save", "release"} => r.fresh # NoFile
  /\ r.pc \in {"idle", "restore"} => r.fresh = NoFile

Converging(r, A, mv) ==
  Attempting(r, A, mv) /\ InOrder(r) /\ Delivered(r, A, mv) /\ HasManifest(r)

AllConverging == \A p \in Process : Converging(run[p], present, moved[p])

-----------------------------------------------------------------------------
(***************************************************************************)
(* Steps of the process itself                                             *)
(***************************************************************************)

LEMMA IdleConverging ==
  ASSUME NEW A, NEW mv
  PROVE  Converging(Idle, A, mv)
BY DEF Idle, Converging, Attempting, InOrder, Delivered, HasManifest, Applying, Persisting

\* A record whose label is before the plan, or not of an apply at all.
LEMMA UnplannedConverging ==
  ASSUME NEW r, NEW A, NEW mv, r.pc \notin {"lock", "idle", "restore"} \cup Applying \cup Persisting
  PROVE  Converging(r, A, mv)
BY DEF Converging, Attempting, InOrder, Delivered, HasManifest, Applying, Persisting

LEMMA PlanConverges ==
  ASSUME TypeOK, NEW p \in Process, NEW r \in Run, NEW mv,
         r.pc \in {"lock", "confirm"}, r.plan = PlanOf(r.config, r.seen)
  PROVE  Converging(r, present, mv)
<1>1. /\ r.plan.add = r.config.on \ present
      /\ r.plan.drop = (r.seen.owned \ r.config.on)
                         \cup ((r.config.off \cap present) \ (r.seen.owned \ r.config.on))
  BY DEF PlanOf, ComputeChanges, Installs, OwnedRemovals, ForcedRemovals
<1>2. Attempting(r, present, mv)
  BY <1>1 DEF Attempting, Unwanted, ConflictFree
<1> QED
  BY <1>2 DEF Converging, InOrder, Delivered, HasManifest, Persisting

\* The change is made: nobody planned to undo it.
LEMMA ChangeConverges ==
  ASSUME TypeOK, NEW p \in Process, Converging(run[p], present, moved[p]), NEW i \in Item,
         AddItem(p, i) \/ DropItem(p, i)
  PROVE  Converging(run'[p], present', moved'[p])
<1>1. /\ run[p] \in Run /\ run'[p].pc = "change" /\ run[p].pc = "change"
      /\ run'[p].config = run[p].config /\ run'[p].seen = run[p].seen
      /\ run'[p].failed = run[p].failed /\ run'[p].at = run[p].at
      /\ moved'[p] = moved[p]
  BY DEF AddItem, DropItem, TypeOK, Run, At, Stale
<1>2. \/ /\ i \in run[p].plan.add /\ present' = present \cup {i}
         /\ run'[p].plan.add = run[p].plan.add \ {i} /\ run'[p].plan.drop = run[p].plan.drop
      \/ /\ i \in run[p].plan.drop /\ present' = present \ {i}
         /\ run'[p].plan.drop = run[p].plan.drop \ {i} /\ run'[p].plan.add = run[p].plan.add
  BY DEF AddItem, DropItem, PendingAdds, PendingDrops, TypeOK, Run, Plan
<1>3. Attempting(run'[p], present', moved'[p])
  BY <1>1, <1>2 DEF Converging, Attempting, Applying, ConflictFree, Unwanted, Excused
<1>4. InOrder(run'[p])
  BY <1>1, <1>2 DEF Converging, InOrder
<1> QED
  BY <1>1, <1>3, <1>4 DEF Converging, Delivered, HasManifest, Persisting

\* The change fails: the action is going to raise.
LEMMA FailureConverges ==
  ASSUME TypeOK, NEW p \in Process, Converging(run[p], present, moved[p]), NEW i \in Item,
         ChangeFails(p, i)
  PROVE  Converging(run'[p], present', moved'[p])
<1>1. /\ run[p] \in Run /\ run'[p].pc = "change" /\ run[p].pc = "change"
      /\ run'[p].config = run[p].config /\ run'[p].seen = run[p].seen
      /\ run'[p].failed = TRUE /\ run'[p].at = run[p].at
      /\ moved'[p] = moved[p] /\ present' = present
      /\ run'[p].plan.add = run[p].plan.add \ {i}
      /\ run'[p].plan.drop = run[p].plan.drop \ {i}
  BY DEF ChangeFails, TypeOK, Run, At, Plan
<1>2. DomainOf[i] = run[p].at
  BY DEF ChangeFails, PendingAdds, PendingDrops, ItemsOf
<1>3. Attempting(run'[p], present', moved'[p])
  BY <1>1, <1>2 DEF Converging, Attempting, Applying, ConflictFree, Unwanted, Excused
<1>4. InOrder(run'[p])
  BY <1>1 DEF Converging, InOrder
<1> QED
  BY <1>1, <1>3, <1>4 DEF Converging, Delivered, HasManifest, Persisting

\* An action returns: nothing of it is left and nothing of it failed.
LEMMA NextActionConverges ==
  ASSUME TypeOK, NEW p \in Process, Converging(run[p], present, moved[p]), NextAction(p)
  PROVE  Converging(run'[p], present', moved'[p])
<1>1. /\ run[p] \in Run /\ run[p].pc = "change" /\ run'[p].pc = "change"
      /\ run'[p].config = run[p].config /\ run'[p].seen = run[p].seen
      /\ run'[p].plan = run[p].plan /\ run'[p].at = run[p].at + 1
      /\ ~run[p].failed
      /\ moved' = moved /\ present' = present
  BY DEF NextAction, TypeOK, Run, At
<1>2. \A i \in Item : i \in run[p].plan.add \cup run[p].plan.drop => DomainOf[i] # run[p].at
  BY DEF NextAction, AttemptedAll, PendingAdds, PendingDrops, ItemsOf
<1>3. Attempting(run'[p], present', moved'[p])
  BY <1>1 DEF Converging, Attempting, Applying, ConflictFree, Unwanted, Excused
<1>4. \A i \in Item : DomainOf[i] \in Nat
  BY ConfigAssumption
<1>5. InOrder(run'[p])
  BY <1>1, <1>2, <1>4 DEF Converging, InOrder, Run
<1> QED
  BY <1>1, <1>3, <1>5 DEF Converging, Delivered, HasManifest, Persisting

\* Every action returned: nothing is planned any more, so the machine is what
\* the config says and the manifest claims what the config declares.
LEMMA AllAppliedConverges ==
  ASSUME TypeOK, NEW p \in Process, Converging(run[p], present, moved[p]), AllApplied(p)
  PROVE  Converging(run'[p], present', moved'[p])
<1> DEFINE m == BuildNewManifest(p, Completed(p), FALSE)
<1>1. /\ run[p] \in Run /\ run[p].pc = "change" /\ run[p].at > NumDomains
      /\ moved' = moved /\ present' = present
  BY DEF AllApplied, TypeOK, At
<1>2. m.owned = run[p].config.on /\ m.partial = FALSE
  BY DEF BuildNewManifest
<1>3. run' = [run EXCEPT ![p].pc = "number", ![p].fresh = m]
  BY DEF AllApplied
<1> HIDE DEF m
<1>4. /\ run'[p].pc = "number" /\ run'[p].fresh = m
      /\ run'[p].config = run[p].config /\ run'[p].seen = run[p].seen
  BY <1>1, <1>3 DEF TypeOK, Run
<1>5. \A i \in Item : DomainOf[i] \in Nat /\ ~(DomainOf[i] >= run[p].at) /\ DomainOf[i] # run[p].at
  BY <1>1, ConfigAssumption DEF Run
<1>6. \A i \in Item : i \notin run[p].plan.add /\ i \notin run[p].plan.drop /\ ~Excused(run[p], i)
  BY <1>1, <1>5 DEF Converging, InOrder, Excused
<1>7. Delivered(run'[p], present', moved'[p])
  BY <1>1, <1>2, <1>4, <1>6 DEF Converging, Attempting, Delivered, Applying, Unwanted
<1> QED
  BY <1>4, <1>7 DEF Converging, Attempting, InOrder, HasManifest, Applying

\* A partial manifest promises nothing.
LEMMA PartialConverges ==
  ASSUME TypeOK, NEW p \in Process, ActionRaises(p) \/ Interrupt(p)
  PROVE  Converging(run'[p], present', moved'[p])
<1> DEFINE m == BuildNewManifest(p, Completed(p), TRUE)
<1>1. m.partial = TRUE
  BY DEF BuildNewManifest
<1>2. run' = [run EXCEPT ![p].pc = "number", ![p].plan = NoChanges, ![p].fresh = m]
  BY DEF ActionRaises, Interrupt, PersistPartial
<1> HIDE DEF m
<1>3. run'[p].pc = "number" /\ run'[p].fresh = m
  BY <1>2 DEF TypeOK, Run
<1> QED
  BY <1>1, <1>3 DEF Converging, Attempting, InOrder, Delivered, HasManifest, Applying

\* The persist steps, and the steps up to the first action, keep what they have.
LEMMA PersistConverges ==
  ASSUME TypeOK, NEW p \in Process, Converging(run[p], present, moved[p]),
         \/ AcquireLock(p) \/ Proceed(p)
         \/ PickNumber(p) \/ MakeGeneration(p) \/ WriteConfig(p) \/ WriteState(p)
         \/ UnlinkCurrent(p) \/ LinkCurrent(p) \/ SaveState(p)
  PROVE  Converging(run'[p], present', moved'[p])
<1>1. /\ run[p] \in Run
      /\ run'[p].config = run[p].config /\ run'[p].seen = run[p].seen
      /\ run'[p].plan = run[p].plan /\ run'[p].fresh = run[p].fresh
      /\ moved' = moved /\ present' = present
  BY DEF AcquireLock, Proceed, PickNumber, MakeGeneration, WriteConfig, WriteState,
         UnlinkCurrent, LinkCurrent, SaveState, Goto, TypeOK, Run
<1>2. CASE AcquireLock(p) \/ Proceed(p)
  <2>1. /\ run[p].pc \in {"lock", "confirm"} /\ run'[p].pc \in Applying
        /\ run'[p].pc = "change" => run'[p].at = 1
    BY <1>1, <1>2 DEF AcquireLock, Proceed, Goto, At, Applying, TypeOK, Run
  <2>2. Attempting(run'[p], present', moved'[p])
    BY <1>1, <2>1 DEF Converging, Attempting, Applying, ConflictFree, Unwanted, Excused
  <2>3. InOrder(run'[p])
    BY <2>1, ConfigAssumption DEF InOrder
  <2> QED
    BY <2>1, <2>2, <2>3 DEF Converging, Delivered, HasManifest, Persisting, Applying
<1>3. CASE \/ PickNumber(p) \/ MakeGeneration(p) \/ WriteConfig(p) \/ WriteState(p)
           \/ UnlinkCurrent(p) \/ LinkCurrent(p) \/ SaveState(p)
  <2>1. /\ run[p].pc \in Persisting
        /\ \/ run'[p].pc = "load"
           \/ /\ run'[p].pc \in Persisting
              /\ run'[p].pc \in {"save", "release"} => run[p].fresh # NoFile
    BY <1>1, <1>3 DEF PickNumber, MakeGeneration, WriteConfig, WriteState,
         UnlinkCurrent, LinkCurrent, SaveState, Goto, At, TypeOK, Run, Persisting,
         Converging, HasManifest
  <2>2. CASE run'[p].pc = "load"
    BY <2>2, UnplannedConverging DEF Applying, Persisting
  <2>3. CASE run'[p].pc \in Persisting
    <3>1. Delivered(run'[p], present', moved'[p])
      BY <1>1, <2>1, <2>3 DEF Converging, Delivered, Unwanted, ConflictFree
    <3>2. HasManifest(run'[p])
      BY <1>1, <2>1, <2>3 DEF HasManifest, Persisting
    <3> QED
      BY <2>3, <3>1, <3>2 DEF Converging, Attempting, InOrder, Persisting, Applying
  <2> QED
    BY <2>1, <2>2, <2>3
<1> QED
  BY <1>2, <1>3

\* The steps outside of an apply, and Restore.
LEMMA OtherConverges ==
  ASSUME TypeOK, NEW p \in Process, Converging(run[p], present, moved[p]),
         \/ Load(p) \/ BuildPlan(p) \/ LockBusy(p) \/ LinkExists(p) \/ Release(p)
         \/ Restore(p) \/ RestoreRefused(p) \/ Capture(p) \/ SaveSync(p) \/ WriteBack(p)
         \/ DeleteFile(p) \/ DeleteDir(p) \/ PruneDone(p)
         \/ StartApply(p) \/ StartSync(p) \/ RollbackNamed(p) \/ RollbackPrevious(p)
         \/ (\E keep \in KeepChoices : StartPrune(p, keep))
         \/ Decline(p) \/ Die(p)
  PROVE  Converging(run'[p], present', moved'[p])
<1> USE DEF TypeOK, At, Goto
<1>1. run[p] \in Run
  OBVIOUS
<1>2. Leave(p) => Converging(run'[p], present', moved'[p])
  BY IdleConverging DEF Leave
<1>3. CASE Load(p) \/ StartApply(p) \/ StartSync(p)
  <2>1. run'[p].pc \in {"load", "plan", "capture"}
    BY <1>1, <1>3 DEF Load, StartApply, StartSync, Run
  <2> QED
    BY <2>1, UnplannedConverging DEF Applying, Persisting
<1>4. CASE BuildPlan(p)
  <2> DEFINE plan == PlanOf(run[p].config, run[p].seen)
             label == IF run[p].verb = "apply" THEN "lock" ELSE "confirm"
  <2>1. Leave(p) \/ run' = [run EXCEPT ![p].plan = plan, ![p].pc = label]
    BY <1>4 DEF BuildPlan
  <2>2. plan \in Plan
    BY <1>1, PlanOfIsPlan DEF Run
  <2>3. present' = present
    BY <1>4 DEF BuildPlan
  <2>4. ASSUME run' = [run EXCEPT ![p].plan = plan, ![p].pc = label]
        PROVE  Converging(run'[p], present', moved'[p])
    <3>1. /\ run'[p] \in Run /\ run'[p].pc \in {"lock", "confirm"}
          /\ run'[p].plan = plan
          /\ run'[p].config = run[p].config /\ run'[p].seen = run[p].seen
      BY <1>1, <2>2, <2>4 DEF Run, Labels, Applying
    <3>2. run'[p].plan = PlanOf(run'[p].config, run'[p].seen)
      BY <3>1
    <3> QED
      BY <2>3, <3>1, <3>2, PlanConverges
  <2> QED
    BY <1>2, <2>1, <2>4
<1>5. CASE Restore(p)
  <2> DEFINE c == Expand(gens[run[p].number].config)
  <2>1. run' = [run EXCEPT ![p].pc = "unlink", ![p].config = c]
    BY <1>5 DEF Restore
  <2> HIDE DEF c
  <2>2. run'[p].pc = "unlink" /\ run'[p].fresh = run[p].fresh
    BY <1>1, <2>1 DEF Run
  <2>3. run[p].fresh = NoFile
    BY <1>5 DEF Restore, Converging, HasManifest
  <2> QED
    BY <2>2, <2>3 DEF Converging, Attempting, InOrder, Delivered, HasManifest, Applying
<1>6. CASE Capture(p)
  <2>1. PICK read : run' = [run EXCEPT ![p].pc = "saveSync", ![p].config = CapturedBy(p, read),
                                       ![p].fresh = SyncedManifest(p, read)]
    BY <1>6, CaptureEffect
  <2>2. run'[p].pc = "saveSync"
    BY <1>1, <2>1 DEF Run
  <2> QED
    BY <2>2, UnplannedConverging DEF Applying, Persisting
<1>7. CASE SaveSync(p) \/ DeleteFile(p) \/ DeleteDir(p)
  <2>1. run'[p].pc \in {"writeBack", "delete"}
    BY <1>1, <1>7 DEF SaveSync, DeleteFile, DeleteDir, Run
  <2> QED
    BY <2>1, UnplannedConverging DEF Applying, Persisting
<1>8. CASE RollbackNamed(p) \/ RollbackPrevious(p)
  <2>1. PICK n : RollbackTo(p, n)
    BY <1>8 DEF RollbackNamed, RollbackPrevious
  <2>2. run'[p].pc = "restore" /\ run'[p].fresh = run[p].fresh /\ run[p].pc = "idle"
    BY <1>1, <2>1 DEF RollbackTo, Run
  <2> QED
    BY <2>2 DEF Converging, Attempting, InOrder, Delivered, HasManifest, Applying, Persisting
<1>9. ASSUME NEW keep \in KeepChoices, StartPrune(p, keep)
      PROVE  Converging(run'[p], present', moved'[p])
  <2>1. run' = [run EXCEPT ![p].pc = "delete", ![p].verb = "prune",
                           ![p].victims = Pruned(keep)]
    BY <1>9 DEF StartPrune
  <2>2. run'[p].pc = "delete"
    BY <1>1, <2>1 DEF Run
  <2> QED
    BY <2>2, UnplannedConverging DEF Applying, Persisting
<1>10. CASE \/ LockBusy(p) \/ LinkExists(p) \/ Release(p) \/ RestoreRefused(p)
            \/ WriteBack(p) \/ PruneDone(p) \/ Decline(p) \/ Die(p)
  BY <1>2, <1>10 DEF LockBusy, LinkExists, Release, RestoreRefused, WriteBack,
     PruneDone, Decline, Die
<1> QED
  BY <1>3, <1>4, <1>5, <1>6, <1>7, <1>8, <1>9, <1>10

-----------------------------------------------------------------------------
(***************************************************************************)
(* Steps of the others                                                     *)
(***************************************************************************)

\* What another process or the administrator changes of the machine is in
\* `moved' of every process that planned against it.
Accounted(p) ==
  /\ moved[p] \subseteq moved'[p]
  /\ Planned(p) => \A i \in Item : (i \in present <=> i \in present') \/ i \in moved'[p]

LEMMA StaleAccounts ==
  ASSUME TypeOK, NEW p \in Process, NEW i \in Item, NEW others, Stale(i, others), p \in others,
         \A j \in Item : j # i => (j \in present <=> j \in present')
  PROVE  Accounted(p)
BY DEF Stale, Accounted, TypeOK

LEMMA OthersAreAccounted ==
  ASSUME TypeOK, NEW q \in Process, StepOf(q), NEW p \in Process, p # q
  PROVE  Accounted(p)
<1>1. ASSUME NEW i \in Item, AddItem(q, i) \/ DropItem(q, i)
      PROVE  Accounted(p)
  <2>1. Stale(i, Process \ {q})
    BY <1>1 DEF AddItem, DropItem
  <2>2. \A j \in Item : j # i => (j \in present <=> j \in present')
    BY <1>1 DEF AddItem, DropItem
  <2> QED
    BY <2>1, <2>2, StaleAccounts
<1>2. (\A i \in Item : ~AddItem(q, i) /\ ~DropItem(q, i)) =>
        /\ present' = present
        /\ moved' = moved \/ Leave(q)
  <2>1. CASE Work(q)
    BY <2>1 DEF Work, Load, BuildPlan, AcquireLock, LockBusy, NextAction,
       AllApplied, ActionRaises, PickNumber, MakeGeneration, WriteConfig,
       WriteState, UnlinkCurrent, LinkCurrent, LinkExists, SaveState, Release, Restore,
       RestoreRefused, Capture, SaveSync, WriteBack, DeleteFile, DeleteDir, PruneDone
  <2>2. CASE Decide(q)
    BY <2>2 DEF Decide, StartApply, StartSync, RollbackNamed, RollbackPrevious, RollbackTo,
       StartPrune, Proceed, Decline
  <2>3. CASE Misfortune(q)
    BY <2>3 DEF Misfortune, Interrupt, Die, ChangeFails
  <2> QED
    BY <2>1, <2>2, <2>3 DEF StepOf
<1>3. present' = present /\ (moved' = moved \/ Leave(q)) => Accounted(p)
  BY DEF Accounted, Leave, TypeOK
<1> QED
  BY <1>1, <1>2, <1>3

LEMMA AdministratorIsAccounted ==
  ASSUME TypeOK, NEW p \in Process, Administrator \/ UNCHANGED vars
  PROVE  Accounted(p)
<1>1. ASSUME NEW i \in Item, UserChanges(i)
      PROVE  Accounted(p)
  <2>1. Stale(i, Process)
    BY <1>1 DEF UserChanges
  <2>2. \A j \in Item : j # i => (j \in present <=> j \in present')
    BY <1>1 DEF UserChanges
  <2> QED
    BY <2>1, <2>2, StaleAccounts
<1>2. ASSUME NEW c \in Configs, EditConfig(c)
      PROVE  Accounted(p)
  BY <1>2 DEF EditConfig, Accounted
<1>3. CASE UNCHANGED vars
  BY <1>3 DEF vars, Accounted
<1> QED
  BY <1>1, <1>2, <1>3 DEF Administrator

\* What is accounted for does not disturb.
LEMMA AccountedConverges ==
  ASSUME TypeOK, NEW p \in Process, Converging(run[p], present, moved[p]), Accounted(p),
         run'[p] = run[p]
  PROVE  Converging(run'[p], present', moved'[p])
<1>1. CASE Planned(p)
  <2>1. Attempting(run[p], present', moved'[p])
    BY <1>1 DEF Accounted, Converging, Attempting
  <2>2. Delivered(run[p], present', moved'[p])
    BY <1>1 DEF Accounted, Converging, Delivered
  <2> QED
    BY <2>1, <2>2 DEF Converging
<1>2. CASE ~Planned(p)
  BY <1>2 DEF Planned, Converging, Attempting, Delivered, Applying, Persisting
<1> QED
  BY <1>1, <1>2

-----------------------------------------------------------------------------

LEMMA ConvergingStep ==
  ASSUME TypeOK, AllConverging, [Next]_vars
  PROVE  AllConverging'
<1> SUFFICES ASSUME NEW p \in Process
             PROVE  Converging(run'[p], present', moved'[p])
  BY DEF AllConverging
<1>1. Converging(run[p], present, moved[p])
  BY DEF AllConverging
<1>2. CASE StepOf(p)
  BY <1>1, <1>2, ChangeConverges, FailureConverges, NextActionConverges, AllAppliedConverges,
     PartialConverges, PersistConverges, OtherConverges DEF StepOf, Work, Decide, Misfortune
<1>3. ASSUME NEW q \in Process, q # p, StepOf(q)
      PROVE  Converging(run'[p], present', moved'[p])
  BY <1>1, <1>3, OthersAreAccounted, OthersKeepTheirRecord, AccountedConverges
<1>4. CASE Administrator \/ UNCHANGED vars
  <2>1. run' = run
    BY <1>4 DEF Administrator, UserChanges, EditConfig, vars
  <2> QED
    BY <1>1, <1>4, <2>1, AdministratorIsAccounted, AccountedConverges
<1> QED
  BY <1>2, <1>3, <1>4 DEF Next, StepOf

\* Once an apply or a rollback that did not fail has recorded its manifest, the
\* machine is what its config says, up to what others changed since it planned
\* (Reconciler.apply, _persist), however many run at once and with no help
\* from the lock.
THEOREM CompleteApplyConverges == Spec => []ApplyConverges
<1> DEFINE IInv == TypeOK /\ ControlOK /\ AllConverging
<1>1. Init => IInv
  <2>1. Init => ControlOK
    BY DEF Init, ControlOK, Idle, Persisting
  <2>2. Init => AllConverging
    BY IdleConverging DEF Init, AllConverging
  <2> QED
    BY <2>1, <2>2, TypeInit
<1>2. IInv /\ [Next]_vars => IInv'
  BY TypeStep, ControlStep, ConvergingStep
<1>3. IInv => ApplyConverges
  <2> SUFFICES ASSUME TypeOK, AllConverging, NEW p \in Process,
                      At(p, "release"), ~run[p].fresh.partial, ConflictFree(run[p].config)
               PROVE  /\ run[p].config.on \subseteq present \cup moved[p]
                      /\ (run[p].seen.owned \ run[p].config.on) \cap present \subseteq moved[p]
                      /\ run[p].config.off \cap present \subseteq moved[p]
                      /\ run[p].fresh.owned = run[p].config.on
    BY DEF ApplyConverges
  <2>1. /\ run[p].config.on \subseteq Item /\ present \subseteq Item
        /\ run[p].fresh # NoFile
    BY DEF TypeOK, Run, Config, AllConverging, Converging, HasManifest, At
  <2>2. Delivered(run[p], present, moved[p])
    BY DEF AllConverging, Converging
  <2> QED
    BY <2>1, <2>2 DEF Delivered, Unwanted, At, Persisting
<1> QED
  BY <1>1, <1>2, <1>3, PTL DEF Spec

=============================================================================
