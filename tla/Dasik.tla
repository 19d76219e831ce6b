------------------------------- MODULE Dasik -------------------------------
(***************************************************************************)
(* The dasik commands that change something, run by any number of          *)
(* processes against one target: `apply' and `rollback' (the reconciler's  *)
(* build_plan and apply), `sync', and `generations --prune'.               *)
(*                                                                         *)
(* Every read of shared state, every change to the machine and every file  *)
(* system operation on the stores is a step of its own; a process may die  *)
(* between any two of them, and the administrator may change the machine   *)
(* or the config file at any time.                                         *)
(***************************************************************************)
EXTENDS GenerationStore, SetMath

CONSTANTS
  Process,         \* the dasik processes that may run at the same time
  NoProcess,       \* the lock when nobody holds it
  Verbs,           \* the commands in use
  KeepChoices,     \* the N of `generations --prune N'
  StartConfig,     \* the config file before the first command
  Configs,         \* what the administrator may edit the config file into
  LockFileUsable,  \* /var/lib/dasik/apply.lock can be created on the target
  MaxGen,          \* bound: no apply starts once the history is this long
  MaxOthers,       \* bound: rollbacks, syncs and prunes started
  MaxFaults,       \* bound: failed changes, failed reads, interrupts, deaths
  MaxActs          \* bound: acts of the administrator

ASSUME DasikAssumption ==
  /\ NoProcess \notin Process
  /\ Verbs \subseteq {"apply", "rollback", "sync", "prune"}
  /\ KeepChoices \subseteq Nat \ {0}
  /\ StartConfig \in Config
  /\ Configs \subseteq Config
  /\ LockFileUsable \in BOOLEAN
  /\ MaxGen \in Nat /\ MaxOthers \in Nat /\ MaxFaults \in Nat /\ MaxActs \in Nat
  /\ NoFile \notin Manifest /\ NoFile \notin Config /\ NoConfig \notin Config

VARIABLES
  present,      \* the machine: the items that are there
  stateFile,    \* /var/lib/dasik/state.json
  configFile,   \* the config file the administrator edits
  lock,         \* who holds the flock on apply.lock
  run,          \* process |-> the command it is running
  moved,        \* process |-> items somebody else changed since it planned
  named,        \* items some config handed to a command has named
  placed,       \* items dasik put on the machine that are still there
  started, faults, acts   \* the bounds' counters

vars == <<present, stateFile, configFile, gens, current, lock, run, moved,
          named, placed, started, faults, acts>>

counters == <<started, faults, acts>>

-----------------------------------------------------------------------------
(***************************************************************************)
(* A running command                                                       *)
(***************************************************************************)

\* Where `apply' (and `rollback', without "lock") is.
Planning   == {"load", "plan"}
Applying   == {"confirm", "change"}
Persisting == {"number", "mkdir", "config", "state", "unlink", "link", "save", "release"}
Labels     == {"idle", "lock", "restore", "capture", "saveSync", "writeBack", "delete"}
                \cup Planning \cup Applying \cup Persisting

Plan == [add : SUBSET Item, drop : SUBSET Item]

Run == [pc      : Labels,
        verb    : {"none", "apply", "rollback", "sync", "prune"},
        config  : Config,                    \* what this command converges to
        seen    : Manifest,                  \* the manifest it loaded
        plan    : Plan,                      \* the changes not attempted yet
        at      : Nat,                       \* the action being applied
        failed  : BOOLEAN,                   \* a change of this action failed
        fresh   : Manifest \cup {NoFile},    \* the manifest it will persist
        number  : Nat,                       \* the generation it reads or writes
        victims : SUBSET Nat]                \* the generations left to delete

EmptyConfig == [on |-> {}, off |-> {}, blocks |-> {}]

\* StateStore.load on a target without a state.json.
EmptyManifest == [owned |-> {}, generation |-> 0, hash |-> NoConfig, partial |-> FALSE]

Idle == [pc |-> "idle", verb |-> "none", config |-> EmptyConfig, seen |-> EmptyManifest,
         plan |-> NoChanges, at |-> 0, failed |-> FALSE, fresh |-> NoFile,
         number |-> 0, victims |-> {}]

At(p, label) == run[p].pc = label

Goto(p, label) == run' = [run EXCEPT ![p].pc = label]

\* The command returns: whatever it had in memory is gone.
Leave(p) ==
  /\ run' = [run EXCEPT ![p] = Idle]
  /\ moved' = [moved EXCEPT ![p] = {}]

Unlocked(p) == IF lock = p THEN NoProcess ELSE lock

Init ==
  /\ StoreInit
  /\ present \in SUBSET Item
  /\ stateFile = NoFile
  /\ configFile = StartConfig
  /\ lock = NoProcess
  /\ run = [p \in Process |-> Idle]
  /\ moved = [p \in Process |-> {}]
  /\ named = {}
  /\ placed = {}
  /\ started = 0 /\ faults = 0 /\ acts = 0

TypeOK ==
  /\ StoreTypeOK
  /\ present \subseteq Item
  /\ stateFile \in Manifest \cup {NoFile}
  /\ configFile \in Config
  /\ lock \in Process \cup {NoProcess}
  /\ run \in [Process -> Run]
  /\ moved \in [Process -> SUBSET Item]
  /\ named \subseteq Item
  /\ placed \subseteq Item
  /\ started \in Nat /\ faults \in Nat /\ acts \in Nat

\* Item i of the machine changed by somebody: every process that planned
\* against the machine as it was is out of date about i.
Planned(q) == run[q].pc \in {"lock"} \cup Applying \cup Persisting

Stale(i, others) ==
  moved' = [q \in Process |-> IF q \in others /\ Planned(q) THEN moved[q] \cup {i}
                                                           ELSE moved[q]]

-----------------------------------------------------------------------------
(***************************************************************************)
(* apply: _cmd_apply, Reconciler.build_plan, Reconciler.apply, _persist    *)
(***************************************************************************)

\* The config is validated as written, then expanded.
StartApply(p) ==
  /\ "apply" \in Verbs /\ NextNumber <= MaxGen
  /\ At(p, "idle")
  /\ Valid(configFile)
  /\ LET c == Expand(configFile) IN
       /\ run' = [run EXCEPT ![p].pc = "load", ![p].verb = "apply", ![p].config = c]
       /\ named' = named \cup c.on \cup c.off
  /\ UNCHANGED <<present, stateFile, configFile, gens, current, lock, moved, placed, counters>>

\* state_store.load(), common to apply, rollback and sync.
Load(p) ==
  /\ At(p, "load")
  /\ run' = [run EXCEPT ![p].seen = IF stateFile = NoFile THEN EmptyManifest ELSE stateFile,
                        ![p].pc = IF run[p].verb = "sync" THEN "capture" ELSE "plan"]
  /\ UNCHANGED <<present, stateFile, configFile, gens, current, lock, moved, named, placed, counters>>

\* Mutant: nothing is taken back, for want of a manifest.
PlanWithoutManifest(c, m) == ComputeChanges(c.on, {}, present, c.off)

\* build_plan: the domains are disjoint, so the plans of the actions add up
\* to one computation over all items.  A domain with no section and nothing
\* owned contributes nothing to it, which is why the code may skip it.
PlanOf(c, m) == ComputeChanges(c.on, m.owned, present, c.off)

\* An empty plan ends the command: nothing is recorded.  `apply' takes the
\* lock now, after the plan; `rollback' never takes it.
BuildPlan(p) ==
  /\ At(p, "plan")
  /\ LET plan == PlanOf(run[p].config, run[p].seen) IN
       IF plan = NoChanges
       THEN Leave(p)
       ELSE /\ run' = [run EXCEPT ![p].plan = plan,
                                  ![p].pc = IF run[p].verb = "apply" THEN "lock" ELSE "confirm"]
            /\ UNCHANGED moved
  /\ UNCHANGED <<present, stateFile, configFile, gens, current, lock, named, placed, counters>>

\* Mutant: the lock file is opened but never locked.
LockNotTaken(p) ==
  /\ At(p, "lock")
  /\ Goto(p, "confirm")
  /\ UNCHANGED <<present, stateFile, configFile, gens, current, lock, moved, named, placed, counters>>

\* ApplyLock.__enter__: a non-blocking flock; where the lock file cannot even
\* be created the command goes on without it.
AcquireLock(p) ==
  /\ At(p, "lock")
  /\ LockFileUsable => lock = NoProcess
  /\ lock' = IF LockFileUsable THEN p ELSE lock
  /\ Goto(p, "confirm")
  /\ UNCHANGED <<present, stateFile, configFile, gens, current, moved, named, placed, counters>>

\* Mutant: a blocking flock, so that a busy lock is waited for.
WaitsForLock(p) == At(p, "lock") /\ FALSE

\* ApplyLockBusy.
LockBusy(p) ==
  /\ At(p, "lock")
  /\ LockFileUsable /\ lock # NoProcess
  /\ Leave(p)
  /\ UNCHANGED <<present, stateFile, configFile, gens, current, lock, named, placed, counters>>

\* No destructive change, --yes, or the human said yes.
Proceed(p) ==
  /\ At(p, "confirm")
  /\ run' = [run EXCEPT ![p].pc = "change", ![p].at = 1]
  /\ UNCHANGED <<present, stateFile, configFile, gens, current, lock, moved, named, placed, counters>>

\* Only a destructive plan is asked about.  "no", no terminal, Ctrl-C.
Decline(p) ==
  /\ At(p, "confirm")
  /\ run[p].plan.drop # {}
  /\ lock' = Unlocked(p)
  /\ Leave(p)
  /\ UNCHANGED <<present, stateFile, configFile, gens, current, named, placed, counters>>

PendingAdds(p)  == run[p].plan.add \cap ItemsOf(run[p].at)
PendingDrops(p) == run[p].plan.drop \cap ItemsOf(run[p].at)

\* One change of the action's apply(): all the additive ones first.
AddItem(p, i) ==
  /\ At(p, "change")
  /\ i \in PendingAdds(p)
  /\ present' = present \cup {i}
  /\ placed' = placed \cup {i}
  /\ run' = [run EXCEPT ![p].plan.add = @ \ {i}]
  /\ Stale(i, Process \ {p})
  /\ UNCHANGED <<stateFile, configFile, gens, current, lock, named, counters>>

DropItem(p, i) ==
  /\ At(p, "change")
  /\ PendingAdds(p) = {}
  /\ i \in PendingDrops(p)
  /\ present' = present \ {i}
  /\ placed' = placed \ {i}
  /\ run' = [run EXCEPT ![p].plan.drop = @ \ {i}]
  /\ Stale(i, Process \ {p})
  /\ UNCHANGED <<stateFile, configFile, gens, current, lock, named, counters>>

\* A change fails: the others are still attempted, the action raises at the end.
ChangeFails(p, i) ==
  /\ At(p, "change")
  /\ faults < MaxFaults
  /\ i \in PendingAdds(p) \cup (IF PendingAdds(p) = {} THEN PendingDrops(p) ELSE {})
  /\ run' = [run EXCEPT ![p].plan.add = @ \ {i}, ![p].plan.drop = @ \ {i},
                        ![p].failed = TRUE]
  /\ faults' = faults + 1
  /\ UNCHANGED <<present, stateFile, configFile, gens, current, lock, moved, named, placed, started, acts>>

\* Mutant: a partial manifest that records the completed domains only.
ForgetsUnreached(p, completed, partial) ==
  [owned      |-> run[p].config.on \cap ItemsIn(completed),
   generation |-> run[p].seen.generation + 1,
   hash       |-> run[p].config,
   partial    |-> partial]

\* _build_new_manifest.  `completed' are the positions whose apply() returned.
\* On success every planned domain reports its managed_keys; after a failure
\* the previous manifest is kept for the domains that did not complete.
BuildNewManifest(p, completed, partial) ==
  LET c == run[p].config
      m == run[p].seen
  IN  [owned      |-> IF partial THEN (m.owned \ ItemsIn(completed)) \cup (c.on \cap ItemsIn(completed))
                                 ELSE c.on,
       generation |-> m.generation + 1,
       hash       |-> c,
       partial    |-> partial]

Completed(p) == 1 .. run[p].at - 1

AttemptedAll(p) == PendingAdds(p) = {} /\ PendingDrops(p) = {}

\* Mutant: the failures an action collected are not raised.
SwallowsFailures(p) ==
  /\ At(p, "change")
  /\ run[p].at <= NumDomains
  /\ AttemptedAll(p)
  /\ run' = [run EXCEPT ![p].at = @ + 1, ![p].failed = FALSE]
  /\ UNCHANGED <<present, stateFile, configFile, gens, current, lock, moved, named, placed, counters>>

\* The action returned; the next one in the registry is due.
NextAction(p) ==
  /\ At(p, "change")
  /\ run[p].at <= NumDomains
  /\ AttemptedAll(p) /\ ~run[p].failed
  /\ run' = [run EXCEPT ![p].at = @ + 1]
  /\ UNCHANGED <<present, stateFile, configFile, gens, current, lock, moved, named, placed, counters>>

\* Every action returned.
AllApplied(p) ==
  /\ At(p, "change")
  /\ run[p].at > NumDomains
  /\ run' = [run EXCEPT ![p].pc = "number", ![p].fresh = BuildNewManifest(p, Completed(p), FALSE)]
  /\ UNCHANGED <<present, stateFile, configFile, gens, current, lock, moved, named, placed, counters>>

PersistPartial(p) ==
  run' = [run EXCEPT ![p].pc = "number", ![p].plan = NoChanges,
                     ![p].fresh = BuildNewManifest(p, Completed(p), TRUE)]

\* The action attempted everything and raises what failed.
ActionRaises(p) ==
  /\ At(p, "change")
  /\ run[p].at <= NumDomains
  /\ AttemptedAll(p) /\ run[p].failed
  /\ PersistPartial(p)
  /\ UNCHANGED <<present, stateFile, configFile, gens, current, lock, moved, named, placed, counters>>

\* Ctrl-C, or an action that gives up at its first failure: the rest of its
\* changes is never attempted.
Interrupt(p) ==
  /\ At(p, "change")
  /\ run[p].at <= NumDomains
  /\ faults < MaxFaults
  /\ faults' = faults + 1
  /\ PersistPartial(p)
  /\ UNCHANGED <<present, stateFile, configFile, gens, current, lock, moved, named, placed, started, acts>>

-----------------------------------------------------------------------------
(***************************************************************************)
(* _persist: GenerationStore.new, then StateStore.save                     *)
(***************************************************************************)

\* The number is chosen from a directory listing, the directory made after.
PickNumber(p) ==
  /\ At(p, "number")
  /\ run' = [run EXCEPT ![p].pc = "mkdir", ![p].number = NextNumber]
  /\ UNCHANGED <<present, stateFile, configFile, gens, current, lock, moved, named, placed, counters>>

MakeGeneration(p) ==
  /\ At(p, "mkdir")
  /\ MakeDir(run[p].number)
  /\ Goto(p, "config")
  /\ UNCHANGED <<present, stateFile, configFile, lock, moved, named, placed, counters>>

\* Mutant: the config file is read again when the generation is written.
RereadsConfig(p) ==
  /\ At(p, "config")
  /\ PutConfig(run[p].number, Expand(configFile))
  /\ Goto(p, "state")
  /\ UNCHANGED <<present, stateFile, configFile, lock, moved, named, placed, counters>>

WriteConfig(p) ==
  /\ At(p, "config")
  /\ PutConfig(run[p].number, run[p].config)
  /\ Goto(p, "state")
  /\ UNCHANGED <<present, stateFile, configFile, lock, moved, named, placed, counters>>

WriteState(p) ==
  /\ At(p, "state")
  /\ PutState(run[p].number, run[p].fresh)
  /\ Goto(p, "unlink")
  /\ UNCHANGED <<present, stateFile, configFile, lock, moved, named, placed, counters>>

UnlinkCurrent(p) ==
  /\ At(p, "unlink")
  /\ Unlink
  /\ Goto(p, "link")
  /\ UNCHANGED <<present, stateFile, configFile, lock, moved, named, placed, counters>>

\* restore() repoints `current' too, before rollback loads the manifest.
LinkCurrent(p) ==
  /\ At(p, "link")
  /\ Link(run[p].number)
  /\ Goto(p, IF run[p].fresh = NoFile THEN "load" ELSE "save")
  /\ UNCHANGED <<present, stateFile, configFile, lock, moved, named, placed, counters>>

\* symlink_to raises FileExistsError when somebody linked it in between.
LinkExists(p) ==
  /\ At(p, "link")
  /\ current # NoGen
  /\ lock' = Unlocked(p)
  /\ Leave(p)
  /\ UNCHANGED <<present, stateFile, configFile, gens, current, named, placed, counters>>

SaveState(p) ==
  /\ At(p, "save")
  /\ stateFile' = run[p].fresh
  /\ Goto(p, "release")
  /\ UNCHANGED <<present, configFile, gens, current, lock, moved, named, placed, counters>>

\* finalize_apply's hooks are best effort; then the lock goes.
Release(p) ==
  /\ At(p, "release")
  /\ lock' = Unlocked(p)
  /\ Leave(p)
  /\ UNCHANGED <<present, stateFile, configFile, gens, current, named, placed, counters>>

-----------------------------------------------------------------------------
(***************************************************************************)
(* rollback: _cmd_rollback up to the load it shares with apply             *)
(***************************************************************************)

RollbackTo(p, n) ==
  /\ "rollback" \in Verbs /\ started < MaxOthers
  /\ At(p, "idle")
  /\ started' = started + 1
  /\ run' = [run EXCEPT ![p].pc = "restore", ![p].verb = "rollback", ![p].number = n]
  /\ UNCHANGED <<present, stateFile, configFile, gens, current, lock, moved, named, placed, faults, acts>>

\* Any number the user names; a number that does not exist is refused.
RollbackNamed(p) == \E n \in Numbers : RollbackTo(p, n)

\* No number: the newest complete generation before the current one.
RollbackPrevious(p) == Earlier # {} /\ RollbackTo(p, Max(Earlier))

Restore(p) ==
  /\ At(p, "restore")
  /\ IsRestorable(run[p].number)
  /\ LET c == Expand(gens[run[p].number].config) IN
       /\ run' = [run EXCEPT ![p].pc = "unlink", ![p].config = c]
       /\ named' = named \cup c.on \cup c.off
  /\ UNCHANGED <<present, stateFile, configFile, gens, current, lock, moved, placed, counters>>

\* Not there, partial, or half-written: FileNotFoundError or ValueError.
RestoreRefused(p) ==
  /\ At(p, "restore")
  /\ ~IsRestorable(run[p].number)
  /\ Leave(p)
  /\ UNCHANGED <<present, stateFile, configFile, gens, current, lock, named, placed, counters>>

-----------------------------------------------------------------------------
(***************************************************************************)
(* sync: _sync_capture and Reconciler.sync                                 *)
(***************************************************************************)

StartSync(p) ==
  /\ "sync" \in Verbs /\ started < MaxOthers
  /\ At(p, "idle")
  /\ Valid(configFile)
  /\ started' = started + 1
  /\ run' = [run EXCEPT ![p].pc = "load", ![p].verb = "sync", ![p].config = configFile]
  /\ named' = named \cup Expand(configFile).on \cup configFile.off
  /\ UNCHANGED <<present, stateFile, configFile, gens, current, lock, moved, placed, faults, acts>>

\* Mutant: a pure observation of the machine.
OwnsWhatItSees(c, m, read) == present \cap ItemsIn(read)

\* _owned_after_sync: reality, as far as it was owned or the EXPANDED config
\* declares it.  A domain whose import_state raises is left out altogether.
OwnedAfterSync(c, m, read) ==
  (present \cap (m.owned \cup Expand(c).on)) \cap ItemsIn(read)

Capture(p) ==
  /\ At(p, "capture")
  /\ \E read \in SUBSET (1 .. NumDomains) :
       /\ read # 1 .. NumDomains => faults < MaxFaults
       /\ faults' = IF read = 1 .. NumDomains THEN faults ELSE faults + 1
       /\ LET c == run[p].config
              m == run[p].seen
              captured == Merge(c, present, read)
          IN  run' = [run EXCEPT ![p].pc = "saveSync",
                                 ![p].config = SubtractContributions(captured, c),
                                 ![p].fresh = [owned      |-> OwnedAfterSync(c, m, read),
                                               generation |-> m.generation,
                                               hash       |-> captured,
                                               partial    |-> FALSE]]
  /\ UNCHANGED <<present, stateFile, configFile, gens, current, lock, moved, named, placed, started, acts>>

SaveSync(p) ==
  /\ At(p, "saveSync")
  /\ stateFile' = run[p].fresh
  /\ Goto(p, "writeBack")
  /\ UNCHANGED <<present, configFile, gens, current, lock, moved, named, placed, counters>>

\* The config file is written last.
WriteBack(p) ==
  /\ At(p, "writeBack")
  /\ configFile' = run[p].config
  /\ Leave(p)
  /\ UNCHANGED <<present, stateFile, gens, current, lock, named, placed, counters>>

-----------------------------------------------------------------------------
(***************************************************************************)
(* generations --prune: the victims are chosen once, then deleted one by   *)
(* one, oldest first                                                       *)
(***************************************************************************)

StartPrune(p, keep) ==
  /\ "prune" \in Verbs /\ started < MaxOthers
  /\ At(p, "idle")
  /\ Pruned(keep) # {}
  /\ started' = started + 1
  /\ run' = [run EXCEPT ![p].pc = "delete", ![p].verb = "prune", ![p].victims = Pruned(keep)]
  /\ UNCHANGED <<present, stateFile, configFile, gens, current, lock, moved, named, placed, faults, acts>>

DeleteFile(p) ==
  /\ At(p, "delete")
  /\ run[p].victims # {}
  /\ RemoveFile(Min(run[p].victims))
  /\ UNCHANGED <<present, stateFile, configFile, lock, run, moved, named, placed, counters>>

\* The directory is empty, or another prune already took it.
DeleteDir(p) ==
  /\ At(p, "delete")
  /\ run[p].victims # {}
  /\ LET n == Min(run[p].victims) IN
       /\ IF n \in Numbers THEN RemoveDir(n) ELSE UNCHANGED <<gens, current>>
       /\ run' = [run EXCEPT ![p].victims = @ \ {n}]
  /\ UNCHANGED <<present, stateFile, configFile, lock, moved, named, placed, counters>>

PruneDone(p) ==
  /\ At(p, "delete")
  /\ run[p].victims = {}
  /\ Leave(p)
  /\ UNCHANGED <<present, stateFile, configFile, gens, current, lock, named, placed, counters>>

-----------------------------------------------------------------------------
(***************************************************************************)
(* The environment                                                         *)
(***************************************************************************)

\* The process dies (power cut, SIGKILL), or an exception of the store itself
\* ends it (a full disk): the kernel drops its lock, nothing else is undone.
Die(p) ==
  /\ ~At(p, "idle")
  /\ faults < MaxFaults
  /\ faults' = faults + 1
  /\ lock' = Unlocked(p)
  /\ Leave(p)
  /\ UNCHANGED <<present, stateFile, configFile, gens, current, named, placed, started, acts>>

\* The administrator installs or removes something by hand.
UserChanges(i) ==
  /\ acts < MaxActs
  /\ acts' = acts + 1
  /\ present' = IF i \in present THEN present \ {i} ELSE present \cup {i}
  /\ placed' = placed \ {i}
  /\ Stale(i, Process)
  /\ UNCHANGED <<stateFile, configFile, gens, current, lock, run, named, started, faults>>

EditConfig(c) ==
  /\ acts < MaxActs
  /\ acts' = acts + 1
  /\ c # configFile
  /\ configFile' = c
  /\ UNCHANGED <<present, stateFile, gens, current, lock, run, moved, named, placed, started, faults>>

-----------------------------------------------------------------------------

\* What the code does by itself once the command is running.
Work(p) ==
  \/ Load(p) \/ BuildPlan(p) \/ AcquireLock(p) \/ LockBusy(p)
  \/ \E i \in Item : AddItem(p, i) \/ DropItem(p, i)
  \/ NextAction(p) \/ AllApplied(p) \/ ActionRaises(p)
  \/ PickNumber(p) \/ MakeGeneration(p) \/ WriteConfig(p) \/ WriteState(p)
  \/ UnlinkCurrent(p) \/ LinkCurrent(p) \/ LinkExists(p) \/ SaveState(p) \/ Release(p)
  \/ Restore(p) \/ RestoreRefused(p)
  \/ Capture(p) \/ SaveSync(p) \/ WriteBack(p)
  \/ DeleteFile(p) \/ DeleteDir(p) \/ PruneDone(p)

\* What somebody decides: to start a command, to answer its question.
Decide(p) ==
  \/ StartApply(p) \/ StartSync(p) \/ RollbackNamed(p) \/ RollbackPrevious(p)
  \/ \E keep \in KeepChoices : StartPrune(p, keep)
  \/ Proceed(p) \/ Decline(p)

Misfortune(p) == Interrupt(p) \/ Die(p) \/ \E i \in Item : ChangeFails(p, i)

Administrator == (\E i \in Item : UserChanges(i)) \/ \E c \in Configs : EditConfig(c)

Next == (\E p \in Process : Work(p) \/ Decide(p) \/ Misfortune(p)) \/ Administrator

\* A running command keeps going; nobody promises to start one, nor to answer
\* the confirmation prompt.
Fairness == \A p \in Process : WF_vars(Work(p))

Spec == Init /\ [][Next]_vars /\ Fairness
=============================================================================
