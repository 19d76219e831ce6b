-------------------------- MODULE DasikProperties --------------------------
(***************************************************************************)
(* What the dasik commands have to get right, stated over Dasik.tla.       *)
(***************************************************************************)
EXTENDS Dasik

\* What the manifest claims, as the next command would load it.
OwnedNow == IF stateFile = NoFile THEN {} ELSE stateFile.owned

\* A reachable config may name an item both on (through a block) and off.
ConflictFree(c) == c.on \cap c.off = {}

-----------------------------------------------------------------------------
(***************************************************************************)
(* Safety                                                                  *)
(***************************************************************************)

\* "One apply at a time, per target" (apply_lock.py): no two applies are both
\* between the lock and the end of their persist.
Inside(p) == run[p].verb = "apply" /\ run[p].pc \in Applying \cup Persisting
OneApplyAtATime == \A p, q \in Process : Inside(p) /\ Inside(q) => p = q

\* The config and the manifest in one generation were written by one and the
\* same apply: rolling back to it re-applies the config that manifest records.
GenerationCoherent ==
  \A n \in Numbers : Whole(n) => gens[n].state.hash = gens[n].config

\* `current', when it is there, names a directory that holds both files: a
\* reader who follows the link never finds a half-written generation.
CurrentIsWhole == current # NoGen => current \in Numbers /\ Whole(current)

\* The manifest never counts further than the history it describes: new()
\* comes before save(), so a crash leaves a generation without its manifest,
\* never a manifest without its generation.
ManifestBehindHistory ==
  stateFile # NoFile => stateFile.generation = 0
                        \/ \E n \in Numbers : n >= stateFile.generation

\* Once an apply that did not fail has recorded its manifest, the machine is
\* what its config says, up to what others changed since it planned: what is
\* declared is there, what was owned and is no longer declared is gone, what
\* is declared off is gone, and what it claims is exactly what it declares.
ApplyConverges ==
  \A p \in Process :
    LET c == run[p].config IN
      (At(p, "release") /\ ~run[p].fresh.partial /\ ConflictFree(c)) =>
        /\ c.on \subseteq present \cup moved[p]
        /\ (run[p].seen.owned \ c.on) \cap present \subseteq moved[p]
        /\ c.off \cap present \subseteq moved[p]
        /\ run[p].fresh.owned = c.on

\* rollback never re-applies a generation whose apply failed part-way or was
\* cut short: while it runs, the generation it restored is a complete one.
RollbackToCompleteOnly ==
  \A p \in Process :
    (run[p].verb = "rollback" /\ run[p].fresh = NoFile
       /\ run[p].pc \in {"unlink", "link"} \cup Planning \cup Applying)
    => IsRestorable(run[p].number)

\* A prune that finds a generation rollback can restore leaves one, provided
\* no generation it keeps was left half-written by a crash.
PruneKeepsARollback ==
  \A p \in Process :
    LET kept == Numbers \ run[p].victims IN
      (At(p, "delete") /\ \E n \in run[p].victims : IsRestorable(n))
      => \E n \in kept : IsRestorable(n) \/ ~Whole(n)

\* A sync that could read every domain never sets up a removal: what it still
\* owns is in the config file it is about to write, or declared off there.
SyncPlansNoRemoval ==
  \A p \in Process :
    (At(p, "writeBack") /\ ConflictFree(Expand(run[p].config)))
    => stateFile.owned \ Expand(run[p].config).on \subseteq run[p].config.off

\* Between commands, what dasik put on the machine is owned or still declared, so
\* that a plan takes it back ("dasik installed it, you stopped asking",
\* docs/wiki/README.md) - as long as no apply failed or died half-way.
AllIdle == \A p \in Process : At(p, "idle")
TakesBackWhatItPlaced ==
  (AllIdle /\ stateFile # NoFile /\ faults = 0) =>
    placed \subseteq OwnedNow \cup Expand(configFile).on

\* Through every death and failure the stores are sound: what `current' names is
\* whole, no generation mixes two applies, the manifest is behind the history,
\* rollback restores only what is complete and prune leaves it something to
\* restore.
StoresStaySound ==
  /\ CurrentIsWhole /\ GenerationCoherent /\ ManifestBehindHistory
  /\ RollbackToCompleteOnly /\ PruneKeepsARollback

\* Nothing slips out of what dasik owns, and a sync lets nothing slip into what
\* the next plan removes.
OwnershipSurvives == SyncPlansNoRemoval /\ TakesBackWhatItPlaced

-----------------------------------------------------------------------------
(***************************************************************************)
(* Steps                                                                   *)
(***************************************************************************)

\* History is append-only: a recorded file of a generation is never rewritten
\* (only pruned), and a new generation is numbered above every other.
AppendOnly ==
  [][/\ \A n \in Numbers \cap Numbers' :
          /\ gens[n].config # NoFile => gens'[n].config \in {gens[n].config, NoFile}
          /\ gens[n].state # NoFile => gens'[n].state \in {gens[n].state, NoFile}
     /\ \A n \in Numbers' \ Numbers, m \in Numbers : n > m]_storeVars

\* An apply or a rollback, complete or not, gives up ownership only of what is
\* off the machine, up to what others changed since it planned.
DisownsOnlyWhatIsGone ==
  [][\A p \in Process :
       SaveState(p) => (OwnedNow \ OwnedNow') \cap present \subseteq moved[p]]_vars

\* What has been recorded is kept: no generation is rewritten, and no save of an
\* apply or a rollback gives up what is still there.
RecordsAreKept == AppendOnly /\ DisownsOnlyWhatIsGone

\* dasik keeps its promise to the administrator.
Promise == INSTANCE Ownership WITH owned <- OwnedNow
KeepsOwnershipPromise == Promise!Spec

-----------------------------------------------------------------------------
(***************************************************************************)
(* Liveness                                                                *)
(***************************************************************************)

\* A command that is not waiting for an answer ends, whatever the others do:
\* nothing waits for the lock, for the history or for a peer.
CommandsEnd ==
  \A p \in Process : ~At(p, "idle") ~> (At(p, "idle") \/ At(p, "confirm"))

\* An administrator who keeps running `dasik apply' and, asked again and
\* again, says yes at last.
Persistence == \A p \in Process : WF_vars(StartApply(p)) /\ SF_vars(Proceed(p))
RetrySpec == Spec /\ Persistence

\* "Fix the cause and run `dasik apply' again": however the commands failed,
\* died or raced, once the failures stop, the machine and the manifest agree
\* with the config file for good.
Converged ==
  LET c == Expand(configFile) IN
    ConflictFree(c) => /\ c.on \subseteq present
                       /\ c.off \cap present = {}
                       /\ OwnedNow \subseteq c.on
EventuallyConverged == <>[]Converged

-----------------------------------------------------------------------------
(***************************************************************************)
(* What the documentation says and the code does not keep                  *)
(***************************************************************************)

\* apply_lock.py: the lock is there so that the apply which finishes last does
\* not write an ownership record that unowns what the other one installed: a
\* save drops only what the saving command knew to be owned.
DisownsOnlyWhatItSaw ==
  [][\A p \in Process :
       SaveState(p) => (OwnedNow \ OwnedNow') \subseteq run[p].seen.owned]_vars

=============================================================================
