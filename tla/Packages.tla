------------------------------ MODULE Packages ------------------------------
(***************************************************************************)
(* The packages action (dasik/lib/actions/packages_action.py): plan,       *)
(* apply, what it claims in the manifest, and import_state, with the AUR   *)
(* and Git installers it calls.  One apply at a time; the administrator    *)
(* may act between any two of its steps.                                   *)
(***************************************************************************)
EXTENDS Pacman

CONSTANTS
  Nothing,        \* no name, no ref
  Helper,         \* the AUR helper (yay), should the config declare it
  Prerequisites,  \* BUILD_PREREQUISITES
  Implied,        \* what other actions install outside the packages list
  BehindUnits,    \* packages that own the unit file of an enabled unit
  Ref,            \* commits a Git source can be pinned to
  StartConfig, Configs,        \* the config file, and what it may be edited to
  StartInstalled, StartAsdep,  \* the machine before the first apply
  ByHand,         \* packages the administrator installs or removes by hand
  MaxFaults,      \* bound: failed downloads and builds, deaths
  MaxActs         \* bound: acts of the administrator

Config == [want       : SUBSET Name,       \* the declared names
           optional   : SUBSET Name,       \* those of them marked optional
           dep        : SUBSET Name,       \* those with reason: dep
           source     : [Package -> Ref \cup {Nothing}],   \* package_sources
           unknown    : {"warn-and-skip", "error"},        \* package_policy
           failure    : {"abort", "warn-and-continue"},
           conflicts  : {"abort", "replace"},
           undeclared : {"keep", "remove"}]

ASSUME PackagesAssumption ==
  /\ Nothing \notin Name \cup Ref
  /\ Prerequisites \subseteq Implied /\ Implied \subseteq Package
  /\ Prerequisites \subseteq Repo
  /\ BehindUnits \subseteq Package /\ ByHand \subseteq Package
  /\ StartConfig \in Config /\ Configs \subseteq Config
  /\ StartAsdep \subseteq StartInstalled /\ StartInstalled \subseteq Package
  /\ MaxFaults \in Nat /\ MaxActs \in Nat

VARIABLES
  built,              \* package |-> the commit it was built from, if any
  fragment, builder,  \* the sudoers fragment and the user that builds run as
  dbLock,             \* a pacman died and left /var/lib/pacman/db.lck
  config,             \* the config file
  owned, refs,        \* the manifest: names claimed, commits applied
  pc, job,            \* the apply that runs
  moved, swept,       \* since it started: changed by others, swept by -Rns
  deaths, faults, acts

vars == <<walkVars, machine, built, fragment, builder, dbLock, config, owned, refs,
          pc, job, moved, swept, deaths, faults, acts>>

world == <<built, fragment, builder, dbLock>>
document == <<config, owned, refs>>
ghosts == <<moved, swept, deaths, faults, acts>>

NoChange == [install |-> {}, reason |-> {}, rebuild |-> {}, remove |-> {}]

\* What an apply has in memory.
NoJob ==
  [c       |-> StartConfig,
   plan    |-> NoChange,
   repo    |-> {},        \* resolution.repo + resolution.groups
   git     |-> {},        \* resolution.git and the rebuilds, still to do
   aur     |-> {},        \* resolution.aur, still to do
   todo    |-> {},        \* the rest of the loop it is in
   batch   |-> {},        \* what this session of an installer builds
   now     |-> Nothing,   \* the Git package being built
   created |-> FALSE,     \* this session created the build user
   broke   |-> FALSE,     \* something in this session raised
   verdict |-> {},        \* conflicts pacman named, as pairs
   skipped |-> {},        \* _skipped_unknown
   failed  |-> {}]        \* failed_packages

Init ==
  /\ NoWalk
  /\ installed = StartInstalled /\ asdep = StartAsdep
  /\ built = [p \in Package |-> Nothing]
  /\ fragment = FALSE /\ builder = FALSE /\ dbLock = FALSE
  /\ config = StartConfig /\ owned = {} /\ refs = [p \in Package |-> Nothing]
  /\ pc = "idle" /\ job = NoJob
  /\ moved = {} /\ swept = {} /\ deaths = 0 /\ faults = 0 /\ acts = 0

-----------------------------------------------------------------------------
(***************************************************************************)
(* plan                                                                    *)
(***************************************************************************)

Complete(g) == g \in Group /\ Members[g] \subseteq installed

\* actual(): the explicit packages, and the declared names that are there
\* through a group or, on a machine that has anything, through pacman -T.
Actual(c) ==
  LET there == Explicit \cup {g \in c.want : Complete(g)}
  IN  there \cup {n \in c.want \ (there \cup Group) : there # {} /\ Satisfied(n)}

\* Members of the declared groups are declared by their group.
Covered(c) == UNION {Members[g] : g \in c.want \cap Group}

\* _undeclared: explicit packages the config does not account for.
Undeclared(c) ==
  IF c.undeclared = "remove"
  THEN ((Explicit \ c.want) \ Covered(c)) \
         (Implied \cup {p \in installed : \E n \in c.want \ installed : Satisfies(p, n)})
  ELSE {}

\* _expand_group_removals: a group leaves as those of its members that are there.
GroupsExpanded(names) ==
  (names \ Group) \cup (UNION {Members[g] : g \in names \cap Group} \cap installed)

\* Mutant: whether pacman will let it go is not asked.
AnyRemoval(names) == names

\* _removable: what another package requires is not planned, unless that
\* package is among the names to remove.
Removable(names) == {n \in names : n \in installed => RequiredBy(n) \subseteq names}

ToInstall(c) ==
  {n \in c.want \ installed : ~Complete(n) /\ ~(n \in Package /\ Satisfied(n))}

WrongReason(c) == {n \in c.want \cap installed : (n \in asdep) # (n \in c.dep)}

ToRebuild(c, applied) ==
  {p \in installed : c.source[p] # Nothing /\ applied[p] # c.source[p]}

ToRemove(c, claimed) ==
  Removable(GroupsExpanded(((claimed \ c.want) \ Covered(c)) \cup (Undeclared(c) \ claimed)))

PlanOf(c, claimed, applied) ==
  [install |-> ToInstall(c), reason  |-> WrongReason(c),
   rebuild |-> ToRebuild(c, applied), remove |-> ToRemove(c, claimed)]

-----------------------------------------------------------------------------
(***************************************************************************)
(* apply: from the plan to the first mutation                              *)
(***************************************************************************)

Continue == job.c.failure = "warn-and-continue"

Goto(label) == pc' = label

\* The action raises: nothing it would claim is recorded.
Raise ==
  /\ pc' = "idle" /\ job' = NoJob /\ moved' = {} /\ swept' = {}
  /\ frontier' = {} /\ rootOf' = [n \in {} |-> n] /\ decided' = {} /\ broken' = {}

Fault == faults < MaxFaults /\ faults' = faults + 1

\* The schema: a Git source is of a declared package.
Valid(c) == \A p \in Package : c.source[p] # Nothing => p \in c.want

\* An apply without a change in this domain is one with a change in another:
\* it records this one too.
StartApply ==
  /\ pc = "idle" /\ Valid(config)
  /\ job' = [NoJob EXCEPT !.c = config, !.plan = PlanOf(config, owned, refs)]
  /\ Goto(IF job'.plan = NoChange THEN "record" ELSE "resolve")
  /\ UNCHANGED <<walkVars, machine, world, document, ghosts>>

\* _refuse_a_locked_database.
DatabaseLocked ==
  /\ pc = "resolve" /\ dbLock
  /\ Raise
  /\ UNCHANGED <<machine, world, document, deaths, faults, acts>>

\* repo > group > Git source > AUR > a repository provider > unknown.
InRepo(n)  == n \in Repo \cup Group
FromGit(n) == ~InRepo(n) /\ job.c.source[n] # Nothing
AskedOfAur == {n \in job.plan.install : ~InRepo(n) /\ ~FromGit(n)}

Unknown == {n \in AskedOfAur \ Aur : ~RepoProvides(n)}

\* unavailable is always blocking; unknown follows package_policy.
ResolveRefused ==
  /\ pc = "resolve" /\ ~dbLock
  /\ \/ AskedOfAur # {} /\ Fault    \* the AUR cannot be reached
     \/ ~(Unknown \subseteq job.c.optional) /\ job.c.unknown = "error" /\ UNCHANGED faults
  /\ Raise
  /\ UNCHANGED <<machine, world, document, deaths, acts>>

Resolve ==
  /\ pc = "resolve" /\ ~dbLock
  /\ Unknown \subseteq job.c.optional \/ job.c.unknown = "warn-and-skip"
  /\ LET aur == AskedOfAur \cap Aur
         git == {n \in job.plan.install : FromGit(n)} IN
       /\ job' = [job EXCEPT !.skipped = Unknown, !.aur = aur,
                             !.git = git \cup job.plan.rebuild,
                             !.repo = ((job.plan.install \ git) \ aur) \ Unknown]
       /\ StartWalk(aur)
  /\ Goto("gate")
  /\ UNCHANGED <<machine, world, document, ghosts>>

\* _gate_aur_closure.
Reached == {n \in Package : Satisfied(n)} \cup {n \in Package \ Aur : RepoProvides(n)} \cup Repo

GateLevel ==
  /\ pc = "gate" /\ ~TooManyNodes(Reached)
  /\ WalkLevel(Reached)
  /\ UNCHANGED <<machine, world, document, pc, job, ghosts>>

GateRefused ==
  /\ pc = "gate"
  /\ \/ TooManyNodes(Reached) /\ UNCHANGED faults
     \/ frontier # {} /\ Fault      \* the AUR cannot be reached
     \/ /\ frontier = {} /\ ~(BrokenRoots \subseteq job.c.optional) /\ ~Continue
        /\ UNCHANGED faults
  /\ Raise
  /\ UNCHANGED <<machine, world, document, deaths, acts>>

GatePassed ==
  /\ pc = "gate" /\ frontier = {}
  /\ BrokenRoots \subseteq job.c.optional \/ Continue
  /\ job' = [job EXCEPT !.aur = @ \ BrokenRoots, !.failed = BrokenRoots,
                        !.todo = job.repo \ job.c.optional]
  /\ Goto("repo")
  /\ UNCHANGED <<walkVars, machine, world, document, ghosts>>

-----------------------------------------------------------------------------
(***************************************************************************)
(* apply: the repository transactions                                      *)
(***************************************************************************)

\* What is gone is no longer a build of anything.
Forget == built' = [p \in Package |-> IF p \in installed' THEN built[p] ELSE Nothing]

Required == job.repo \ job.c.optional
OptionalRepo == job.repo \cap job.c.optional

RequiredInstalled ==
  /\ pc \in {"repo", "retry"}
  /\ CanInstall(Asked(Required), Repo)
  /\ Install(Asked(Required), Asked(Required))
  /\ job' = [job EXCEPT !.todo = OptionalRepo]
  /\ Goto("optional")
  /\ UNCHANGED <<walkVars, world, document, ghosts>>

\* The whole transaction fails: over a conflict, which pacman names, or for a
\* reason that names none.
RequiredFails ==
  /\ pc = "repo" /\ Required # {}
  /\ \/ /\ ~CanInstall(Asked(Required), Repo) /\ UNCHANGED faults
        /\ job' = [job EXCEPT !.verdict = Clashes(Asked(Required))]
     \/ Fault /\ job' = [job EXCEPT !.verdict = {}]
  /\ Goto("clear")
  /\ UNCHANGED <<walkVars, machine, world, document, moved, swept, deaths, acts>>

\* _clear_conflicts: the installed side of each conflict, when the config does
\* not declare it and nothing installed requires it.
Blockers ==
  IF job.c.conflicts = "replace"
  THEN {b \in installed \ job.c.want : RequiredBy(b) = {} /\ \E c \in job.verdict : c[2] = b}
  ELSE {}

ConflictsCleared ==
  /\ pc = "clear" /\ Blockers # {}
  /\ RemoveWithDependencies(Blockers)
  /\ swept' = swept \cup Swept(Blockers)
  /\ Forget
  /\ Goto("retry")
  /\ UNCHANGED <<walkVars, fragment, builder, dbLock, document, job, moved, deaths, faults, acts>>

ClearingFails ==
  /\ pc = "clear" /\ Blockers # {} /\ Fault
  /\ Raise
  /\ UNCHANGED <<machine, world, document, deaths, acts>>

\* One package at a time, under warn-and-continue.
Salvage ==
  /\ \/ pc = "clear" /\ Blockers = {} /\ UNCHANGED faults
     \/ pc = "retry" /\ ~CanInstall(Asked(Required), Repo) /\ UNCHANGED faults
     \/ pc = "retry" /\ Fault
  /\ IF Continue THEN /\ job' = [job EXCEPT !.todo = Required]
                      /\ Goto("salvage")
                      /\ UNCHANGED <<walkVars, moved, swept>>
                 ELSE Raise
  /\ UNCHANGED <<machine, world, document, deaths, acts>>

Done(n) == job.todo \ {n}

SalvageInstalls(n) ==
  /\ pc = "salvage" /\ n \in job.todo
  /\ CanInstall(Asked({n}), Repo)
  /\ Install(Asked({n}), Asked({n}))
  /\ job' = [job EXCEPT !.todo = Done(n)]
  /\ UNCHANGED <<walkVars, world, document, pc, ghosts>>

SalvageFails(n) ==
  /\ pc = "salvage" /\ n \in job.todo
  /\ CanInstall(Asked({n}), Repo) => Fault
  /\ ~CanInstall(Asked({n}), Repo) => UNCHANGED faults
  /\ job' = [job EXCEPT !.todo = Done(n), !.failed = @ \cup {n}]
  /\ UNCHANGED <<walkVars, machine, world, document, pc, moved, swept, deaths, acts>>

Salvaged ==
  /\ pc = "salvage" /\ job.todo = {}
  /\ job' = [job EXCEPT !.todo = OptionalRepo]
  /\ Goto("optional")
  /\ UNCHANGED <<walkVars, machine, world, document, ghosts>>

OptionalInstalls(n) ==
  /\ pc = "optional" /\ n \in job.todo
  /\ CanInstall(Asked({n}), Repo)
  /\ Install(Asked({n}), Asked({n}))
  /\ job' = [job EXCEPT !.todo = Done(n)]
  /\ UNCHANGED <<walkVars, world, document, pc, ghosts>>

\* _failure_guard: what is still missing is recorded, and the apply goes on.
OptionalFails(n) ==
  /\ pc = "optional" /\ n \in job.todo
  /\ CanInstall(Asked({n}), Repo) => Fault
  /\ ~CanInstall(Asked({n}), Repo) => UNCHANGED faults
  /\ job' = [job EXCEPT !.todo = Done(n), !.failed = @ \cup ({n} \ installed)]
  /\ UNCHANGED <<walkVars, machine, world, document, pc, moved, swept, deaths, acts>>

OptionalDone ==
  /\ pc = "optional" /\ job.todo = {}
  /\ Goto("git")
  /\ UNCHANGED <<walkVars, machine, world, document, job, ghosts>>

-----------------------------------------------------------------------------
(***************************************************************************)
(* apply: PkgbuildGitInstaller.  A session is prerequisites, build user,   *)
(* sudoers fragment, the builds, and the cleanup on every way out: one     *)
(* session for all packages, or under warn-and-continue one for each.      *)
(***************************************************************************)

Sessions == IF Continue THEN {{p} : p \in job.git} ELSE {job.git} \ {{}}

GitPrepares ==
  /\ pc = "git"
  /\ \E S \in Sessions :
       job' = [job EXCEPT !.git = @ \ S, !.batch = S, !.created = ~builder]
  /\ IF CanInstall(Prerequisites, Repo) THEN Install(Prerequisites, Prerequisites)
                                        ELSE UNCHANGED machine
  /\ fragment' = TRUE /\ builder' = TRUE
  /\ Goto("clone")
  /\ UNCHANGED <<walkVars, built, dbLock, document, ghosts>>

\* Clone, checkout, identity check.
GitClones(p) ==
  /\ pc = "clone" /\ p \in job.batch
  /\ job' = [job EXCEPT !.batch = @ \ {p}, !.now = p]
  /\ Goto("hook")
  /\ UNCHANGED <<walkVars, machine, world, document, ghosts>>

\* _install_aur_build_deps: what the package needs and only the AUR has.
HookNeeds == {d \in Depends[job.now] \cap Aur : ~InRepo(d) /\ ~FromGit(d)}

\* The AUR installer runs inside this session and takes the shared sudoers
\* fragment with it.  What it was asked for it leaves as explicit.
HookInstalls ==
  /\ pc = "hook" /\ HookNeeds # {}
  /\ CanInstall(HookNeeds, Repo \cup Aur)
  /\ Install(HookNeeds, HookNeeds)
  /\ fragment' = FALSE
  /\ Goto("rewrite")
  /\ UNCHANGED <<walkVars, built, builder, dbLock, document, job, ghosts>>

AfterHook == pc = "rewrite" \/ (pc = "hook" /\ HookNeeds = {})

FragmentRewritten ==
  /\ AfterHook
  /\ fragment' = TRUE
  /\ Goto("makepkg")
  /\ UNCHANGED <<walkVars, machine, built, builder, dbLock, document, job, ghosts>>

\* Mutant: the cleanup keeps the fragment.
UserOnlyCleanup ==
  /\ fragment' = fragment
  /\ builder' = IF job.created THEN FALSE ELSE builder

Cleanup ==
  /\ fragment' = FALSE
  /\ builder' = IF job.created THEN FALSE ELSE builder

GitBuilds ==
  /\ pc = "makepkg"
  /\ CanInstall({job.now}, Repo \cup {job.now})
  /\ Install({job.now}, {job.now})
  /\ built' = [built EXCEPT ![job.now] = job.c.source[job.now]]
  /\ job' = [job EXCEPT !.now = Nothing]
  /\ Goto("clone")
  /\ UNCHANGED <<walkVars, fragment, builder, dbLock, document, ghosts>>

\* Clone, checkout, identity check, hook or makepkg.
GitFails ==
  /\ \/ pc \in {"hook", "rewrite", "makepkg"} /\ Fault
     \/ pc = "hook" /\ ~CanInstall(HookNeeds, Repo \cup Aur) /\ UNCHANGED faults
     \/ pc = "makepkg" /\ ~CanInstall({job.now}, Repo \cup {job.now}) /\ UNCHANGED faults
  /\ Cleanup
  /\ IF Continue THEN /\ job' = [job EXCEPT !.now = Nothing, !.failed = @ \cup {job.now}]
                      /\ Goto("git")
                      /\ UNCHANGED <<walkVars, moved, swept>>
                 ELSE Raise
  /\ UNCHANGED <<machine, built, dbLock, document, deaths, acts>>

GitSessionDone ==
  /\ pc = "clone" /\ job.batch = {}
  /\ Cleanup
  /\ Goto("git")
  /\ UNCHANGED <<walkVars, machine, built, dbLock, document, job, ghosts>>

GitDone ==
  /\ pc = "git" /\ job.git = {}
  /\ Goto("aur")
  /\ UNCHANGED <<walkVars, machine, world, document, job, ghosts>>

-----------------------------------------------------------------------------
(***************************************************************************)
(* apply: AurInstaller, first for the required packages, then for the      *)
(* optional ones                                                           *)
(***************************************************************************)

NextBatch == IF job.aur \ job.c.optional # {} THEN job.aur \ job.c.optional ELSE job.aur

\* The helper is chosen from the whole config; it has to be there already or
\* be part of this batch.
HelperOf == IF Helper \in job.c.want \ job.skipped THEN Helper ELSE Nothing
HelperAbsent == HelperOf # Nothing /\ HelperOf \notin NextBatch \cup installed

\* dasik's own resolution looks at everything before it builds anything.
OrderExists(ps) == ps \subseteq Aur /\ \A p \in ps : \A d \in Depends[p] : p \notin Needs[d]

\* What an exception out of a batch comes to: the failure guard records what is
\* missing, when there is one, or else the apply aborts.
BatchRaises ==
  IF NextBatch \subseteq job.c.optional \/ Continue
  THEN /\ job' = [job EXCEPT !.aur = @ \ NextBatch, !.batch = {}, !.todo = {},
                             !.broke = FALSE, !.failed = @ \cup (NextBatch \ installed)]
       /\ Goto("aur")
       /\ UNCHANGED <<walkVars, moved, swept>>
  ELSE Raise

AurPrepares ==
  /\ pc = "aur" /\ job.aur # {}
  /\ CanInstall(Prerequisites, Repo)
  /\ Install(Prerequisites, Prerequisites)
  /\ fragment' = TRUE /\ builder' = TRUE
  /\ LET all   == (UNION {Needs[p] : p \in NextBatch}) \ (Repo \cup installed)
         raise == HelperAbsent \/ (HelperOf = Nothing /\ ~OrderExists(all))
     IN  job' = [job EXCEPT !.created = ~builder, !.batch = NextBatch, !.broke = raise,
                            !.todo = IF raise THEN {} ELSE all]
  /\ Goto("build")
  /\ UNCHANGED <<walkVars, built, dbLock, document, ghosts>>

AurPrerequisitesFail ==
  /\ pc = "aur" /\ job.aur # {}
  /\ CanInstall(Prerequisites, Repo) => Fault
  /\ ~CanInstall(Prerequisites, Repo) => UNCHANGED faults
  /\ BatchRaises
  /\ UNCHANGED <<machine, world, document, deaths, acts>>

\* A dependency of the batch before what needs it; the helper before the rest.
Ready(p) ==
  /\ p \in job.todo
  /\ Depends[p] \cap job.todo = {}
  /\ HelperOf \in job.todo => p \in Needs[HelperOf]

CanBuild(p) == p \in Aur /\ CanInstall({p}, Repo \cup {p})

\* What was discovered on the way is marked as a dependency.
AurBuilds(p) ==
  /\ pc = "build" /\ Ready(p) /\ CanBuild(p)
  /\ Install({p}, job.batch)
  /\ job' = [job EXCEPT !.todo = Done(p)]
  /\ UNCHANGED <<walkVars, world, document, pc, ghosts>>

\* The helper goes on with what does not need the failed package; without one
\* the batch stops.
AurBuildFails(p) ==
  /\ pc = "build" /\ Ready(p)
  /\ CanBuild(p) => Fault
  /\ ~CanBuild(p) => UNCHANGED faults
  /\ job' = [job EXCEPT !.broke = TRUE,
                        !.todo = IF HelperOf \in installed
                                 THEN {q \in @ : p \notin Needs[q]} ELSE {}]
  /\ UNCHANGED <<walkVars, machine, world, document, pc, moved, swept, deaths, acts>>

\* _verify_installed and the cleanup.
AurSessionDone ==
  /\ pc = "build" /\ job.todo = {}
  /\ Cleanup
  /\ IF job.broke \/ ~(job.batch \subseteq installed)
     THEN BatchRaises
     ELSE /\ job' = [job EXCEPT !.aur = @ \ job.batch, !.batch = {}]
          /\ Goto("aur")
          /\ UNCHANGED <<walkVars, moved, swept>>
  /\ UNCHANGED <<machine, built, dbLock, document, deaths, faults, acts>>

AurFinished ==
  /\ pc = "aur" /\ job.aur = {}
  /\ Goto("reasons")
  /\ UNCHANGED <<walkVars, machine, world, document, job, ghosts>>

-----------------------------------------------------------------------------
(***************************************************************************)
(* apply: _enforce_reasons and the removals                                *)
(***************************************************************************)

\* From what is true now, and from what this apply asked pacman for.
ToDep == {n \in job.c.dep : n \in Explicit \cup job.plan.reason \cup job.repo}
ToExplicit == {n \in job.c.want \ job.c.dep : n \in asdep \cup job.plan.reason}

\* pacman -D marks what is installed and fails when a name is not.
MarkReasons ==
  /\ pc = "reasons"
  /\ asdep' = (asdep \cup (ToDep \cap installed)) \
                (IF ToDep \subseteq installed THEN ToExplicit ELSE {})
  /\ IF ToDep \cup ToExplicit \subseteq installed
     THEN Goto("remove") /\ UNCHANGED <<walkVars, job, moved, swept>>
     ELSE Raise
  /\ UNCHANGED <<installed, world, document, deaths, faults, acts>>

Leaving == job.plan.remove \cap installed

RemovePackages ==
  /\ pc = "remove"
  /\ CanRemove(Leaving)
  /\ RemoveWithDependencies(Leaving)
  /\ swept' = swept \cup Swept(Leaving)
  /\ Forget
  /\ Goto("record")
  /\ UNCHANGED <<walkVars, fragment, builder, dbLock, document, job, moved, deaths, faults, acts>>

RemovalRefused ==
  /\ pc = "remove" /\ Leaving # {}
  /\ CanRemove(Leaving) => Fault
  /\ ~CanRemove(Leaving) => UNCHANGED faults
  /\ Raise
  /\ UNCHANGED <<machine, world, document, deaths, acts>>

\* Mutant: what failed is claimed.
ClaimsFailures == job.c.want \ job.skipped

\* managed_keys: never what was not installed.
ManagedKeys == (job.c.want \ job.skipped) \ job.failed

\* managed_keys and state_metadata, into the manifest.
Record ==
  /\ pc = "record"
  /\ owned' = ManagedKeys
  /\ refs' = [p \in Package |-> IF p \in installed THEN job.c.source[p] ELSE Nothing]
  /\ Raise
  /\ UNCHANGED <<machine, world, config, deaths, faults, acts>>

-----------------------------------------------------------------------------
(***************************************************************************)
(* sync, and what happens around dasik                                     *)
(***************************************************************************)

\* _captured_sources: those of installed packages, the declared one first.
CapturedSources ==
  LET taken == {p \in installed : config.source[p] # Nothing \/ refs[p] # Nothing}
  IN  IF taken = {} THEN config.source
      ELSE [p \in Package |-> IF p \notin taken THEN Nothing
                              ELSE IF config.source[p] # Nothing THEN config.source[p] ELSE refs[p]]

\* Packages an enabled unit proves to be wanted.
Proved == (((BehindUnits \cap installed) \ config.want) \ Actual(config)) \ Covered(config)

CapturedNames == config.want \cup Proved \cup ((Actual(config) \ config.want) \ Covered(config))

\* import_state and _owned_after_sync; the manifest keeps the applied refs.
Sync ==
  /\ pc = "idle"
  /\ config' = [config EXCEPT !.want = CapturedNames,
                              !.dep = Proved \cup {n \in config.want \cap installed : n \notin Actual(config)},
                              !.source = CapturedSources]
  /\ owned' = Actual(config) \cap (owned \cup config.want)
  /\ UNCHANGED <<walkVars, machine, world, refs, pc, job, ghosts>>

\* A death leaves what it finds: the build user, the fragment, pacman's lock.
Die ==
  /\ pc # "idle" /\ Fault /\ deaths' = deaths + 1
  /\ dbLock' \in {FALSE, TRUE}
  /\ Raise
  /\ UNCHANGED <<machine, built, fragment, builder, document, acts>>

AdminUnlock ==
  /\ dbLock
  /\ dbLock' = FALSE
  /\ UNCHANGED <<walkVars, machine, built, fragment, builder, document, pc, job, ghosts>>

Act == acts < MaxActs /\ acts' = acts + 1

UserInstalls(p) ==
  /\ Act /\ ~dbLock
  /\ p \notin installed /\ CanInstall({p}, Repo \cup Aur)
  /\ Install({p}, {p})
  /\ moved' = IF pc = "idle" THEN moved ELSE moved \cup Missing({p})
  /\ UNCHANGED <<walkVars, world, document, pc, job, swept, deaths, faults>>

UserRemoves(p) ==
  /\ Act /\ ~dbLock
  /\ p \in installed /\ CanRemove({p})
  /\ RemoveWithDependencies({p})
  /\ moved' = IF pc = "idle" THEN moved ELSE moved \cup {p} \cup Swept({p})
  /\ Forget
  /\ UNCHANGED <<walkVars, fragment, builder, dbLock, document, pc, job, swept, deaths, faults>>

EditConfig ==
  /\ Act /\ pc = "idle"
  /\ config' \in Configs \ {config}
  /\ UNCHANGED <<walkVars, machine, world, owned, refs, pc, job, moved, swept, deaths, faults>>

-----------------------------------------------------------------------------

Before == DatabaseLocked \/ ResolveRefused \/ Resolve \/ GateLevel \/ GateRefused \/ GatePassed

Repositories ==
  \/ RequiredInstalled \/ RequiredFails \/ ConflictsCleared \/ ClearingFails
  \/ Salvage \/ Salvaged \/ OptionalDone
  \/ \E n \in Name : SalvageInstalls(n) \/ SalvageFails(n) \/ OptionalInstalls(n) \/ OptionalFails(n)

FromSource ==
  \/ GitPrepares \/ HookInstalls \/ FragmentRewritten \/ GitBuilds \/ GitFails
  \/ GitSessionDone \/ GitDone
  \/ AurPrepares \/ AurPrerequisitesFail \/ AurSessionDone \/ AurFinished
  \/ \E p \in Package : GitClones(p) \/ AurBuilds(p) \/ AurBuildFails(p)

ApplyStep ==
  \/ Before \/ Repositories \/ FromSource
  \/ MarkReasons \/ RemovePackages \/ RemovalRefused \/ Record

Apply == StartApply \/ ApplyStep

Next ==
  \/ Apply \/ Sync \/ Die \/ AdminUnlock \/ EditConfig
  \/ \E p \in ByHand : UserInstalls(p) \/ UserRemoves(p)

\* An apply that runs goes on to its end; the administrator clears a stale lock
\* and applies again.
Spec == Init /\ [][Next]_vars /\ WF_vars(Apply) /\ WF_vars(AdminUnlock)

-----------------------------------------------------------------------------
(***************************************************************************)
(* Properties: what the packages action is for.                            *)
(***************************************************************************)
Met(n) == Satisfied(n) \/ Complete(n)

\* The packages whose loss means the loss of the name.
Behind(n) == IF n \in Group THEN Members[n] ELSE {n}

\* When an apply comes to record what it did, every declared package on the
\* machine has the install reason the config gives it, the one pacman brought in
\* as a dependency of another included (_enforce_reasons).
ReasonsHold ==
  pc = "record" =>
    \A n \in (job.c.want \cap installed) \ moved : (n \in asdep) = (n \in job.c.dep)

\* What an apply claims in the manifest is on the machine, as a package, through
\* a provider or as a whole group, up to what others removed meanwhile, what
\* pacman swept out with another package, and a provider that was itself planned
\* to go (managed_keys, _failure_guard, _verify_installed).
ClaimsAreMet ==
  pc = "record" =>
    \A n \in ManagedKeys :
      \/ Met(n)
      \/ Behind(n) \cap (moved \cup swept) # {}
      \/ \E p \in job.plan.remove : n \in Provides[p]

\* Whenever makepkg or the helper runs, its user exists and can elevate; else
\* the build dies asking for a password (_write_sudoers, _ensure_prerequisites).
BuildsCanElevate ==
  (pc = "makepkg" \/ (pc = "build" /\ job.todo # {})) => fragment /\ builder

InSession == pc \in {"clone", "hook", "rewrite", "makepkg", "build"}

\* Only a death of dasik leaves the passwordless-sudo fragment behind when an
\* installer's session ends (the finally of both installers).
OnlyDeathLeavesFragment ==
  [][InSession /\ ~InSession' => ~fragment' \/ deaths' > deaths]_vars

\* The closure gate reports no root without a broken chain, and lets no batch
\* through in which there is one (validate_aur_closure).
GateIsRight ==
  (pc = "gate" /\ frontier = {} /\ moved = {}) =>
    LET roots == AskedOfAur \cap Aur IN
      /\ \A r \in BrokenRoots : Hopeless(r, Reached)
      /\ (\E r \in roots : Hopeless(r, Reached)) => BrokenRoots # {}

\* What sync has just captured, the next plan does not remove.
SyncPlansNoRemoval ==
  [][Sync => ToRemove(config', owned') = {}]_vars

\* A package whose new commit failed to build is built again by the next apply:
\* where a failed build ends the apply, what the manifest takes for applied, when
\* that is what the config asks for, is what was built.
FailedBuildsAreRetried ==
  pc = "idle" /\ config.failure = "abort" =>
    \A p \in installed \ (Repo \cup ByHand) :
      (refs[p] # Nothing /\ refs[p] = config.source[p]) => built[p] = refs[p]

\* What an apply records is what it leaves: the reasons, the names it claims and
\* the commits it takes for applied.  And what a sync records is no removal.
RecordIsTrue ==
  [](ReasonsHold /\ ClaimsAreMet /\ FailedBuildsAreRetried) /\ SyncPlansNoRemoval

\* Builds run with what they need, for packages that can be had, and leave no
\* privilege behind.
BuildsAreSound == [](BuildsCanElevate /\ GateIsRight) /\ OnlyDeathLeavesFragment

\* Names whose installation can only fail: nowhere to be found, or needing
\* something that is.
Unattainable(c) ==
  {n \in c.want \cap Package : ~(Needs[n] \subseteq Repo \cup Aur \cup installed)}

\* A package conflicts with a declared one and dasik will not remove it, or the
\* closure of the AUR packages is over the cap: for the administrator to decide.
NeedsADecision(c) ==
  \/ Cardinality(UNION {Needs[n] : n \in (c.want \cap Aur) \ installed} \cap Aur) > MaxNodes
  \/ \E n \in c.want \cap Package, b \in (installed \cup c.want) \cap Package :
       b \in Conflicts[n] /\ (b \in c.want \/ c.conflicts = "abort" \/ RequiredBy(b) # {})

Quiet(plan) ==
  /\ plan.install \subseteq Unattainable(config)
  /\ plan.reason = {} /\ plan.rebuild = {} /\ plan.remove = {}

\* Whatever failed, died or was changed by hand, applying again comes to rest:
\* in the end the plan only ever asks for what cannot be had.
EventuallyQuiet == <>[](NeedsADecision(config) \/ Quiet(PlanOf(config, owned, refs)))

=============================================================================
