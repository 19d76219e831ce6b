------------------------------- MODULE Files -------------------------------
(***************************************************************************)
(* Accounts, the files in their homes, the files under /etc and the lines  *)
(* of a random-key swap in one apply, in the registry's order: Users,      *)
(* HomeFiles, DropFiles, EncryptedSwap and, for /etc/crypttab, the dracut  *)
(* backend.  The plan is made before the first step.                       *)
(***************************************************************************)
EXTENDS DropFiles

CONSTANTS Scenarios,        \* a machine, its owner's documents, whether there is a sync
          EtcDir(_),        \* the directory a path under /etc lies in
          Secrets,          \* the lines that are somebody's secret
          MaxCuts, MaxApplies, MaxHands

VARIABLES
    docs, doc, maySync,
    todo, pc,
    usersFailed,            \* a command for one of the accounts failed
    settled,                \* the last apply ended well, nothing happened since
    halfMade,               \* home directories made and not handed over before a cut
    unread,                 \* systemd files changed by hand, by a run cut before its
                            \* reload or by one whose reload failed
    everOwned,              \* paths the manifest named since the last sync
    cuts, applies, hands

counters == <<cuts, applies, hands>>
ghosts == <<halfMade, unread, everOwned>>
owned == <<ownedUsers, ownedHome, ownedFiles, ownedSwap>>
vars == <<tree, accounts, owned, loaded, docs, doc, maySync, todo, pc, usersFailed, settled, ghosts, counters>>

HomeDirs == UNION {{Ancestors(p)[i] : i \in DOMAIN Ancestors(p)} : p \in HomePaths}
HomeOf(name) == {p \in HomePaths : UserOf(p) = name}
Below(name) == HomeOf(name) \cup UNION {{Ancestors(p)[i] : i \in DOMAIN Ancestors(p)} : p \in HomeOf(name)}

(* A home is none of the places the system's files lie in, and no package  *)
(* ships a file in one.                                                    *)
ASSUME PathAssumption ==
    /\ IsFiniteSet(HomePaths) /\ IsFiniteSet(EtcPaths)
    /\ HomePaths \cap (EtcPaths \cup Shipped \cup {Fstab, Crypttab}) = {} /\ Fstab \notin EtcPaths
    /\ Discovered \cup {Environment} \subseteq EtcPaths
    /\ \A p \in HomePaths : /\ Ancestors(p) \in Seq(HomeDirs \ {Fstab, Crypttab})
                            /\ Ancestors(p) # <<>> /\ IsInjective(Ancestors(p))
    /\ \A p \in EtcPaths : EtcDir(p) \notin {Fstab, Crypttab}

DocumentOK(d) ==
    /\ {"users", "home", "files", "dracut"} \subseteq DOMAIN d
    /\ IsFiniteSet(DOMAIN d.users) /\ DOMAIN d.home \subseteq HomePaths /\ DOMAIN d.files \subseteq EtcPaths

(* The two files that several actions write are no links. *)
ASSUME ScenarioAssumption ==
    \A s \in Scenarios :
        /\ IsFiniteSet(DOMAIN s.accounts) /\ \A d \in s.docs : DocumentOK(d)
        /\ \A p \in DOMAIN s.tree : DOMAIN s.tree[p] = DOMAIN Dir(Root)
        /\ \A p \in {Fstab, Crypttab} \cap DOMAIN s.tree : s.tree[p].kind # "link"

-----------------------------------------------------------------------------
(* One apply *)

Planned(d) == [users |-> PlanUsers(d.users), home |-> PlanHome(d.home), files |-> PlanFiles(d),
               swap |-> PlanSwap(d), crypttab |-> PlanCrypttab(d)]
Nothing(p) == \A domain \in DOMAIN p :
    p[domain].add \cup p[domain].change \cup p[domain].drop = {}

StepsOf(d, p) == UserSteps(p.users) \o HomeSteps(p.home) \o FileSteps(p.files)
                     \o SwapSteps(d, p.swap) \o CrypttabSteps(p.crypttab)

\* Actions before the one that stopped have completed.
Completed(action) ==
    CASE action = "users" -> {} [] action = "home" -> {"users"} [] action = "files" -> {"users", "home"}
      [] action = "swap" -> {"users", "home", "files"}
      [] action = "initramfs" -> {"users", "home", "files", "swap"}

Record(done) ==
    /\ ownedUsers' = IF "users" \in done THEN DeclaredNonRoot(doc.users) ELSE ownedUsers
    /\ ownedHome' = IF "home" \in done THEN DOMAIN doc.home ELSE ownedHome
    /\ ownedFiles' = IF "files" \in done THEN DOMAIN Desired(doc) ELSE ownedFiles
    /\ ownedSwap' = IF "swap" \in done THEN doc.swap ELSE ownedSwap
    /\ everOwned' = {p \in everOwned \cup ownedHome' \cup ownedFiles' : Exists(p)}

StartApply ==
    /\ pc = "idle" /\ applies < MaxApplies /\ Accepted(doc.users) /\ ~Nothing(Planned(doc))
    /\ pc' = "running" /\ todo' = StepsOf(doc, Planned(doc)) /\ applies' = applies + 1
    /\ settled' = FALSE /\ usersFailed' = FALSE
    /\ UNCHANGED <<tree, accounts, owned, loaded, docs, doc, maySync, ghosts, cuts, hands>>

Same == UNCHANGED <<owned, docs, doc, maySync, pc, usersFailed, settled, ghosts, counters>>
Finish ==
    /\ pc = "running" /\ todo = <<>> /\ ~usersFailed
    /\ Record({"users", "home", "files", "swap"})
    /\ pc' = "idle" /\ settled' = TRUE
    /\ UNCHANGED <<tree, accounts, loaded, docs, doc, maySync, todo, usersFailed, halfMade, unread, counters>>

Stop ==
    /\ pc' = "idle" /\ todo' = <<>> /\ usersFailed' = FALSE
    /\ halfMade' = halfMade \cup
           {todo[i].path : i \in {j \in DOMAIN todo : todo[j].do = "chown" /\ todo[j].path \in HomeDirs}}
    /\ unread' = {p \in SystemdPaths : Read(p) # loaded[p]}
    /\ UNCHANGED <<tree, accounts, loaded, docs, doc, maySync, settled, applies, hands>>

\* The failures of the accounts are raised when all were attempted.
UsersRaise == usersFailed /\ (todo # <<>> => Head(todo).action # "users")
RaiseUsers == pc = "running" /\ UsersRaise /\ Stop /\ Record({}) /\ UNCHANGED cuts

Now(do) == pc = "running" /\ todo # <<>> /\ ~UsersRaise /\ Head(todo).do = do
Path == Head(todo).path
Proceed == todo' = Tail(todo)
Expand(calls) ==
    todo' = [i \in DOMAIN calls |-> [calls[i] EXCEPT !.action = Head(todo).action]] \o Tail(todo)

MustStop ==
    \/ Head(todo).do = "write-home" /\ CannotWriteHome(Path)
    \/ Head(todo).do = "write" /\ IsLink(EtcDir(Path)) /\ ~Exists(EtcDir(Path))

Fail ==
    /\ pc = "running" /\ todo # <<>> /\ ~UsersRaise
    /\ IF MustStop THEN UNCHANGED cuts
       ELSE Head(todo).do = "fill" /\ cuts < MaxCuts /\ cuts' = cuts + 1
    /\ Stop /\ Record(Completed(Head(todo).action))

Die ==
    /\ pc = "running" /\ todo # <<>> /\ cuts < MaxCuts /\ cuts' = cuts + 1
    /\ Stop /\ UNCHANGED <<owned, everOwned>>

FailUser ==
    /\ pc = "running" /\ todo # <<>> /\ Head(todo).action = "users"
    /\ IF CannotRun(Head(todo)) THEN UNCHANGED cuts ELSE cuts < MaxCuts /\ cuts' = cuts + 1
    /\ usersFailed' = TRUE /\ todo' = AfterFailure(todo)
    /\ UNCHANGED <<tree, accounts, owned, loaded, docs, doc, maySync, pc, settled, ghosts, applies, hands>>

-----------------------------------------------------------------------------
(* Its steps *)

\* useradd -m makes the home, userdel -r takes it away.
UserCommand ==
    /\ pc = "running" /\ todo # <<>> /\ Head(todo).action = "users" /\ ~CannotRun(Head(todo))
    /\ Proceed /\ Same /\ UNCHANGED loaded
    /\ \/ /\ Now("useradd") /\ Useradd(doc.users, Path)
          /\ tree' = IF Path \in DOMAIN tree THEN tree ELSE Put(Path, Dir(NextUid))
       \/ Now("usermod") /\ Usermod(doc.users, Path) /\ UNCHANGED tree
       \/ Now("chpasswd") /\ Chpasswd(doc.users, Path) /\ UNCHANGED tree
       \/ Now("userdel") /\ Userdel(Path) /\ tree' = IF doc.purge THEN Without(Below(Path)) ELSE tree

StartWrite ==
    /\ pc = "running" /\ todo # <<>> /\ ~MustStop /\ Same /\ UNCHANGED <<tree, accounts, loaded>>
    /\ \/ Now("write-home") /\ Expand(WriteHomeCalls(doc.home, Path))
       \/ Now("write") /\ Expand(WriteCalls(Path, Desired(doc)[Path]))

FileCall ==
    /\ pc = "running" /\ todo # <<>> /\ Proceed /\ Same /\ UNCHANGED <<accounts, loaded>>
    /\ \/ Now("mkdir") /\ Mkdir(Path)
       \/ Now("chown") /\ Chown(Path, accounts[Head(todo).arg].uid)
       \/ Now("detach") /\ Detach(Path)
       \/ Now("open") /\ Open(Path, Head(todo).arg)
       \/ Now("chmod") /\ Chmod(Path)
       \/ Now("fill") /\ Fill(Path, Head(todo).arg)
       \/ Now("unlink") /\ Unlink(Path)
       \/ Now("delete") /\ Delete(Path)
       \/ Now("append") /\ AddLine(Path)
       \/ Now("strip") /\ Strip(Path)
       \/ Now("compose") /\ Compose(doc)

\* Nobody looks at how `systemctl daemon-reload' ended.
Reload ==
    /\ Now("reload") /\ Proceed
    /\ \/ DaemonReload /\ unread' = {} /\ UNCHANGED cuts
       \/ /\ cuts < MaxCuts /\ cuts' = cuts + 1 /\ UNCHANGED loaded
          /\ unread' = {p \in SystemdPaths : Read(p) # loaded[p]}
    /\ UNCHANGED <<tree, accounts, owned, docs, doc, maySync, pc, usersFailed, settled, halfMade, everOwned,
                   applies, hands>>

-----------------------------------------------------------------------------
(* Between applies *)

Idle == pc = "idle" /\ settled' = FALSE /\ UNCHANGED <<todo, pc, usersFailed, docs, maySync, cuts, applies>>

EditDoc == Idle /\ doc' \in docs \ {doc} /\ UNCHANGED <<tree, accounts, owned, loaded, ghosts, hands>>

Kept(had, declared, actual) == actual \cap (had \cup declared)

Sync ==
    /\ Idle /\ maySync /\ Accepted(doc.users) /\ hands < MaxHands /\ hands' = hands + 1
    /\ doc' = [doc EXCEPT !.users = CapturedUsers(doc.users), !.home = CapturedHome(doc.home),
                          !.files = CapturedFiles(doc)]
    /\ ownedUsers' = Kept(ownedUsers, DeclaredNonRoot(doc.users), ActualUsers)
    /\ ownedHome' = Kept(ownedHome, DOMAIN doc.home, ActualHome(doc.home))
    /\ ownedFiles' = Kept(ownedFiles, DOMAIN Desired(doc), ActualFiles(doc))
    /\ ownedSwap' = (doc.swap /\ Converged(doc))
    /\ everOwned' = ownedHome' \cup ownedFiles'
    /\ UNCHANGED <<tree, accounts, loaded, halfMade, unread>>

ByHand == [content |-> {"by-hand"}, private |-> FALSE]

\* The owner's or a user's own doing.  An account goes with its home.
HandFile ==
    /\ Idle /\ hands < MaxHands /\ hands' = hands + 1
    /\ \E p \in DOMAIN tree \cap (HomePaths \cup EtcPaths) :
        \/ tree' = Without({p})
        \/ p # Crypttab /\ tree' = Put(p, Link("outside"))
        \/ ~IsLink(p) /\ tree' = Put(p, [tree[p] EXCEPT !.content = {"by-hand"}, !.private = FALSE])
        \/ p \in EtcPaths /\ tree' = [Without({p}) EXCEPT ![EtcDir(p)] = Link("nowhere")]
        \/ /\ p \in HomePaths /\ Parent(p) \in DOMAIN tree
           /\ tree' = [Without({p}) EXCEPT ![Parent(p)] = Link("outside")]
    /\ unread' = unread \cup {p \in SystemdPaths : p \in DOMAIN tree /\ (p \notin DOMAIN tree' \/ tree'[p] # tree[p])}
    /\ UNCHANGED <<accounts, owned, loaded, doc, halfMade, everOwned>>

\* A link in a directory's place is taken out again.
HandRepair ==
    /\ Idle /\ UNCHANGED <<accounts, owned, loaded, doc, ghosts, hands>>
    /\ \E d \in DOMAIN tree \ (HomePaths \cup EtcPaths) : IsLink(d) /\ tree' = Without({d})

HandAccount ==
    /\ Idle /\ hands < MaxHands /\ hands' = hands + 1
    /\ \/ /\ \E password \in {Locked, "p1"} :
                accounts' = [n \in DOMAIN accounts \cup {"eve"} |->
                    IF n = "eve" THEN [uid |-> NextUid, login |-> "l1", password |-> password] ELSE accounts[n]]
          /\ UNCHANGED tree
       \/ \E name \in ActualUsers : Userdel(name) /\ tree' = Without(Below(name))
    /\ UNCHANGED <<owned, loaded, doc, ghosts>>

Init ==
    \E s \in Scenarios :
        /\ docs = s.docs /\ doc \in s.docs /\ maySync = s.sync
        /\ tree = s.tree /\ accounts = s.accounts
        /\ loaded = OnDisk
        /\ ownedUsers = {} /\ ownedHome = {} /\ ownedFiles = {} /\ ownedSwap = FALSE
        /\ todo = <<>> /\ pc = "idle" /\ usersFailed = FALSE /\ settled = FALSE
        /\ halfMade = {} /\ unread = {} /\ everOwned = {}
        /\ cuts = 0 /\ applies = 0 /\ hands = 0

Next ==
    \/ StartApply \/ Finish \/ RaiseUsers \/ Fail \/ Die \/ FailUser
    \/ UserCommand \/ StartWrite \/ FileCall \/ Reload
    \/ EditDoc \/ Sync \/ HandFile \/ HandRepair \/ HandAccount

Spec == Init /\ [][Next]_vars

-----------------------------------------------------------------------------
(* Properties *)

(* A document that is accepted and applied once to the end leaves nothing  *)
(* to do, however the earlier attempts ended and whatever was done by      *)
(* hand; dracut's crypttab and the file entry are one writer's.            *)
SecondPlanIsSilent == settled => Nothing(Planned(doc))

(* What no plan reads is right too after such an apply: systemd has read   *)
(* the files that are there, a directory on the way to a home file is not  *)
(* root's, and what dasik owned and the document dropped is gone, unless a *)
(* package ships it.  Two things no plan notices are excepted: files that  *)
(* systemd has not read, because the run that wrote them was cut or its    *)
(* daemon-reload failed - that run ends well all the same, and says that   *)
(* systemd was reloaded - or because they were changed by hand; and the    *)
(* directories a cut run made and did not hand over.                       *)
AppliedIsInForce ==
    settled =>
        /\ \A p \in SystemdPaths \ unread : loaded[p] = Read(p)
        /\ \A d \in HomeDirs \ halfMade : d \in DOMAIN tree => tree[d].owner # Root \/ IsLink(d)
        /\ \A p \in everOwned \ (DOMAIN Desired(doc) \cup DOMAIN doc.home \cup Shipped) :
                Exists(p) => p = Crypttab /\ doc.dracut

(* While dasik writes, a file the document wants private never comes to    *)
(* show a secret to the other users, also when the apply dies at the worst *)
(* moment, and over a file that was open to everybody before.              *)
Shows(p, t) == p \in DOMAIN t /\ t[p].content \cap Secrets # {} /\ ~t[p].private
SecretsStayPrivate ==
    [][pc = "running" =>
        \A p \in DOMAIN doc.home \cup DOMAIN doc.files :
            (p \in DOMAIN doc.home /\ doc.home[p].private) \/ (p \in DOMAIN doc.files /\ doc.files[p].private)
                => (Shows(p, tree') => Shows(p, tree))]_vars

(* The crypttab that dracut composes has no mode of its own, whatever a    *)
(* document says of that file, and its swap's line is nobody's secret.     *)
ComposesNoSecret ==
    /\ SwapLine \notin Secrets
    /\ \A s \in Scenarios : \A d \in s.docs :
           d.dracut /\ Crypttab \in DOMAIN d.files => ~d.files[Crypttab].private

(* No step of an apply changes or removes anything but a file that is      *)
(* declared or owned, through a link neither; a directory it only makes    *)
(* and hands over; a file a package ships is never removed.                *)
Mine == DOMAIN doc.home \cup DOMAIN doc.files \cup ownedHome \cup ownedFiles \cup {Fstab, Crypttab}
TouchesOnlyItsOwn ==
    [][pc = "running" =>
        \A p \in DOMAIN tree :
            /\ p \notin DOMAIN tree' =>
                    \/ p \in (ownedHome \cup ownedFiles) \ Shipped \/ (p \in Mine /\ IsLink(p))
                    \/ doc.purge /\ p \in Below(Path)
            /\ p \in DOMAIN tree' /\ tree'[p] # tree[p] =>
                    p \in Mine \/ (p \in HomeDirs /\ tree[p].owner = Root)]_vars

=============================================================================
