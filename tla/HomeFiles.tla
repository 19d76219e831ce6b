----------------------------- MODULE HomeFiles -----------------------------
(***************************************************************************)
(* lib/actions/home_files_action.py: files in somebody's home, written by  *)
(* root and handed over, with the directories that had to be made.         *)
(***************************************************************************)
EXTENDS FileTree, Users

CONSTANTS HomePaths,        \* the paths that lie in a home
          Ancestors(_),     \* the directories above one, the home first
          UserOf(_)         \* the user whose home that is
VARIABLE ownedHome

Parent(p) == Last(Ancestors(p))

\* _drift_reason; an account that is not there has no owner to compare.
Drifts(home, p) ==
    \/ IsLink(p)
    \/ Read(p) # home[p].content
    \/ UserOf(p) \in DOMAIN accounts /\ Owner(p) # accounts[UserOf(p)].uid
    \/ home[p].private /\ ~Private(p)

PlanHome(home) ==
    [add |-> {p \in DOMAIN home : ~Exists(p)},
     change |-> {p \in DOMAIN home : Exists(p) /\ Drifts(home, p)},
     drop |-> ownedHome \ DOMAIN home]

EachHome(do, paths) ==
    [i \in 1 .. Cardinality(paths) |-> [action |-> "home", do |-> do, path |-> SetToSeq(paths)[i], arg |-> ""]]

\* In the order of the plan: compute_changes' list, then what drifted.
HomeSteps(plan) ==
    EachHome("write-home", plan.add) \o EachHome("unlink", plan.drop) \o EachHome("write-home", plan.change)

\* _write looks upwards for a directory that is there: what is missing below it.
MissingAbove(p) ==
    LET above == Ancestors(p)
        absent == {i \in DOMAIN above : \A j \in i .. Len(above) : ~Exists(above[j])}
    IN SubSeq(above, Len(above) - Cardinality(absent) + 1, Len(above))

\* No such user, or a parent that is no directory dasik may write into, or
\* below a link that leads nowhere.
CannotWriteHome(p) ==
    \/ UserOf(p) \notin DOMAIN accounts
    \/ Exists(Parent(p)) /\ tree[Parent(p)].kind # "dir"
    \/ IsLink(Parent(p))
    \/ \E i \in DOMAIN MissingAbove(p) : IsLink(MissingAbove(p)[i])

\* Mutant: the directories stay root's.
OwnFileOnly(home, p) ==
    LET missing == MissingAbove(p)
    IN [i \in 1 .. Len(missing) |-> Call("mkdir", missing[i], "")]
           \o WriteCalls(p, home[p]) \o <<Call("chown", p, UserOf(p))>>

\* _write: what is missing on the way is made, then handed to the user.
WriteHomeCalls(home, p) ==
    LET missing == MissingAbove(p)
    IN [i \in 1 .. Len(missing) |-> Call("mkdir", missing[i], "")]
           \o [i \in 1 .. Len(missing) |-> Call("chown", missing[i], UserOf(p))]
           \o WriteCalls(p, home[p]) \o <<Call("chown", p, UserOf(p))>>

ActualHome(home) == {p \in DOMAIN home : Exists(p)}

\* import_state: the declared entries that are there, and what the manifest
\* owns - without the mode, which only a declaration says.
CapturedHome(home) ==
    LET owned == {p \in ownedHome \ DOMAIN home : Exists(p) /\ UserOf(p) \in DOMAIN accounts}
    IN [p \in ActualHome(home) \cup owned |->
            [content |-> Read(p), private |-> p \in DOMAIN home /\ home[p].private]]
=============================================================================
