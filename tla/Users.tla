------------------------------- MODULE Users -------------------------------
(***************************************************************************)
(* lib/actions/users_action.py: accounts, created and modified by a        *)
(* sequence of commands each, every account attempted whatever became of   *)
(* the one before it, the failures raised together at the end.             *)
(***************************************************************************)
EXTENDS Integers, FiniteSets, Sequences, SequencesExt, FiniteSetsExt

VARIABLES accounts,         \* name -> uid, login (shell and groups) and password
          ownedUsers

Locked == "!"               \* what useradd leaves until chpasswd
RootName == "root"

ActualUsers == DOMAIN accounts \ {RootName}
DeclaredNonRoot(users) == DOMAIN users \ {RootName}

ModifyReason(users, name) ==
    {attribute \in {"login", "password"} :
        /\ users[name][attribute] # accounts[name][attribute]
        /\ name = RootName => attribute = "password"}

PlanUsers(users) ==
    [add |-> DeclaredNonRoot(users) \ ActualUsers,
     change |-> {name \in DOMAIN users \cap DOMAIN accounts : ModifyReason(users, name) # {}},
     drop |-> ownedUsers \ DeclaredNonRoot(users)]

UserStep(do, name) == [action |-> "users", do |-> do, path |-> name, arg |-> ""]

\* The two commands of each of some accounts.
Pairs(first, second, names) ==
    [k \in 1 .. 2 * Cardinality(names) |->
        UserStep(IF k % 2 = 1 THEN first ELSE second, SetToSeq(names)[(k + 1) \div 2])]

\* apply; root's login is nobody's to change.
UserSteps(plan) ==
    Pairs("useradd", "chpasswd", plan.add)
        \o Pairs("usermod", "chpasswd", plan.change \ {RootName})
        \o (IF RootName \in plan.change THEN <<UserStep("chpasswd", RootName)>> ELSE <<>>)
        \o [i \in 1 .. Cardinality(plan.drop) |-> UserStep("userdel", SetToSeq(plan.drop)[i])]

\* A failure skips the rest of that account's own sequence.
AfterFailure(steps) ==
    LET rest == Tail(steps)
    IN IF rest # <<>> /\ Head(rest).action = "users" /\ Head(rest).path = Head(steps).path
       THEN Tail(rest) ELSE rest

NextUid == Max({accounts[name].uid : name \in DOMAIN accounts}) + 1
Useradd(users, name) ==
    accounts' = [n \in DOMAIN accounts \cup {name} |->
        IF n = name THEN [uid |-> NextUid, login |-> users[name].login, password |-> Locked]
        ELSE accounts[n]]
Usermod(users, name) == accounts' = [accounts EXCEPT ![name].login = users[name].login]
Chpasswd(users, name) == accounts' = [accounts EXCEPT ![name].password = users[name].password]
Userdel(name) == accounts' = [n \in DOMAIN accounts \ {name} |-> accounts[n]]

\* A command on an account that is not there, or one that is.
CannotRun(step) ==
    \/ step.do = "useradd" /\ step.path \in DOMAIN accounts
    \/ step.do \in {"usermod", "chpasswd", "userdel"} /\ step.path \notin DOMAIN accounts

Attributes(name) == [login |-> accounts[name].login, password |-> accounts[name].password]

\* import_state: the declared accounts as they are, or as they were meant;
\* root while it has a password; and every other login account.
CapturedUsers(users) ==
    LET names == DeclaredNonRoot(users) \cup ActualUsers
                     \cup (IF accounts[RootName].password # Locked THEN {RootName} ELSE {})
    IN [name \in names |-> IF name \in DOMAIN accounts THEN Attributes(name) ELSE users[name]]

\* UserModel._must_be_hash: a document with another password is refused.
Accepted(users) == \A name \in DOMAIN users : users[name].password # Locked
=============================================================================
