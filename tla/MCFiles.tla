------------------------------ MODULE MCFiles ------------------------------
(***************************************************************************)
(* Two accounts with a file each, one of them two directories deep and one *)
(* a secret; a systemd drop-in, a keyfile, /etc/environment, a PAM file a  *)
(* package ships and /etc/crypttab.                                        *)
(***************************************************************************)
EXTENDS Files

HomePathsValue == {"ann/.config/app/rc", "bob/.netrc"}
AncestorsOf(p) == IF p = "bob/.netrc" THEN <<"bob">> ELSE <<"ann", "ann/.config", "ann/.config/app">>
UserOfPath(p) == IF p = "bob/.netrc" THEN "bob" ELSE "ann"
EtcPathsValue == {"dropin", "key", Environment, "pam", Crypttab}
DirOf(p) == IF p = "dropin" THEN "unit.d" ELSE "etc"

Nobody == [name \in {} |-> {}]
Say(content, private) == [content |-> content, private |-> private]
Doc(users, home, files) ==
    [users |-> users, home |-> home, files |-> files, swap |-> FALSE, dracut |-> FALSE, purge |-> FALSE]
Login(login, password) == [login |-> login, password |-> password]

Machine == [p \in {"etc", "unit.d", "outside", Fstab, "pam", Environment} |->
    CASE p = "etc" \/ p = "unit.d" -> Dir(Root)
      [] p = Environment -> File({Comment}, FALSE, Root)
      [] OTHER -> File({p}, FALSE, Root)]
OnlyRoot == [name \in {RootName} |-> [uid |-> Root, login |-> "l1", password |-> "p1"]]

Ann == "ann" :> Login("l1", "p1")
Rc(content) == "ann/.config/app/rc" :> Say({content}, FALSE)
Token == "bob/.netrc" :> Say({"secret"}, TRUE)

Accounts ==
    [tree |-> Machine, accounts |-> OnlyRoot, sync |-> TRUE,
     docs |-> {Doc(Ann @@ "bob" :> Login("l1", "p1"), Rc("v1") @@ Token, Nobody),
               [Doc("ann" :> Login("l2", "p2") @@ RootName :> Login("l1", "p2"), Rc("v2"), Nobody)
                    EXCEPT !.purge = TRUE],
               [Doc(Ann, Nobody, Nobody) EXCEPT !.purge = TRUE]}]

Etc ==
    [tree |-> Machine, accounts |-> OnlyRoot, sync |-> TRUE,
     docs |-> {Doc(Nobody, Nobody, "dropin" :> Say({"v1"}, FALSE) @@ "key" :> Say({"secret"}, TRUE)
                                        @@ Environment :> Say({"A=1"}, FALSE)),
               Doc(Nobody, Nobody, "key" :> Say({"v2"}, TRUE) @@ "pam" :> Say({"ours"}, FALSE)),
               Doc(Nobody, Nobody, Nobody)}]

\* dracut composes /etc/crypttab; the document carries one more entry of it.
Encrypted ==
    [tree |-> Machine, accounts |-> OnlyRoot, sync |-> TRUE,
     docs |-> {[Doc(Nobody, Nobody, Crypttab :> Say({"data"}, FALSE)) EXCEPT !.dracut = TRUE],
               [Doc(Nobody, Nobody, Nobody) EXCEPT !.dracut = TRUE, !.swap = TRUE]}]

\* mkinitcpio: the entry of the swap is merged into whatever file is there.
PlainSwap ==
    [tree |-> Machine, accounts |-> OnlyRoot, sync |-> FALSE,
     docs |-> {[Doc(Nobody, Nobody, Nobody) EXCEPT !.swap = TRUE], Doc(Nobody, Nobody, Nobody)}]

Machines == {Accounts, Etc, Encrypted, PlainSwap}

\* The theorem about secrets is about documents like these.
ASSUME NothingComposed == ComposesNoSecret
=============================================================================
