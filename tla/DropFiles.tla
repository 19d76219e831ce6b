----------------------------- MODULE DropFiles -----------------------------
(***************************************************************************)
(* lib/actions/drop_files_action.py, and encrypted_swap_action.py, which   *)
(* merges its lines into the /etc/crypttab the first may write whole.      *)
(* Under dracut with encryption neither writes that file: dracut composes  *)
(* it (initramfs/dracut.py), the captured lines included.                  *)
(***************************************************************************)
EXTENDS HomeFiles

CONSTANTS EtcPaths,
          Discovered,       \* the ones a sync finds without a declaration
          SystemdPaths,     \* the ones under /etc/systemd
          Shipped           \* the ones a package owns
VARIABLES ownedFiles,
          loaded,           \* what systemd has read of its files
          ownedSwap

Crypttab == "crypttab"
Fstab == "fstab"
Environment == "environment"
SwapLine == "swap"
Comment == "#"              \* lines that are no setting, or no entry

\* Mutant: /etc/crypttab is written although dracut composes it.
NeverYields(d) == d.files

\* _desired.
Desired(d) == [p \in DOMAIN d.files \ (IF d.dracut THEN {Crypttab} ELSE {}) |-> d.files[p]]

PlanFiles(d) ==
    [add |-> {p \in DOMAIN Desired(d) : ~Exists(p)},
     change |-> {p \in DOMAIN Desired(d) :
                    Exists(p) /\ \/ IsLink(p)
                                 \/ Read(p) # Desired(d)[p].content
                                 \/ Desired(d)[p].private /\ ~Private(p)},
     drop |-> ownedFiles \ DOMAIN Desired(d)]

EtcStep(action, do, p) == [action |-> action, do |-> do, path |-> p, arg |-> ""]
EachPath(action, do, paths) == [i \in 1 .. Cardinality(paths) |-> EtcStep(action, do, SetToSeq(paths)[i])]

\* apply: additive first, and systemd re-reads what was touched.
FileSteps(plan) ==
    EachPath("files", "write", plan.add \cup plan.change) \o EachPath("files", "delete", plan.drop)
        \o When((plan.add \cup plan.change \cup plan.drop) \cap SystemdPaths # {},
                <<EtcStep("files", "reload", "")>>)

\* What a package owns is left in place.
Delete(p) == IF p \in Shipped THEN UNCHANGED tree ELSE Unlink(p)

OnDisk == [p \in SystemdPaths |-> Read(p)]
DaemonReload == loaded' = OnDisk

ActualFiles(d) == {p \in DOMAIN Desired(d) : Exists(p)}

\* What a sync finds on its own: no link, nothing a package ships, in
\* /etc/crypttab an entry; a mode is only kept for a declared file.
Found == {p \in Discovered \ Shipped :
            /\ p \in DOMAIN tree /\ tree[p].kind = "file"
            /\ p = Crypttab => tree[p].content \ {Comment} # {}}

\* _effective_env_lines; a file that is not there keeps the declaration.
CapturedEnvironment(d) ==
    LET lines == Read(Environment) \ {Comment}
    IN IF ~Exists(Environment) THEN {p \in DOMAIN d.files : p = Environment}
       ELSE IF lines = {} THEN {} ELSE {Environment}

CapturedFiles(d) ==
    LET paths == (DOMAIN d.files \ {Environment}) \cup Found \cup CapturedEnvironment(d)
        now(p) == CASE p = Environment /\ Exists(p) -> Read(p) \ {Comment}
                    [] p # Environment /\ (p \in ActualFiles(d) \/ p \notin DOMAIN d.files) -> Read(p)
                    [] OTHER -> d.files[p].content
    IN [p \in paths |-> [content |-> now(p), private |-> p \in DOMAIN d.files /\ d.files[p].private]]

-----------------------------------------------------------------------------
(* The lines of a random-key swap, and the crypttab dracut composes *)

Converged(d) == SwapLine \in Read(Fstab) /\ (d.dracut \/ SwapLine \in Read(Crypttab))
Mentioned == SwapLine \in Read(Fstab) \cup Read(Crypttab)

PlanSwap(d) ==
    [add |-> IF d.swap /\ ~Converged(d) THEN {SwapLine} ELSE {}, change |-> {},
     drop |-> IF ~d.swap /\ ownedSwap /\ Mentioned THEN {SwapLine} ELSE {}]

SwapSteps(d, plan) ==
    When(plan.add # {}, <<EtcStep("swap", "append", Fstab)>>
                            \o When(~d.dracut, <<EtcStep("swap", "append", Crypttab)>>))
        \o When(plan.drop # {}, <<EtcStep("swap", "strip", Fstab), EtcStep("swap", "strip", Crypttab)>>)

Lines(p, content) ==
    tree' = IF Exists(p) THEN Put(Follow(p), [tree[Follow(p)] EXCEPT !.content = content])
            ELSE Put(p, File(content, FALSE, Root))
AddLine(p) == Lines(p, Read(p) \cup {SwapLine})
Strip(p) == IF Read(p) = {} THEN UNCHANGED tree ELSE Lines(p, Read(p) \ {SwapLine})

\* crypttab: the volumes of the disks block, then the lines `files' carries.
Composed(d) ==
    LET derived == {"root"} \cup (IF d.swap THEN {SwapLine} ELSE {})
    IN derived \cup (IF Crypttab \in DOMAIN d.files THEN d.files[Crypttab].content \ {Comment} ELSE {})

PlanCrypttab(d) ==
    [add |-> {}, change |-> IF d.dracut /\ Read(Crypttab) # Composed(d) THEN {Crypttab} ELSE {}, drop |-> {}]
CrypttabSteps(plan) == EachPath("initramfs", "compose", plan.change)
Compose(d) == Lines(Crypttab, Composed(d))
=============================================================================
