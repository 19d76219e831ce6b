------------------------------ MODULE MCStorage ------------------------------
(* A 3 GiB disk: blank, with a filesystem of somebody on it, or with an    *)
(* encrypted system that an earlier installation left.                     *)
EXTENDS Storage

MiB(n) == [unit |-> "MiB", n |-> n]
Rest == [unit |-> "rest", n |-> 0]

RootPath == <<>>
Boot == <<"boot">>
Home == <<"home">>

Esp == [label |-> <<"ESP">>, size |-> MiB(512), kind |-> "fat32", enc |-> FALSE,
        at |-> Boot, subs |-> <<>>]
SwapPart == [label |-> <<"SWAP">>, size |-> MiB(1030), kind |-> "random", enc |-> FALSE,
             at |-> NoPath, subs |-> <<>>]
PlainRoot == [label |-> <<"ROOT">>, size |-> Rest, kind |-> "ext4", enc |-> FALSE,
              at |-> RootPath, subs |-> <<>>]
HomeTenth == [label |-> <<"HOME">>, size |-> [unit |-> "%", n |-> 10], kind |-> "ext4",
              enc |-> FALSE, at |-> Home, subs |-> <<>>]
LuksRoot == [label |-> <<"ROOT">>, size |-> Rest, kind |-> "btrfs", enc |-> TRUE, at |-> NoPath,
             subs |-> <<[name |-> "@", at |-> RootPath], [name |-> "@home", at |-> Home]>>]

Layout0(wipe, list) == [wipe |-> wipe, parts |-> list]

MCLayouts == {Layout0(FALSE, <<Esp, LuksRoot>>), Layout0(TRUE, <<Esp, PlainRoot>>),
              Layout0(TRUE, <<LuksRoot>>), Layout0(FALSE, <<Esp, SwapPart, PlainRoot>>),
              Layout0(FALSE, <<HomeTenth, PlainRoot>>)}

\* The theorem about mounts is about such documents: here all are.
ASSUME LayoutsArranged == \A l \in MCLayouts : Arranged(l.parts)

Blank == [table |-> FALSE, parts |-> <<>>, content |-> <<>>,
          header |-> NoSlots]
Theirs == [table |-> TRUE, parts |-> 1 :> [start |-> 10, end |-> 8000, new |-> FALSE],
           content |-> 10 :> [label |-> <<"ESP">>, kind |-> "ext4", enc |-> FALSE,
                              subs |-> {}, fresh |-> FALSE],
           header |-> NoSlots]
Installed == [table |-> TRUE,
              parts |-> 1 :> [start |-> 10, end |-> 30720, new |-> FALSE],
              content |-> 10 :> [label |-> <<"ROOT">>, kind |-> "btrfs", enc |-> TRUE,
                                 subs |-> {"@", "@home"}, fresh |-> FALSE],
              header |-> [NoSlots EXCEPT ![1] = "passphrase", ![2] = "fido2"]]

MCDisks == {Blank, Theirs, Installed}

U(f, t, k, p, policy) ==
    [fido2 |-> f, tpm2 |-> t, keyfile |-> k, password |-> p, policy |-> policy]

MCUnlocks == {U(0, FALSE, FALSE, TRUE, "abort"), U(2, FALSE, FALSE, TRUE, "abort"),
              U(1, TRUE, TRUE, TRUE, "warn-and-continue")}
=============================================================================
