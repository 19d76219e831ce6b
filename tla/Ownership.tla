----------------------------- MODULE Ownership -----------------------------
(***************************************************************************)
(* What dasik promises whoever administers the machine, whatever the       *)
(* interleaving of its commands, its crashes and its failures: it only     *)
(* ever removes, and only ever claims, items that a config handed to it    *)
(* has named.  Everything else on the machine is drift, which only the     *)
(* administrator adds or removes.  (docs/wiki/Workflows.md, "Ownership";   *)
(* the safety property named in set_math.compute_changes.)                 *)
(*                                                                         *)
(* `acts' counts what the administrator did, so that a removal by dasik    *)
(* can never pass for one of the administrator's.                          *)
(***************************************************************************)
EXTENDS Naturals

CONSTANT Item

VARIABLES
  present,   \* the items on the machine
  owned,     \* the items the manifest claims
  named,     \* the items some config handed to dasik has named
  acts       \* what the administrator did, counted

vars == <<present, owned, named, acts>>

Init ==
  /\ present \subseteq Item
  /\ owned = {}
  /\ named = {}
  /\ acts = 0

\* A config is handed to one of dasik's commands.
Name(S) ==
  /\ named' = named \cup S
  /\ UNCHANGED <<present, owned, acts>>

Add(i) ==
  /\ i \in named
  /\ present' = present \cup {i}
  /\ UNCHANGED <<owned, named, acts>>

Remove(i) ==
  /\ i \in named
  /\ present' = present \ {i}
  /\ UNCHANGED <<owned, named, acts>>

Record(S) ==
  /\ S \subseteq named
  /\ owned' = S
  /\ UNCHANGED <<present, named, acts>>

Administer(S) ==
  /\ present' = S
  /\ acts' = acts + 1
  /\ UNCHANGED <<owned, named>>

Next ==
  \/ \E S \in SUBSET Item : Name(S) \/ Record(S) \/ Administer(S)
  \/ \E i \in Item : Add(i) \/ Remove(i)

Spec == Init /\ [][Next]_vars

=============================================================================
