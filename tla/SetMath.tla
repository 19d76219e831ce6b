------------------------------ MODULE SetMath ------------------------------
(***************************************************************************)
(* The D / M / A / F arithmetic of dasik/lib/state/set_math.py, pure.      *)
(*                                                                         *)
(*   D  what the config declares        M  what the manifest owns          *)
(*   A  what is on the machine          F  what the config declares off    *)
(*                                                                         *)
(* compute_changes returns a list: installs first, then removals.  The     *)
(* list is kept here as a record of two sets, because every action applies *)
(* the whole `add' part before the `drop' part, and nothing in the         *)
(* properties depends on the alphabetical order inside a part.             *)
(***************************************************************************)

\* INSTALL = D \ A.
Installs(D, A) == D \ A

\* REMOVE = M \ D.  The code does not intersect with A: an owned item that
\* already vanished is still planned for removal.
OwnedRemovals(D, M) == M \ D

\* Mutant: disable_units is never acted upon.
NeverForced(D, M, A, F) == {}

\* Forced removals, minus the ones already emitted as owned removals.
ForcedRemovals(D, M, A, F) == (F \cap A) \ OwnedRemovals(D, M)

\* What is reported and left alone.
Drift(D, M, A, F) == ((A \ D) \ M) \ F

ComputeChanges(D, M, A, F) ==
  [add  |-> Installs(D, A),
   drop |-> OwnedRemovals(D, M) \cup ForcedRemovals(D, M, A, F)]

NoChanges == [add |-> {}, drop |-> {}]

=============================================================================
