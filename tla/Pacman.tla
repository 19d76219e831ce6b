------------------------------- MODULE Pacman -------------------------------
(***************************************************************************)
(* pacman, as the packages action of dasik drives it: the machine's        *)
(* packages and their install reasons, and the transactions `-S', `-Rns'   *)
(* and `-D'.  pacman is not part of this repository; what is modelled is   *)
(* what dasik's calls rely on: a transaction happens as a whole or not at  *)
(* all, brings the missing dependencies in with reason `dependency',       *)
(* leaves the reason of what is already there alone, refuses conflicts     *)
(* and broken dependencies, and -s sweeps out the dependencies that a      *)
(* removal leaves without a user.                                          *)
(***************************************************************************)
EXTENDS AurClosure

CONSTANTS
  Group,      \* the pacman groups
  Members,    \* group |-> its packages
  Provides,   \* package |-> the names it provides besides its own
  Conflicts   \* package |-> what cannot be installed beside it

ASSUME PacmanAssumption ==
  /\ Group \cap Package = {}
  /\ Members \in [Group -> SUBSET Repo]
  /\ Provides \in [Package -> SUBSET Package]
  /\ Conflicts \in [Package -> SUBSET Package]
  /\ \A p, q \in Package : q \in Conflicts[p] => p \in Conflicts[q] /\ p # q
  /\ \A p \in Repo : Depends[p] \subseteq Repo

VARIABLES
  installed,  \* pacman -Qq
  asdep       \* those of them that are not in pacman -Qqe

machine == <<installed, asdep>>

\* What a config can name.
Name == Package \cup Group

Explicit == installed \ asdep

\* pacman -T: installed, or provided by something installed.
Satisfies(p, n) == n = p \/ n \in Provides[p]
Satisfied(n) == \E p \in installed : Satisfies(p, n)

\* pacman -Sp: a repository package has the name or provides it.
RepoProvides(n) == \E p \in Repo : Satisfies(p, n)

\* The packages `pacman -S names' asks for: the members of a group, the
\* package of that name, or the first provider.
Asked(names) ==
  UNION {Members[g] : g \in names \cap Group}
    \cup {IF n \in Repo \/ ~RepoProvides(n) THEN n ELSE CHOOSE p \in Repo : Satisfies(p, n) :
            n \in names \cap Package}

\* Everything that comes with them, and is not there yet.
Missing(ps) == (UNION {Needs[p] : p \in ps}) \ installed

\* Pairs <<new, old>> pacman refuses to have together.
Clashes(ps) ==
  {c \in Missing(ps) \X (installed \cup Missing(ps)) : c[2] \in Conflicts[c[1]]}

\* A transaction on `ps' that has all it needs in `from' goes through.
CanInstall(ps, from) == Missing(ps) \subseteq from /\ Clashes(ps) = {}

\* What was asked for and was not there becomes explicit; with --needed the
\* rest keeps its reason.
Install(ps, explicit) ==
  /\ installed' = installed \cup Missing(ps)
  /\ asdep' = asdep \cup (Missing(ps) \ explicit)

\* pacman -Qi, "Required By".
RequiredBy(p) == {q \in installed : p \in Depends[q]}

CanRemove(ps) == ps \subseteq installed /\ \A p \in ps : RequiredBy(p) \subseteq ps

\* -s: the dependencies of what goes that nobody asked for and nothing else
\* needs.
Swept(ps) ==
  LET candidates == (UNION {Needs[p] : p \in ps} \cap asdep) \ ps
  IN  UNION {S \in SUBSET candidates : \A s \in S : RequiredBy(s) \subseteq ps \cup S}

RemoveWithDependencies(ps) ==
  /\ installed' = (installed \ ps) \ Swept(ps)
  /\ asdep' = (asdep \ ps) \ Swept(ps)

=============================================================================
