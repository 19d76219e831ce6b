----------------------------- MODULE AurClosure -----------------------------
(***************************************************************************)
(* dasik/lib/validation/aur_closure.py: the breadth-first walk that looks, *)
(* before anything is installed, for AUR packages whose dependencies       *)
(* nothing can satisfy.  One step is one level of the walk, one batch of   *)
(* requests to the AUR.                                                    *)
(*                                                                         *)
(* A chain is reported as a pair <<root, name>>: the declared package it   *)
(* starts from and the name nothing satisfies.  The names in between are   *)
(* only wording.                                                           *)
(***************************************************************************)
EXTENDS Naturals, FiniteSets

CONSTANTS
  Package,     \* every name a dependency can have
  Depends,     \* package |-> the packages it needs
  Repo,        \* in a configured repository
  Aur,         \* in the AUR
  AurProvided, \* what several AUR packages provide, so that none is chosen
  MaxNodes     \* _MAX_CLOSURE_NODES

ASSUME ClosureAssumption ==
  /\ Depends \in [Package -> SUBSET Package]
  /\ Repo \subseteq Package /\ Aur \subseteq Package /\ AurProvided \subseteq Package
  /\ MaxNodes \in Nat

VARIABLES
  frontier,  \* the AUR packages whose dependencies are asked for next
  rootOf,    \* AUR package of the closure |-> the root it was reached from
  decided,   \* names decided outside the walk, each reported at most once
  broken     \* the chains to report

walkVars == <<frontier, rootOf, decided, broken>>

NoWalk ==
  /\ frontier = {}
  /\ rootOf = [n \in {} |-> n]
  /\ decided = {}
  /\ broken = {}

StartWalk(roots) ==
  /\ frontier' = roots \cap Aur
  /\ rootOf' = [r \in roots |-> r]
  /\ decided' = {}
  /\ broken' = {<<r, r>> : r \in roots \ Aur}

\* The names of this level that nothing on the target or in a repository
\* satisfies and that no earlier level has seen.
OpenNames(met) ==
  ((UNION {Depends[n] : n \in frontier} \ met) \ DOMAIN rootOf) \ decided

\* The names the walk goes on from.
NextNodes(open) == open \cap Aur

\* The walk gives up on a level that takes the closure over the cap.
TooManyNodes(met) ==
  LET nodes == NextNodes(OpenNames(met))
  IN  nodes # {} /\ Cardinality(DOMAIN rootOf \cup nodes) > MaxNodes

\* One level.  Of the packages that need the same name the first one in the
\* batch gets it (`first'): the name is not looked at again for the others.
WalkLevel(met) ==
  LET open  == OpenNames(met)
      nodes == NextNodes(open)
  IN  /\ frontier # {}
      /\ \E first \in [open -> frontier] :
           /\ \A d \in open : d \in Depends[first[d]]
           /\ rootOf' = [n \in DOMAIN rootOf \cup nodes |->
                           IF n \in nodes THEN rootOf[first[n]] ELSE rootOf[n]]
           /\ broken' = broken \cup {<<rootOf[first[d]], d>> : d \in (open \ Aur) \ AurProvided}
      /\ frontier' = nodes
      /\ decided' = decided \cup (open \ Aur)

\* The roots the verdict names (b.chain[0]).
BrokenRoots == {r \in Package : \E n \in Package : <<r, n>> \in broken}

-----------------------------------------------------------------------------

\* Package and everything it needs, directly or not: the least set that holds
\* it and is closed under Depends.
Needs == [p \in Package |->
            {q \in Package : \A S \in SUBSET Package :
                               (p \in S /\ \A r \in S : Depends[r] \subseteq S) => q \in S}]

\* What the walk is for: packages nothing can install.
Hopeless(p, met) == ~ (Needs[p] \subseteq met \cup Aur \cup AurProvided)

=============================================================================
