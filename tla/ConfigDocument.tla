--------------------------- MODULE ConfigDocument ---------------------------
(***************************************************************************)
(* The config document as the reconciler sees it, for any number of        *)
(* domains whose items are disjoint.                                       *)
(*                                                                         *)
(*   on      items declared by hand                                        *)
(*   off     items declared off (systemd.disable_units)                    *)
(*   blocks  feature blocks (`bluetooth', `firewall', ...), each of which  *)
(*           contributes items through dasik/lib/expand                    *)
(*                                                                         *)
(* A domain is its position in the action registry: 1 .. NumDomains.       *)
(***************************************************************************)
EXTENDS Naturals

CONSTANTS
  Item,        \* packages, units, files ...: whatever can be present
  Block,       \* the feature blocks
  Contributes, \* block |-> the items it contributes
  NumDomains,  \* how many actions the registry holds
  DomainOf     \* item |-> the action that converges it

ASSUME ConfigAssumption ==
  /\ NumDomains \in Nat \ {0}
  /\ DomainOf \in [Item -> 1 .. NumDomains]
  /\ Contributes \in [Block -> SUBSET Item]

Config == [on : SUBSET Item, off : SUBSET Item, blocks : SUBSET Block]

ItemsOf(d) == {i \in Item : DomainOf[i] = d}

\* Items of a set of domains.
ItemsIn(ds) == {i \in Item : DomainOf[i] \in ds}

\* What the active blocks contribute.
Contributions(c) == UNION {Contributes[b] : b \in c.blocks}

\* SystemdModel refuses a unit both enabled and disabled.  It reads the
\* document as written, before the blocks are expanded.
Valid(c) == c.on \cap c.off = {}

\* expand_config: the contributions are merged into the base domains; the
\* blocks themselves stay in the document.
Expand(c) == [c EXCEPT !.on = @ \cup Contributions(c)]

\* Mutant: what is on the machine and undeclared is not captured.
DeclaredOnly(c, A) == c.on

\* A domain's import_state for a list of items: declared intent is kept and
\* what is present, neither declared nor declared off, is appended.
Captured(c, A) == c.on \cup ((A \ c.on) \ c.off)

\* ConfigWriter.merge: the fragments of the domains that could be read are
\* spliced over the document, everything else passes through.
Merge(c, A, read) ==
  [c EXCEPT !.on = (c.on \ ItemsIn(read)) \cup (Captured(c, A) \cap ItemsIn(read))]

\* subtract_contributions: what a block contributes stays attributed to the
\* block, unless the original document also spelled it out.
SubtractContributions(new, original) ==
  [new EXCEPT !.on = {i \in new.on : i \notin Contributions(original)
                                     \/ i \in original.on}]

=============================================================================
