------------------------------- MODULE MCDasik -------------------------------
(***************************************************************************)
(* Small instances of Dasik for TLC.  Two actions are in the registry; the *)
(* item `p' (a package) belongs to the first, `u' and `v' (units) to the   *)
(* second; the block `b' contributes `v'.                                  *)
(***************************************************************************)
EXTENDS DasikProperties, TLC

CONSTANTS p, u, v, b

MCItem == {p, u, v}
MCBlock == {b}
MCContributes == [x \in {b} |-> {v}]
MCDomainOf == (p :> 1) @@ (u :> 2) @@ (v :> 2)

Doc(on, off, blocks) == [on |-> on, off |-> off, blocks |-> blocks]

\* The administrator starts with a package and a unit declared, then takes
\* both back, disables the unit and turns the block on.
MCStart == Doc({p, u}, {}, {})
MCConfigs == {Doc({}, {u}, {b})}

\* Two items are enough where two processes race: one in each domain.
MCItem2 == {p, v}
MCDomainOf2 == (p :> 1) @@ (v :> 2)
MCStart2 == Doc({p}, {}, {})
MCConfigs2 == {Doc({}, {}, {b})}

=============================================================================
