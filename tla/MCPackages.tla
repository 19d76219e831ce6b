----------------------------- MODULE MCPackages -----------------------------
(***************************************************************************)
(* A small world of packages.                                              *)
(*                                                                         *)
(*   base         what building needs, in every system                     *)
(*   app, lib     in a repository; app depends on lib                      *)
(*   virt         what lib provides                                        *)
(*   old          installed by hand; cannot live beside app                *)
(*   m1, m2       the members of the group grp                             *)
(*   tool, adep   a Git source can build tool; its dependency adep is in   *)
(*                the AUR                                                  *)
(*   yay          an AUR helper                                            *)
(*   ext, mid     in the AUR; ext needs mid, and mid needs ghost, which    *)
(*                is nowhere                                               *)
(***************************************************************************)
EXTENDS Packages

CONSTANTS base, app, lib, old, m1, m2, virt, tool, adep, yay, ext, mid, ghost, grp, r1, r2

Packs == {base, app, lib, old, m1, m2, virt, tool, adep, yay, ext, mid, ghost}

MCDepends == [p \in Packs |-> IF p = app THEN {lib} ELSE IF p = tool THEN {adep}
                              ELSE IF p = ext THEN {mid, adep}
                              ELSE IF p = mid THEN {ghost} ELSE {}]
MCConflicts == [p \in Packs |-> IF p = app THEN {old} ELSE IF p = old THEN {app} ELSE {}]
MCProvides == [p \in Packs |-> IF p = lib THEN {virt} ELSE {}]
MCMembers == [g \in {grp} |-> {m1, m2}]
InRepos == {base, app, lib, old, m1, m2}

Plain == [want |-> {}, optional |-> {}, dep |-> {}, source |-> [p \in Packs |-> Nothing],
          unknown |-> "warn-and-skip", failure |-> "abort", conflicts |-> "abort",
          undeclared |-> "keep"]

ToolAt(r) == [[p \in Packs |-> Nothing] EXCEPT ![tool] = r]

\* An application and its library, in the way of an installed package.
Apps == [Plain EXCEPT !.want = {app, lib}, !.dep = {lib}, !.conflicts = "replace"]

\* A group, and a package built from a commit; an AUR package that cannot be had.
Built(r) == [Plain EXCEPT !.want = {grp, tool, ext}, !.optional = {ext}, !.source = ToolAt(r)]

\* The AUR alone, by a helper, going on after failures.
Lenient == [Plain EXCEPT !.want = {app, virt, tool, yay, mid, ghost}, !.failure = "warn-and-continue"]

\* More of the AUR than the closure may hold.
Wide == [Plain EXCEPT !.want = {tool, yay, ext}, !.optional = {ext}]

\* Nothing on the machine but what is declared; some of it cannot be had.
Strict == [Plain EXCEPT !.want = {adep, app, ghost}, !.optional = {app, ghost},
                        !.unknown = "error", !.undeclared = "remove"]

MCStart == Apps
MCConfigs == {Apps, Built(r1), Built(r2), Lenient, Wide, Strict}

=============================================================================
