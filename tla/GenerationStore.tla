-------------------------- MODULE GenerationStore --------------------------
(***************************************************************************)
(* <target>/var/lib/dasik/generations, at the grain of its file system     *)
(* operations, so that a reader, another writer or a power cut can fall    *)
(* between any two of them.                                                *)
(*                                                                         *)
(*   gens     generation number |-> the files in its directory             *)
(*   current  where the `current' symlink points, NoGen when it is absent  *)
(*                                                                         *)
(* config.json and state.json are each written to a temporary file and     *)
(* renamed (write_json_atomically), so a file is either absent or whole.   *)
(***************************************************************************)
EXTENDS ConfigDocument, Integers, FiniteSets, FiniteSetsExt

CONSTANTS
  NoFile,    \* a file that is not there
  NoConfig   \* the config_hash of a manifest nobody wrote yet

VARIABLES gens, current

storeVars == <<gens, current>>

NoGen == 0

(***************************************************************************)
(* A manifest: what dasik owns.  Its domains are disjoint sets of items,   *)
(* so their union is enough.  config_hash identifies a config: it is the   *)
(* config.                                                                 *)
(***************************************************************************)
Manifest == [owned      : SUBSET Item,
             generation : Nat,
             hash       : Config \cup {NoConfig},
             partial    : BOOLEAN]

Generation == [config : Config \cup {NoFile}, state : Manifest \cup {NoFile}]

EmptyDir == [config |-> NoFile, state |-> NoFile]

StoreTypeOK ==
  /\ DOMAIN gens \subseteq Nat \ {NoGen}
  /\ IsFiniteSet(DOMAIN gens)
  /\ gens \in [DOMAIN gens -> Generation]
  /\ current \in Nat

StoreInit ==
  /\ gens = [n \in {} |-> EmptyDir]
  /\ current = NoGen

-----------------------------------------------------------------------------
(***************************************************************************)
(* Reading the history                                                     *)
(***************************************************************************)

Numbers == DOMAIN gens

\* Mutant: directories counted from 0.
NumberFromZero == IF Numbers = {} THEN 0 ELSE Max(Numbers) + 1

\* _next_number: one more than the largest directory, half-written or not.
NextNumber == IF Numbers = {} THEN 1 ELSE Max(Numbers) + 1

\* _is_partial: a directory whose state.json cannot be read is NOT partial.
IsPartial(n) == gens[n].state # NoFile /\ gens[n].state.partial

\* Both files are there, and the apply that wrote them finished.
Whole(n) == gens[n].config # NoFile /\ gens[n].state # NoFile
IsRestorable(n) == n \in Numbers /\ ~IsPartial(n) /\ Whole(n)

\* gens[-keep:], the list being sorted by number.
MostRecent(keep) == {n \in Numbers : Cardinality({m \in Numbers : m > n}) < keep}

NewestComplete ==
  LET complete == {n \in Numbers : ~IsPartial(n)}
  IN  IF complete = {} THEN {} ELSE {Max(complete)}

\* Mutant: prune forgets the current generation.
ForgetsCurrent(keep) == MostRecent(keep) \cup NewestComplete

Survivors(keep) ==
  MostRecent(keep) \cup (Numbers \cap {current}) \cup NewestComplete

\* What prune(keep) will delete.
Pruned(keep) == IF Cardinality(Numbers) <= keep THEN {} ELSE Numbers \ Survivors(keep)

\* _previous_generation: the complete generations before the current one.
Earlier == IF current \in Numbers THEN {n \in Numbers : n < current /\ ~IsPartial(n)}
                                  ELSE {}

-----------------------------------------------------------------------------
(***************************************************************************)
(* The steps of new(), restore() and prune()                               *)
(***************************************************************************)

\* One entry of the directory; mkdir(parents=True, exist_ok=True) creates it
\* when it is missing.
Put(n, g) == gens' = [m \in Numbers \cup {n} |-> IF m = n THEN g ELSE gens[m]]

Entry(n) == IF n \in Numbers THEN gens[n] ELSE EmptyDir

MakeDir(n) == Put(n, Entry(n)) /\ UNCHANGED current

PutConfig(n, c) == Put(n, [Entry(n) EXCEPT !.config = c]) /\ UNCHANGED current

PutState(n, m) == Put(n, [Entry(n) EXCEPT !.state = m]) /\ UNCHANGED current

\* _point_current_at is an unlink followed by a symlink.
Unlink == current' = NoGen /\ UNCHANGED gens

Link(n) == current = NoGen /\ current' = n /\ UNCHANGED gens

\* shutil.rmtree deletes the entries in any order, then the directory.
RemoveFile(n) ==
  /\ n \in Numbers
  /\ \/ gens[n].config # NoFile /\ Put(n, [gens[n] EXCEPT !.config = NoFile])
     \/ gens[n].state # NoFile /\ Put(n, [gens[n] EXCEPT !.state = NoFile])
  /\ UNCHANGED current

RemoveDir(n) ==
  /\ n \in Numbers
  /\ gens[n] = EmptyDir
  /\ gens' = [m \in Numbers \ {n} |-> gens[m]]
  /\ UNCHANGED current

=============================================================================
