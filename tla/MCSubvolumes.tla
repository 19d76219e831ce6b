---------------------------- MODULE MCSubvolumes ----------------------------
(* The root subvolume and two more; /srv, /srv/www below it, and /data.      *)
EXTENDS Subvolumes, TLC

CONSTANTS rootvol, s, w, f1, f2, nest

Srv == <<"srv">>
Www == <<"srv", "www">>
Dat == <<"data">>
Files == Permutations({f1, f2})
MCPaths == {Root, Srv, Www, Dat}
MCMoving == "srv" :> "srv-moving" @@ "www" :> "www-moving" @@ "data" :> "data-moving"
MCWritten == {Www, Dat}
MCConfigs == {<<>>, s :> Srv, s :> Dat, s :> Srv @@ w :> Www}
=============================================================================
