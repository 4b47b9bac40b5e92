--------------------------- MODULE MCPortForwards ---------------------------
(* One forward that may exist at the start and one that may be added, two  *)
(* addresses, so that an update may keep its port or take the other's, and *)
(* two tunnels: one that runs and one opened in its place or next to it.   *)
(* Three calls overlap in every way their lanes allow.                     *)
EXTENDS PortForwards, TLC

CONSTANTS f1, f2, p, q, u1, u2

MCIds == {f1, f2}
MCAddresses == {p, q}
MCTunnels == {u1, u2}
MCImports == {(f1 :> p) @@ (f2 :> None), (f1 :> None) @@ (f2 :> None)}
=============================================================================
