----------------------------- MODULE MCRemote -----------------------------
(* Remote supervision on a small instance: two parents, of which one       *)
(* spawns, or both have a child.                                           *)
EXTENDS Remote, TLC

CONSTANTS p1, p2, n1, n2

PlacementOf == (p1 :> n1) @@ (p2 :> n2)
OneSpawner == {p1}
=============================================================================
