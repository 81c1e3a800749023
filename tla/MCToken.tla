------------------------------ MODULE MCToken ------------------------------
(* Two cancelling threads and three registering ones.                      *)
EXTENDS CancellationToken

CONSTANTS k1, k2, r1, r2, r3

TwoCancellers == {k1, k2}
ThreeRegistrants == {r1, r2, r3}
=============================================================================
