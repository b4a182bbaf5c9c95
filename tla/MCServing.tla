------------------------------ MODULE MCServing -----------------------------
(***************************************************************************)
(* Small instances of the serving system for TLC.                          *)
(***************************************************************************)
EXTENDS ServingSystem, TLC

CONSTANTS k1, k2, c1

Pair(c, h) == ("current" :> c) @@ ("history" :> h)

(* The three marts differ by an update with an insert, and by deletions,   *)
(* in each dataset; history also holds a key that current does not.        *)
MartA == Pair({<<k1, 1>>}, {<<k1, 1>>})
MartB == Pair({<<k1, 2>>, <<k2, 1>>}, {<<k1, 1>>, <<k2, 2>>})
MartC == Pair({<<k2, 1>>}, {})

TwoMarts   == {MartA, MartB}
ThreeMarts == {MartA, MartB, MartC}
=============================================================================
