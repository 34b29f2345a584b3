----------------------------- MODULE MCWorldgen -----------------------------
(* Instances of Worldgen for TLC: every placement on the disk of radius 1;   *)
(* of these, the clusters of up to two systems of up to two stars are built; *)
(* scores below the window, in it and above; planets of all sizes and        *)
(* temperatures, and the ends of both.                                       *)
EXTENDS Worldgen

MCCounts == 0..(Capacity + 1)
MCPlacements == {<<>>, <<1>>, <<2>>, <<1, 1>>, <<2, 1>>}
MCBodies == {<<3, 30>>, <<12, 12>>, <<13, 9>>, <<40, 5>>, <<41, 6>>, <<283, 1>>, <<7, 20>>,
             <<20, 16>>}
=============================================================================
