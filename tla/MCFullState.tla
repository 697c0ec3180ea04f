----------------------------- MODULE MCFullState ------------------------------
(***************************************************************************)
(* Instances of full-state synchronisation for TLC.                        *)
(***************************************************************************)
EXTENDS FullState, TLC

CONSTANTS d1, d2, d3

TwoDevices   == {d1, d2}
ThreeDevices == {d1, d2, d3}
TwoEvents    == {1, 2}

Symmetry2 == Permutations(TwoDevices)
Symmetry3 == Permutations(ThreeDevices)
=============================================================================
