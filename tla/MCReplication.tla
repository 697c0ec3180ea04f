--------------------------- MODULE MCReplication ----------------------------
(***************************************************************************)
(* Instances of the replicated event for TLC.                              *)
(***************************************************************************)
EXTENDS Replication, TLC

CONSTANTS d1, d2, d3, t1, t2, t3

TwoDevices   == {d1, d2}
ThreeDevices == {d1, d2, d3}
TwoTexts     == {t1, t2}
ThreeTexts   == {t1, t2, t3}

Symmetry2 == Permutations(TwoDevices) \cup Permutations(ThreeTexts)
Symmetry3 == Permutations(ThreeDevices) \cup Permutations(TwoTexts)
=============================================================================
