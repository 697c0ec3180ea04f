---------------------------- MODULE MCScheduler -----------------------------
(***************************************************************************)
(* Instances of the scheduler for TLC.                                     *)
(***************************************************************************)
EXTENDS Scheduler, TLC

CONSTANTS a1, a2, i1, i2, none

ThePeers == 1..2

\* The first device moves and re-registers; the second may take its place.
ThePlaces == 1 :> {a1, a2} @@ 2 :> {a2}

TheSuffixes == 1 :> {i1, i2} @@ 2 :> {i1}
=============================================================================
