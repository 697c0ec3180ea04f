------------------------------ MODULE MCPairing -----------------------------
(***************************************************************************)
(* Instances of the pairing ceremony for TLC.                              *)
(***************************************************************************)
EXTENDS Pairing

CONSTANTS laptop, desktop, tablet

TwoDevices   == {laptop, desktop}
ThreeDevices == {laptop, desktop, tablet}
=============================================================================
