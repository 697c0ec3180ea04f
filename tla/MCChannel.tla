------------------------------ MODULE MCChannel -----------------------------
(***************************************************************************)
(* Instances of the encrypted connection for TLC.                          *)
(***************************************************************************)
EXTENDS Channel

CONSTANTS a, b

NoneTooLong == {}
SecondTooLong == {<<b, 2>>}
=============================================================================
