--------------------------- MODULE MCSyncSession ----------------------------
(***************************************************************************)
(* Instances of the sync session for TLC.                                  *)
(***************************************************************************)
EXTENDS SyncSession

CONSTANTS low, high

TwoRecords == {1, 2}
=============================================================================
