---------------------------- MODULE MCMisbehavior ----------------------------
(* Five records, four of them refused, and the thresholds scaled down in order. *)
EXTENDS Misbehavior

FiveRecords == 1 .. 5
Refused == 2 .. 5
=============================================================================
